-------------------------- MODULE TriageSweepProofs --------------------------
(***************************************************************************)
(* The limits of the triage sweep (TriageKeepsItsLimits), for any stories, *)
(* any ceilings and any number of rulings, questions and lost sweeps: the  *)
(* invariant they follow from, and that every step keeps it.               *)
(***************************************************************************)
EXTENDS TriageSweep, TLAPS

Actions ==
    {"park_for_human", "mark_done", "split_story", "repo_issue", "patch_acceptance",
     "amend_scope", "escalate_model"}

TriageStory ==
    [status : {"absent", "todo", "failed", "parked", "done"}, why : {"none", "reason", "cap"},
     attempts : Nat, tried : SUBSET Actions, deferrals : Nat, grades : Nat]

TriageManifest == [created : Nat, stories : [Stories -> TriageStory]]

Absent(m, s) == m.stories[s].status = "absent"

\* Two manifests agree on what the limits are about, but for the grades.
Agree(d, m) ==
    /\ m.created = d.created
    /\ \A s \in Stories :
        /\ IF Absent(d, s) THEN m.stories[s] = d.stories[s] ELSE ~Absent(m, s)
        /\ m.stories[s].attempts = d.stories[s].attempts
        /\ m.stories[s].tried = d.stories[s].tried

TriageTyped ==
    /\ disk \in TriageManifest
    /\ base # NoSnapshot => base \in TriageManifest
    /\ graded \in [Stories -> Nat] /\ ruled \in [Stories -> Nat]
    /\ unparks \in Nat /\ lost \in Nat /\ questions \in Nat
    /\ stale \subseteq Stories /\ wiped \subseteq Stories

\* The attempts a story records are the rulings on its budget, but for those of
\* lost sweeps.
Counted ==
    \A s \in Stories :
        /\ disk.stories[s].attempts <= MaxAttempts
        /\ ruled[s] <= disk.stories[s].attempts + lost

GradesKept ==
    /\ \A s \in Stories \ (stale \cup wiped) : disk.stories[s].grades = graded[s]
    /\ \A s \in Stories : Absent(disk, s) => graded[s] = 0 /\ disk.stories[s] = NewStory("absent")

\* A story triage created is there because the split of its parent was tried.
SplitOnce ==
    /\ wiped # {} => unparks > 0
    /\ unparks = 0 =>
        \A s \in Stories : \A x \in Children[s] :
            ~Absent(disk, x) => "split_story" \in disk.stories[s].tried

TriageInv ==
    /\ TriageTyped /\ Counted /\ GradesKept /\ SplitOnce
    /\ disk.created <= MaxCreated + 1
    /\ base # NoSnapshot => Agree(disk, base)

\* The invariant after a step that leaves what the limits are about alone.
LEMMA QuietStep ==
    ASSUME TriageInv, disk' \in TriageManifest, Agree(disk, disk'),
           \A s \in Stories : disk'.stories[s].grades = disk.stories[s].grades,
           base' = NoSnapshot \/ base' = disk' \/ base' = base,
           UNCHANGED <<graded, stale, wiped, unparks>>, lost' \in Nat, lost' >= lost,
           questions' \in Nat,
           ruled' \in [Stories -> Nat],
           \A s \in Stories : ruled'[s] - lost' <= ruled[s] - lost
    PROVE  TriageInv'
<1> USE DEF TriageInv
<1>1. TriageTyped'
  BY DEF TriageTyped
<1>2. Counted'
  <2> SUFFICES ASSUME NEW s \in Stories
               PROVE  /\ disk'.stories[s].attempts <= MaxAttempts
                      /\ ruled'[s] <= disk'.stories[s].attempts + lost'
    BY DEF Counted
  <2>1. /\ disk.stories[s].attempts \in Nat /\ ruled[s] \in Nat /\ ruled'[s] \in Nat
        /\ lost \in Nat /\ lost' \in Nat
    BY DEF TriageTyped, TriageManifest, TriageStory
  <2>2. disk'.stories[s].attempts = disk.stories[s].attempts
    BY DEF Agree
  <2>3. disk.stories[s].attempts <= MaxAttempts /\ ruled[s] <= disk.stories[s].attempts + lost
    BY DEF Counted
  <2>4. ruled'[s] - lost' <= ruled[s] - lost
    OBVIOUS
  <2> QED BY <2>1, <2>2, <2>3, <2>4
<1>3. GradesKept'
  BY DEF GradesKept, Agree, Absent, NewStory
<1>4. SplitOnce'
  <2>1. \A s \in Stories : Children[s] \subseteq Stories
    BY TriageAssumption DEF Stories
  <2> QED BY <2>1 DEF SplitOnce, Agree, Absent
<1>5. disk'.created <= MaxCreated + 1 /\ (base' # NoSnapshot => Agree(disk, base)')
  BY DEF Agree, Absent
<1> QED BY <1>1, <1>2, <1>3, <1>4, <1>5

\* What the merge makes of one story, field by field.
LEMMA MergedFields ==
    ASSUME NEW a \in TriageStory, NEW b \in TriageStory, NEW c \in TriageStory
    PROVE  LET r == [f \in DOMAIN a |-> IF c[f] # b[f] THEN c[f] ELSE a[f]] IN
           /\ r \in TriageStory
           /\ r.status = IF c.status # b.status THEN c.status ELSE a.status
           /\ r.attempts = IF c.attempts # b.attempts THEN c.attempts ELSE a.attempts
           /\ r.tried = IF c.tried # b.tried THEN c.tried ELSE a.tried
           /\ r.grades = IF c.grades # b.grades THEN c.grades ELSE a.grades
<1>1. DOMAIN a = {"status", "why", "attempts", "tried", "deferrals", "grades"}
  BY DEF TriageStory
<1> QED BY <1>1 DEF TriageStory

LEMMA StoryOf ==
    ASSUME NEW m \in TriageManifest, NEW s \in Stories
    PROVE  /\ m.stories[s] \in TriageStory
           /\ m.stories[s].attempts \in Nat /\ m.stories[s].grades \in Nat
           /\ m.stories[s].tried \in SUBSET Actions
BY DEF TriageManifest, TriageStory

\* _merge_sweep_changes, on the manifest of which base is a snapshot.
LEMMA MergedIs ==
    ASSUME TriageInv, base # NoSnapshot, NEW m \in TriageManifest,
           \A s \in Stories : Absent(m, s) => Absent(base, s) /\ m.stories[s] = base.stories[s]
    PROVE  LET d == Merged(disk, m) IN
           /\ d \in TriageManifest
           /\ d.created = m.created
           /\ \A s \in Stories :
                /\ d.stories[s].attempts = m.stories[s].attempts
                /\ d.stories[s].tried = m.stories[s].tried
                /\ Absent(d, s) <=> Absent(m, s)
                /\ Absent(d, s) => d.stories[s] = disk.stories[s]
                /\ d.stories[s].grades =
                    IF (Absent(base, s) /\ ~Absent(m, s)) \/ m.stories[s].grades # base.stories[s].grades
                    THEN m.stories[s].grades ELSE disk.stories[s].grades
<1> DEFINE d == Merged(disk, m)
           new(s) == [f \in DOMAIN disk.stories[s] |->
                        IF m.stories[s][f] # base.stories[s][f] THEN m.stories[s][f]
                        ELSE disk.stories[s][f]]
<1>1. disk \in TriageManifest /\ base \in TriageManifest /\ Agree(disk, base)
  BY DEF TriageInv, TriageTyped
<1>2. d.created = m.created
  BY <1>1 DEF Merged, Agree
<1>3. ASSUME NEW s \in Stories, Absent(base, s)
      PROVE  /\ d.stories[s] = IF Absent(m, s) THEN disk.stories[s] ELSE m.stories[s]
             /\ base.stories[s] = disk.stories[s] /\ Absent(disk, s)
  BY <1>1, <1>3 DEF Merged, Agree, Absent
<1>4. ASSUME NEW s \in Stories, ~Absent(base, s)
      PROVE  /\ d.stories[s] = new(s) /\ ~Absent(disk, s)
             /\ base.stories[s].attempts = disk.stories[s].attempts
             /\ base.stories[s].tried = disk.stories[s].tried
  BY <1>1, <1>4 DEF Merged, Agree, Absent
<1>5. ASSUME NEW s \in Stories
      PROVE  /\ d.stories[s] \in TriageStory
             /\ d.stories[s].attempts = m.stories[s].attempts
             /\ d.stories[s].tried = m.stories[s].tried
             /\ Absent(d, s) <=> Absent(m, s)
             /\ Absent(d, s) => d.stories[s] = disk.stories[s]
             /\ d.stories[s].grades =
                    IF (Absent(base, s) /\ ~Absent(m, s)) \/ m.stories[s].grades # base.stories[s].grades
                    THEN m.stories[s].grades ELSE disk.stories[s].grades
  <2> HIDE DEF d
  <2>1. /\ disk.stories[s] \in TriageStory /\ base.stories[s] \in TriageStory
        /\ m.stories[s] \in TriageStory
    BY <1>1, StoryOf
  <2>2. CASE Absent(base, s)
    BY <1>3, <2>1, <2>2 DEF Absent
  <2>3. CASE ~Absent(base, s)
    <3>1. /\ new(s) \in TriageStory
          /\ new(s).status = IF m.stories[s].status # base.stories[s].status
                             THEN m.stories[s].status ELSE disk.stories[s].status
          /\ new(s).attempts = IF m.stories[s].attempts # base.stories[s].attempts
                               THEN m.stories[s].attempts ELSE disk.stories[s].attempts
          /\ new(s).tried = IF m.stories[s].tried # base.stories[s].tried
                            THEN m.stories[s].tried ELSE disk.stories[s].tried
          /\ new(s).grades = IF m.stories[s].grades # base.stories[s].grades
                             THEN m.stories[s].grades ELSE disk.stories[s].grades
      BY <2>1, MergedFields, SMTT(20)
    <3> HIDE DEF new
    <3> QED BY <1>4, <2>3, <3>1 DEF Absent
  <2> QED BY <2>2, <2>3
<1>6. d \in TriageManifest
  <2>1. d = [created |-> d.created, stories |-> d.stories]
        /\ d.stories = [s \in Stories |-> d.stories[s]]
    BY DEF Merged
  <2>2. d.created \in Nat
    BY <1>2 DEF TriageManifest
  <2> HIDE DEF d
  <2> QED BY <1>5, <2>1, <2>2 DEF TriageManifest
<1> HIDE DEF d
<1> QED BY <1>2, <1>5, <1>6 DEF d

\* The snapshot a sweep works on, with its capped stories parked.
LEMMA SnapshotIs ==
    ASSUME TriageInv, base # NoSnapshot
    PROVE  /\ base \in TriageManifest /\ Snapshot \in TriageManifest
           /\ Snapshot.created = base.created
           /\ \A s \in Stories :
                /\ s \notin Capped(base) => Snapshot.stories[s] = base.stories[s]
                /\ Absent(Snapshot, s) <=> Absent(base, s)
                /\ Absent(base, s) => Snapshot.stories[s] = base.stories[s]
                /\ Snapshot.stories[s].attempts = base.stories[s].attempts
                /\ Snapshot.stories[s].tried = base.stories[s].tried
                /\ Snapshot.stories[s].grades = base.stories[s].grades
<1>1. base \in TriageManifest
  BY DEF TriageInv, TriageTyped
<1>2. /\ Snapshot.created = base.created
      /\ DOMAIN Snapshot = DOMAIN base
      /\ Snapshot = [created |-> base.created, stories |-> Snapshot.stories]
      /\ DOMAIN Snapshot.stories = Stories
      /\ Snapshot.stories = [s \in Stories |-> Snapshot.stories[s]]
  BY <1>1 DEF Snapshot, CapsParked, TriageManifest
<1>3. ASSUME NEW s \in Stories
      PROVE  \/ Snapshot.stories[s] = base.stories[s]
             \/ s \in Capped(base) /\ Snapshot.stories[s] = Park(base.stories[s], "cap")
  BY <1>1 DEF Snapshot, CapsParked, TriageManifest
<1>4. ASSUME NEW s \in Stories
      PROVE  /\ Snapshot.stories[s] \in TriageStory
             /\ s \notin Capped(base) => Snapshot.stories[s] = base.stories[s]
             /\ Absent(Snapshot, s) <=> Absent(base, s)
             /\ Absent(base, s) => Snapshot.stories[s] = base.stories[s]
             /\ Snapshot.stories[s].attempts = base.stories[s].attempts
             /\ Snapshot.stories[s].tried = base.stories[s].tried
             /\ Snapshot.stories[s].grades = base.stories[s].grades
  <2>1. base.stories[s] \in TriageStory
    BY <1>1, StoryOf
  <2>2. s \in Capped(base) => base.stories[s].status \in {"failed", "parked"}
    BY DEF Capped, Candidate
  <2> QED BY <1>3, <2>1, <2>2 DEF Park, Absent, TriageStory
<1>5. Snapshot \in TriageManifest
  BY <1>1, <1>2, <1>4 DEF TriageManifest
<1> QED BY <1>1, <1>2, <1>4, <1>5

LEMMA SubjectIs ==
    ASSUME TriageInv, HasSubject
    PROVE  /\ base # NoSnapshot /\ base \in TriageManifest
           /\ Subject \in Stories /\ Candidate(base, Subject) /\ Allowed(base, Subject)
           /\ ~Absent(base, Subject)
           /\ Snapshot.stories[Subject] = base.stories[Subject]
           /\ base.stories[Subject] \in TriageStory
<1>1. base # NoSnapshot /\ Subject \in FirstActionable(base)
  BY DEF HasSubject, Subject
<1>2. Subject \in Stories /\ Candidate(base, Subject) /\ Allowed(base, Subject)
  BY <1>1 DEF FirstActionable, Actionable
<1>3. Subject \notin Capped(base) /\ ~Absent(base, Subject)
  BY <1>2 DEF Capped, Candidate, Absent
<1> QED BY <1>1, <1>2, <1>3, SnapshotIs, StoryOf

\* A sweep that ends without a ruling.
LEMMA QuietEnd ==
    ASSUME TriageInv, base # NoSnapshot, NEW m \in TriageManifest,
           m.created = base.created,
           \A s \in Stories :
                /\ Absent(m, s) <=> Absent(base, s)
                /\ Absent(m, s) => m.stories[s] = base.stories[s]
                /\ m.stories[s].attempts = base.stories[s].attempts
                /\ m.stories[s].tried = base.stories[s].tried
                /\ m.stories[s].grades = base.stories[s].grades,
           Ends(m), UNCHANGED <<triageHistory, troubleVars>>
    PROVE  TriageInv'
<1>1. disk' = Merged(disk, m) /\ base' = NoSnapshot
  BY DEF Ends
<1>2. /\ disk' \in TriageManifest /\ disk'.created = m.created
      /\ \A s \in Stories :
            /\ disk'.stories[s].attempts = m.stories[s].attempts
            /\ disk'.stories[s].tried = m.stories[s].tried
            /\ Absent(disk', s) <=> Absent(m, s)
            /\ Absent(disk', s) => disk'.stories[s] = disk.stories[s]
            /\ disk'.stories[s].grades = disk.stories[s].grades
  BY <1>1, MergedIs
<1>3. Agree(disk, base)
  BY DEF TriageInv
<1>4. Agree(disk, disk')
  BY <1>2, <1>3 DEF Agree, Absent
<1>5. /\ UNCHANGED <<graded, stale, wiped, unparks, ruled, lost, questions>>
      /\ ruled \in [Stories -> Nat] /\ lost \in Nat /\ questions \in Nat
  BY DEF triageHistory, troubleVars, TriageInv, TriageTyped
<1>6. \A s \in Stories : ruled'[s] - lost' <= ruled[s] - lost
  BY <1>5
<1> QED BY <1>1, <1>2, <1>4, <1>5, <1>6, QuietStep

\* What a change of one story that is there leaves of a manifest.
LEMMA OneChanged ==
    ASSUME NEW n \in TriageManifest, NEW s \in Stories, NEW new \in TriageStory
    PROVE  LET m == [n EXCEPT !.stories[s] = new] IN
           /\ m \in TriageManifest
           /\ m.created = n.created
           /\ m.stories[s] = new
           /\ \A x \in Stories : x # s => m.stories[x] = n.stories[x]
BY DEF TriageManifest

LEMMA GradedStory ==
    ASSUME NEW a \in TriageStory, NEW result \in {"failed", "done"}
    PROVE  LET new == [a EXCEPT !.status = result, !.grades = @ + 1] IN
           /\ new \in TriageStory /\ new.status = result
           /\ new.attempts = a.attempts /\ new.tried = a.tried
           /\ new.grades = a.grades + 1
<1>1. a.grades + 1 \in Nat
  BY DEF TriageStory
<1> QED BY <1>1 DEF TriageStory

LEMMA GradeStep ==
    ASSUME TriageInv, NEW s \in Stories, Grade(s)
    PROVE  TriageInv'
<1>1. /\ disk \in TriageManifest /\ disk.stories[s] \in TriageStory
      /\ disk.stories[s].status = "todo" /\ disk.stories[s].grades \in Nat
  BY StoryOf DEF Grade, TriageInv, TriageTyped
<1>2. /\ UNCHANGED <<base, ruled, stale, wiped, unparks, lost, questions>>
      /\ graded' = [graded EXCEPT ![s] = @ + 1]
  BY DEF Grade, troubleVars
<1>3. PICK result \in {"failed", "done"} :
        disk' = [disk EXCEPT !.stories[s].status = result, !.stories[s].grades = @ + 1]
  BY DEF Grade
<1> DEFINE new == [disk.stories[s] EXCEPT !.status = result, !.grades = @ + 1]
<1>4. /\ new \in TriageStory /\ new.status = result
      /\ new.attempts = disk.stories[s].attempts /\ new.tried = disk.stories[s].tried
      /\ new.grades = disk.stories[s].grades + 1
  BY <1>1, GradedStory
<1>5. disk' = [disk EXCEPT !.stories[s] = new]
  BY <1>1, <1>3 DEF TriageManifest, TriageStory
<1> HIDE DEF new
<1>6. /\ disk' \in TriageManifest /\ disk'.created = disk.created /\ disk'.stories[s] = new
      /\ \A x \in Stories : x # s => disk'.stories[x] = disk.stories[x]
  BY <1>1, <1>4, <1>5, OneChanged
<1>7. ~Absent(disk, s) /\ ~Absent(disk', s)
  BY <1>1, <1>4, <1>6 DEF Absent
<1>8. /\ Agree(disk, disk')
      /\ \A x \in Stories :
            /\ disk'.stories[x].attempts = disk.stories[x].attempts
            /\ disk'.stories[x].tried = disk.stories[x].tried
            /\ Absent(disk', x) <=> Absent(disk, x)
            /\ Absent(disk, x) => disk'.stories[x] = disk.stories[x]
  BY <1>4, <1>6, <1>7 DEF Agree, Absent
<1>9. \A m : Agree(disk, m) => Agree(disk', m)
  BY <1>6, <1>8 DEF Agree
<1>10. GradesKept'
  <2>1. graded \in [Stories -> Nat]
    BY DEF TriageInv, TriageTyped
  <2>2. \A x \in Stories : graded'[x] = IF x = s THEN graded[x] + 1 ELSE graded[x]
    BY <1>2, <2>1
  <2>3. \A x \in Stories :
            disk'.stories[x].grades =
                IF x = s THEN disk.stories[x].grades + 1 ELSE disk.stories[x].grades
    BY <1>4, <1>6
  <2>4. GradesKept
    BY DEF TriageInv
  <2>5. \A x \in Stories \ (stale' \cup wiped') : disk'.stories[x].grades = graded'[x]
    BY <1>2, <2>2, <2>3, <2>4 DEF GradesKept
  <2>6. \A x \in Stories :
            Absent(disk', x) => graded'[x] = 0 /\ disk'.stories[x] = NewStory("absent")
    BY <1>7, <1>8, <2>2, <2>4 DEF GradesKept
  <2> QED BY <2>5, <2>6 DEF GradesKept, Absent, NewStory
<1>11. TriageTyped'
  BY <1>2, <1>6 DEF TriageInv, TriageTyped
<1>12. Counted'
  BY <1>2, <1>8 DEF TriageInv, Counted
<1>13. SplitOnce'
  <2>1. \A x \in Stories : Children[x] \subseteq Stories
    BY TriageAssumption DEF Stories
  <2> QED BY <1>2, <1>8, <2>1 DEF TriageInv, SplitOnce, Absent
<1>14. disk'.created <= MaxCreated + 1 /\ (base' # NoSnapshot => Agree(disk, base)')
  <2>1. base' # NoSnapshot => Agree(disk', base')
    BY <1>2, <1>9 DEF TriageInv
  <2> QED BY <1>6, <2>1 DEF TriageInv, Agree, Absent
<1> QED BY <1>10, <1>11, <1>12, <1>13, <1>14 DEF TriageInv

LEMMA QuestionStep ==
    ASSUME TriageInv, NEW s \in Stories, ParkForQuestion(s)
    PROVE  TriageInv'
<1>1. /\ disk \in TriageManifest /\ disk.stories[s] \in TriageStory
      /\ disk.stories[s].status = "todo"
  BY StoryOf DEF ParkForQuestion, TriageInv, TriageTyped
<1>2. /\ UNCHANGED <<base, graded, ruled, stale, wiped, unparks, lost>>
      /\ questions' = questions + 1
  BY DEF ParkForQuestion, triageHistory
<1> DEFINE new == [disk.stories[s] EXCEPT !.status = "parked", !.why = "reason"]
<1>3. /\ new \in TriageStory /\ new.status = "parked"
      /\ new.attempts = disk.stories[s].attempts /\ new.tried = disk.stories[s].tried
      /\ new.grades = disk.stories[s].grades
  BY <1>1 DEF TriageStory
<1>4. disk' = [disk EXCEPT !.stories[s] = new]
  BY <1>1 DEF ParkForQuestion, TriageManifest, TriageStory
<1> HIDE DEF new
<1>5. /\ disk' \in TriageManifest /\ disk'.created = disk.created /\ disk'.stories[s] = new
      /\ \A x \in Stories : x # s => disk'.stories[x] = disk.stories[x]
  BY <1>1, <1>3, <1>4, OneChanged
<1>6. Agree(disk, disk') /\ \A x \in Stories : disk'.stories[x].grades = disk.stories[x].grades
  BY <1>1, <1>3, <1>5 DEF Agree, Absent
<1>7. /\ ruled \in [Stories -> Nat] /\ lost \in Nat /\ questions \in Nat
  BY DEF TriageInv, TriageTyped
<1>8. \A x \in Stories : ruled'[x] - lost' <= ruled[x] - lost
  BY <1>2, <1>7
<1> QED BY <1>2, <1>5, <1>6, <1>7, <1>8, QuietStep

LEMMA UnparkStep ==
    ASSUME TriageInv, NEW s \in Stories, Unpark(s)
    PROVE  TriageInv'
<1>1. /\ disk \in TriageManifest /\ disk.stories[s] \in TriageStory
      /\ disk.stories[s].status = "parked"
  BY StoryOf DEF Unpark, TriageInv, TriageTyped
<1>2. /\ UNCHANGED <<base, graded, stale, wiped, lost, questions>>
      /\ ruled' = [ruled EXCEPT ![s] = 0] /\ unparks' = unparks + 1 /\ base = NoSnapshot
  BY DEF Unpark
<1>3. PICK cleared \in {{"why", "attempts"}, {"why", "attempts", "tried"}} :
           disk' = [disk EXCEPT !.stories[s] =
                        [f \in DOMAIN disk.stories[s] |->
                            IF f \in cleared \cup {"status"} THEN NewStory("todo")[f]
                            ELSE disk.stories[s][f]]]
  BY <1>1 DEF Unpark, TriageManifest
<1> DEFINE new == [f \in DOMAIN disk.stories[s] |->
                    IF f \in cleared \cup {"status"} THEN NewStory("todo")[f]
                    ELSE disk.stories[s][f]]
<1>4. /\ new \in TriageStory /\ new.status = "todo"
      /\ new.attempts = 0 /\ new.grades = disk.stories[s].grades
  <2>1. DOMAIN disk.stories[s] = {"status", "why", "attempts", "tried", "deferrals", "grades"}
    BY <1>1 DEF TriageStory
  <2> QED BY <1>1, <2>1 DEF TriageStory, NewStory
<1>5. disk' = [disk EXCEPT !.stories[s] = new]
  BY <1>3
<1> HIDE DEF new
<1>6. /\ disk' \in TriageManifest /\ disk'.created = disk.created /\ disk'.stories[s] = new
      /\ \A x \in Stories : x # s => disk'.stories[x] = disk.stories[x]
  BY <1>1, <1>4, <1>5, OneChanged
<1>7. /\ graded \in [Stories -> Nat] /\ ruled \in [Stories -> Nat] /\ lost \in Nat
      /\ unparks \in Nat
  BY DEF TriageInv, TriageTyped
<1>8. TriageTyped'
  BY <1>2, <1>6, <1>7 DEF TriageInv, TriageTyped
<1>9. Counted'
  <2> SUFFICES ASSUME NEW x \in Stories
               PROVE  /\ disk'.stories[x].attempts <= MaxAttempts
                      /\ ruled'[x] <= disk'.stories[x].attempts + lost'
    BY DEF Counted
  <2>1. CASE x = s
    BY <1>2, <1>4, <1>6, <1>7, <2>1, TriageAssumption
  <2>2. CASE x # s
    BY <1>2, <1>6, <1>7, <2>2 DEF TriageInv, Counted
  <2> QED BY <2>1, <2>2
<1>10. GradesKept'
  <2>1. \A x \in Stories :
            /\ disk'.stories[x].grades = disk.stories[x].grades
            /\ Absent(disk', x) => Absent(disk, x) /\ disk'.stories[x] = disk.stories[x]
    BY <1>1, <1>4, <1>6 DEF Absent
  <2>2. GradesKept
    BY DEF TriageInv
  <2>5. graded' = graded /\ stale' = stale /\ wiped' = wiped
    BY <1>2
  <2>3. \A x \in Stories \ (stale' \cup wiped') : disk'.stories[x].grades = graded'[x]
    BY <2>5, <2>1, <2>2 DEF GradesKept
  <2>4. \A x \in Stories :
            Absent(disk', x) => graded'[x] = 0 /\ disk'.stories[x] = NewStory("absent")
    BY <2>5, <2>1, <2>2 DEF GradesKept
  <2> QED BY <2>3, <2>4 DEF GradesKept, Absent, NewStory
<1>11. SplitOnce'
  BY <1>2, <1>7 DEF SplitOnce
<1> QED BY <1>2, <1>6, <1>8, <1>9, <1>10, <1>11 DEF TriageInv

\* The sweeps that end without a ruling.
LEMMA NoRulingStep ==
    ASSUME TriageInv, NothingToRule \/ ParkExhausted \/ SkipInfra \/ Defer
    PROVE  TriageInv'
<1>1. CASE NothingToRule \/ SkipInfra
  <2>1. /\ base # NoSnapshot /\ Ends(Snapshot) /\ UNCHANGED <<triageHistory, troubleVars>>
    BY <1>1 DEF NothingToRule, SkipInfra, HasSubject
  <2> QED BY <2>1, SnapshotIs, QuietEnd
<1>2. ASSUME HasSubject, NEW new \in TriageStory,
             new.status # "absent",
             new.attempts = base.stories[Subject].attempts,
             new.tried = base.stories[Subject].tried,
             new.grades = base.stories[Subject].grades,
             EndsWith(new), UNCHANGED <<triageHistory, troubleVars>>
      PROVE  TriageInv'
  <2> DEFINE m == [Snapshot EXCEPT !.stories[Subject] = new]
  <2>1. /\ Subject \in Stories /\ ~Absent(base, Subject) /\ base # NoSnapshot
        /\ Snapshot \in TriageManifest
    BY <1>2, SubjectIs, SnapshotIs
  <2>2. /\ m \in TriageManifest /\ m.created = Snapshot.created /\ m.stories[Subject] = new
        /\ \A x \in Stories : x # Subject => m.stories[x] = Snapshot.stories[x]
    BY <1>2, <2>1, OneChanged
  <2>3. Ends(m)
    BY <1>2 DEF EndsWith
  <2> HIDE DEF m
  <2>4. m.created = base.created
    BY <2>1, <2>2, SnapshotIs
  <2>5. \A s \in Stories :
                /\ Absent(m, s) <=> Absent(base, s)
                /\ Absent(m, s) => m.stories[s] = base.stories[s]
                /\ m.stories[s].attempts = base.stories[s].attempts
                /\ m.stories[s].tried = base.stories[s].tried
                /\ m.stories[s].grades = base.stories[s].grades
    BY <1>2, <2>1, <2>2, SnapshotIs DEF Absent
  <2> QED BY <1>2, <2>1, <2>2, <2>3, <2>4, <2>5, QuietEnd
<1>3. CASE ParkExhausted
  <2>1. HasSubject /\ EndsWith(Park(base.stories[Subject], "reason"))
        /\ UNCHANGED <<triageHistory, troubleVars>>
    BY <1>3 DEF ParkExhausted
  <2> DEFINE new == Park(base.stories[Subject], "reason")
  <2>2. /\ new \in TriageStory /\ new.status = "parked"
        /\ new.attempts = base.stories[Subject].attempts
        /\ new.tried = base.stories[Subject].tried
        /\ new.grades = base.stories[Subject].grades
    BY <2>1, SubjectIs DEF Park, TriageStory
  <2> HIDE DEF new
  <2> QED BY <1>2, <2>1, <2>2 DEF new
<1>4. CASE Defer
  <2>1. HasSubject /\ UNCHANGED <<triageHistory, troubleVars>>
    BY <1>4 DEF Defer, Asked
  <2>2. base.stories[Subject] \in TriageStory /\ base.stories[Subject].status # "absent"
    BY <2>1, SubjectIs DEF Absent
  <2> DEFINE new == [base.stories[Subject] EXCEPT !.deferrals = @ + 1]
  <2>3. EndsWith(new)
    BY <1>4, <2>2 DEF Defer, TriageStory
  <2>4. base.stories[Subject].deferrals + 1 \in Nat
    BY <2>2 DEF TriageStory
  <2>5. /\ new \in TriageStory /\ new.status = base.stories[Subject].status
        /\ new.attempts = base.stories[Subject].attempts
        /\ new.tried = base.stories[Subject].tried
        /\ new.grades = base.stories[Subject].grades
    BY <2>2, <2>4 DEF TriageStory
  <2> HIDE DEF new
  <2> QED BY <1>2, <2>1, <2>2, <2>3, <2>5
<1> QED BY <1>1, <1>3, <1>4

LEMMA LostStep ==
    ASSUME TriageInv, SweepLost
    PROVE  TriageInv'
<1>1. /\ UNCHANGED <<disk, graded, stale, wiped, unparks, questions>> /\ base' = NoSnapshot
      /\ lost' = lost + 1
      /\ ruled' = ruled \/ ruled' = [ruled EXCEPT ![Subject] = @ + 1]
  BY DEF SweepLost
<1>2. /\ ruled \in [Stories -> Nat] /\ lost \in Nat /\ questions \in Nat
      /\ disk \in TriageManifest
  BY DEF TriageInv, TriageTyped
<1>3. /\ ruled' \in [Stories -> Nat]
      /\ \A x \in Stories : ruled'[x] = ruled[x] \/ ruled'[x] = ruled[x] + 1
  BY <1>1, <1>2
<1>4. \A x \in Stories : ruled'[x] - lost' <= ruled[x] - lost
  BY <1>1, <1>2, <1>3
<1>5. Agree(disk, disk')
  BY <1>1 DEF Agree, Absent
<1> QED BY <1>1, <1>2, <1>3, <1>4, <1>5, QuietStep

LEMMA StartStep ==
    ASSUME TriageInv, StartSweep
    PROVE  TriageInv'
<1>1. UNCHANGED <<disk, graded, ruled, stale, wiped, unparks, lost, questions>> /\ base' = disk
  BY DEF StartSweep, triageHistory, troubleVars
<1>2. /\ ruled \in [Stories -> Nat] /\ lost \in Nat /\ questions \in Nat
      /\ disk \in TriageManifest
  BY DEF TriageInv, TriageTyped
<1>3. Agree(disk, disk')
  BY <1>1 DEF Agree, Absent
<1>4. \A x \in Stories : ruled'[x] - lost' <= ruled[x] - lost
  BY <1>1, <1>2
<1> QED BY <1>1, <1>2, <1>3, <1>4, QuietStep

\* A ruling records its attempt, on the snapshot.
LEMMA RecordedIs ==
    ASSUME NEW story \in TriageStory, NEW action \in Actions
    PROVE  LET new == Recorded(story, action) IN
           /\ new \in TriageStory
           /\ new.status = story.status /\ new.attempts = story.attempts + 1
           /\ new.tried = story.tried \cup {action} /\ new.grades = story.grades
<1>1. story.attempts + 1 \in Nat /\ story.tried \cup {action} \in SUBSET Actions
  BY DEF TriageStory
<1> QED BY <1>1 DEF TriageStory, Recorded

\* A ruling that changes no story but its own: the story stays, its attempts are
\* kept or start afresh.
Alone(n, s, m) ==
    /\ m.created = n.created
    /\ m \in TriageManifest
    /\ m.stories[s].status # "absent"
    /\ m.stories[s].attempts \in {n.stories[s].attempts, 0}
    /\ m.stories[s].tried = n.stories[s].tried
    /\ m.stories[s].grades = n.stories[s].grades
    /\ \A x \in Stories : x # s => m.stories[x] = n.stories[x]

\* The same, where it also creates the stories of a set.
Creates(n, s, m, new) ==
    /\ m.created \in {n.created + 1, n.created + 2}
    /\ m \in TriageManifest
    /\ m.stories[s].status # "absent"
    /\ m.stories[s].attempts = n.stories[s].attempts
    /\ m.stories[s].tried = n.stories[s].tried
    /\ m.stories[s].grades = n.stories[s].grades
    /\ s \notin new
    /\ \A x \in Stories : x # s => m.stories[x] = IF x \in new THEN NewStory("todo") ELSE n.stories[x]

LEMMA AloneIs ==
    ASSUME NEW n \in TriageManifest, NEW s \in Stories, NEW story \in TriageStory,
           story.status # "absent",
           story.attempts \in {n.stories[s].attempts, 0},
           story.tried = n.stories[s].tried, story.grades = n.stories[s].grades
    PROVE  Alone(n, s, [n EXCEPT !.stories[s] = story])
<1> DEFINE m == [n EXCEPT !.stories[s] = story]
<1>1. /\ m \in TriageManifest /\ m.created = n.created /\ m.stories[s] = story
      /\ \A x \in Stories : x # s => m.stories[x] = n.stories[x]
  BY OneChanged
<1> HIDE DEF m
<1>2. Alone(n, s, m)
  BY <1>1 DEF Alone
<1> QED BY <1>2 DEF m

LEMMA CreatesIs ==
    ASSUME NEW n \in TriageManifest, NEW s \in Stories, NEW new, s \notin new,
           NEW k \in {1, 2}
    PROVE  LET m == [created |-> n.created + k,
                     stories |-> [x \in Stories |->
                        IF x \in new THEN NewStory("todo")
                        ELSE IF x = s THEN Park(n.stories[s], "reason") ELSE n.stories[x]]] IN
           Creates(n, s, m, new)
<1> DEFINE f == [x \in Stories |->
                    IF x \in new THEN NewStory("todo")
                    ELSE IF x = s THEN Park(n.stories[s], "reason") ELSE n.stories[x]]
           m == [created |-> n.created + k, stories |-> f]
           parked == Park(n.stories[s], "reason")
<1>1. n.created \in Nat /\ n.created + k \in Nat /\ n.created + k \in {n.created + 1, n.created + 2}
  BY DEF TriageManifest
<1>2. n.stories[s] \in TriageStory
  BY StoryOf
<1>3. /\ parked \in TriageStory /\ parked.status = "parked"
      /\ parked.attempts = n.stories[s].attempts /\ parked.tried = n.stories[s].tried
      /\ parked.grades = n.stories[s].grades
  BY <1>2 DEF Park, TriageStory
<1>4. NewStory("todo") \in TriageStory
  BY DEF NewStory, TriageStory, Actions
<1>5. \A x \in Stories : n.stories[x] \in TriageStory
  BY StoryOf
<1>6. f[s] = parked /\ \A x \in Stories : x # s => f[x] = IF x \in new THEN NewStory("todo") ELSE n.stories[x]
  OBVIOUS
<1> HIDE DEF parked
<1>7. f \in [Stories -> TriageStory]
  BY <1>3, <1>4, <1>5 DEF parked
<1> HIDE DEF f
<1>8. m \in TriageManifest /\ m.created = n.created + k /\ m.stories = f
  BY <1>1, <1>7 DEF TriageManifest
<1> HIDE DEF m
<1>9. Creates(n, s, m, new)
  BY <1>1, <1>3, <1>6, <1>8 DEF Creates
<1> QED BY <1>9 DEF m, f

\* execute_ruling, on a story that is there.
LEMMA ExecutedIs ==
    ASSUME NEW n \in TriageManifest, NEW s \in Stories, ~Absent(n, s), NEW action \in Actions,
           NEW m \in Executed(n, s, action)
    PROVE  \/ Alone(n, s, m)
           \/ action = "split_story" /\ m = Splits(n, s) /\ Creates(n, s, m, Children[s])
           \/ /\ Creates(n, s, m, IssueOf[s]) /\ m.created = n.created + 1
              /\ \A x \in IssueOf[s] : Absent(n, x)
<1> DEFINE story == n.stories[s]
           with(new) == [n EXCEPT !.stories[s] = new]
<1>1. story \in TriageStory /\ story.status # "absent"
  BY StoryOf DEF Absent
<1>2. ASSUME NEW new \in TriageStory, new.status # "absent",
             new.attempts \in {story.attempts, 0}, new.tried = story.tried,
             new.grades = story.grades, m = with(new)
      PROVE  Alone(n, s, m)
  BY <1>2, AloneIs
<1> DEFINE Fine(new) == /\ new \in TriageStory /\ new.status # "absent"
                        /\ new.attempts \in {story.attempts, 0} /\ new.tried = story.tried
                        /\ new.grades = story.grades
<1>3. /\ Fine(Park(story, "reason")) /\ Fine(ParkedForHuman(story))
      /\ Fine([story EXCEPT !.status = "done"]) /\ Fine([story EXCEPT !.status = "todo"])
  <2> HIDE DEF story
  <2> QED BY <1>1 DEF Park, ParkedForHuman, TriageStory
<1>4. Fine(Patched(story)) /\ Fine([story EXCEPT !.status = "todo", !.why = "none"])
  <2> HIDE DEF story
  <2> QED BY <1>1 DEF Patched, TriageStory
<1>5. s \notin Children[s]
  BY TriageAssumption DEF Stories
<1>6. CASE \E new \in {Park(story, "reason"), ParkedForHuman(story), [story EXCEPT !.status = "done"],
                       [story EXCEPT !.status = "todo"], Patched(story),
                       [story EXCEPT !.status = "todo", !.why = "none"]} : m = with(new)
  BY <1>2, <1>3, <1>4, <1>6
<1>7. CASE action = "split_story" /\ m = Splits(n, s)
  <2>1. Creates(n, s, m, Children[s])
    BY <1>5, <1>7, CreatesIs DEF Splits
  <2> QED BY <1>7, <2>1
<1>8. CASE m = FilesIssue(n, s)
  <2>1. CASE \E x \in IssueOf[s] : n.stories[x].status # "absent"
    <3>1. m = with(Park(story, "reason"))
      BY <1>8, <2>1 DEF FilesIssue
    <3> QED BY <1>6, <3>1
  <2>2. CASE \A x \in IssueOf[s] : n.stories[x].status = "absent"
    <3>1. s \notin IssueOf[s]
      BY <2>2 DEF Absent
    <3>2. m = [created |-> n.created + 1,
               stories |-> [x \in Stories |->
                    IF x \in IssueOf[s] THEN NewStory("todo")
                    ELSE IF x = s THEN Park(n.stories[s], "reason") ELSE n.stories[x]]]
      BY <1>8, <2>2 DEF FilesIssue
    <3>3. Creates(n, s, m, IssueOf[s])
      BY <3>1, <3>2, CreatesIs
    <3> QED BY <2>2, <3>2, <3>3 DEF Absent
  <2> QED BY <2>1, <2>2
<1> QED
  <2>1. CASE action = "park_for_human"
    BY <1>6, <2>1 DEF Executed
  <2>2. CASE action = "mark_done"
    BY <1>6, <2>2 DEF Executed
  <2>3. CASE action = "split_story"
    BY <1>6, <1>7, <2>3 DEF Executed
  <2>4. CASE action = "repo_issue"
    BY <1>8, <2>4 DEF Executed
  <2>5. CASE action = "patch_acceptance"
    BY <1>6, <2>5 DEF Executed
  <2>6. CASE action = "amend_scope"
    BY <1>6, <2>6 DEF Executed
  <2>7. CASE action = "escalate_model"
    BY <1>6, <2>7 DEF Executed
  <2> QED BY <2>1, <2>2, <2>3, <2>4, <2>5, <2>6, <2>7 DEF Actions

LEMMA MergedWithItself ==
    ASSUME TriageInv, base # NoSnapshot, NEW m \in TriageManifest
    PROVE  Merged(m, m) = m
<1>1. base \in TriageManifest
  BY DEF TriageInv, TriageTyped
<1>2. ASSUME NEW s \in Stories
      PROVE  Merged(m, m).stories[s] = m.stories[s]
  <2>1. m.stories[s] = [f \in DOMAIN m.stories[s] |-> m.stories[s][f]]
    BY StoryOf DEF TriageStory
  <2> QED BY <2>1 DEF Merged
<1>3. Merged(m, m).created = m.created
  BY DEF Merged
<1>4. m = [created |-> m.created, stories |-> [s \in Stories |-> m.stories[s]]]
  BY DEF TriageManifest
<1>5. Merged(m, m) = [created |-> Merged(m, m).created,
                      stories |-> [s \in Stories |-> Merged(m, m).stories[s]]]
  BY DEF Merged
<1> QED BY <1>2, <1>3, <1>4, <1>5

\* What a ruling makes of the snapshot.
RulingOf(action) == [Snapshot EXCEPT !.stories[Subject] = Recorded(@, action)]
SplitAway(m, action) ==
    IF m = Splits(RulingOf(action), Subject)
    THEN {x \in Children[Subject] : RulingOf(action).stories[x].status # "absent"} ELSE {}

LEMMA RulingOfIs ==
    ASSUME TriageInv, HasSubject, NEW action \in Actions
    PROVE  LET n == RulingOf(action) IN
           /\ n \in TriageManifest /\ n.created = base.created
           /\ n.stories[Subject].attempts = base.stories[Subject].attempts + 1
           /\ n.stories[Subject].tried = base.stories[Subject].tried \cup {action}
           /\ \A s \in Stories :
                /\ Absent(n, s) <=> Absent(base, s)
                /\ Absent(n, s) => n.stories[s] = base.stories[s]
                /\ n.stories[s].grades = base.stories[s].grades
                /\ s # Subject => /\ n.stories[s].attempts = base.stories[s].attempts
                                 /\ n.stories[s].tried = base.stories[s].tried
<1> DEFINE n == RulingOf(action)
           new == Recorded(base.stories[Subject], action)
<1>1. /\ Subject \in Stories /\ ~Absent(base, Subject) /\ base # NoSnapshot
      /\ Snapshot \in TriageManifest /\ Snapshot.stories[Subject] = base.stories[Subject]
      /\ base.stories[Subject] \in TriageStory
  BY SubjectIs, SnapshotIs
<1>2. /\ new \in TriageStory /\ new.status = base.stories[Subject].status
      /\ new.attempts = base.stories[Subject].attempts + 1
      /\ new.tried = base.stories[Subject].tried \cup {action}
      /\ new.grades = base.stories[Subject].grades
  BY <1>1, RecordedIs
<1>3. n = [Snapshot EXCEPT !.stories[Subject] = new]
  BY <1>1 DEF RulingOf, TriageManifest
<1> HIDE DEF new, n
<1>4. /\ n \in TriageManifest /\ n.created = Snapshot.created /\ n.stories[Subject] = new
      /\ \A x \in Stories : x # Subject => n.stories[x] = Snapshot.stories[x]
  BY <1>1, <1>2, <1>3, OneChanged
<1>5. \A s \in Stories :
        /\ Absent(n, s) <=> Absent(base, s)
        /\ Absent(n, s) => n.stories[s] = base.stories[s]
        /\ n.stories[s].grades = base.stories[s].grades
        /\ s # Subject => /\ n.stories[s].attempts = base.stories[s].attempts
                         /\ n.stories[s].tried = base.stories[s].tried
  BY <1>1, <1>2, <1>4, SnapshotIs DEF Absent
<1>6. n.created = base.created
  BY <1>1, <1>4, SnapshotIs
<1> QED BY <1>2, <1>4, <1>5, <1>6 DEF n

\* A story after a ruling is as it was noted, or a new one.
LEMMA RulingIs ==
    ASSUME TriageInv, Asked, NEW action \in Actions,
           NEW m \in Executed(RulingOf(action), Subject, action)
    PROVE  LET n == RulingOf(action)
               replaced == SplitAway(m, action) IN
           /\ m \in TriageManifest
           /\ m.created <= MaxCreated + 1
           /\ ~Absent(m, Subject)
           /\ m.stories[Subject].attempts \in {base.stories[Subject].attempts + 1, 0}
           /\ m.stories[Subject].tried = base.stories[Subject].tried \cup {action}
           /\ m.stories[Subject].grades = base.stories[Subject].grades
           /\ Subject \notin replaced
           /\ replaced # {} => action = "split_story"
           /\ replaced \subseteq Children[Subject]
           /\ \A x \in replaced : ~Absent(n, x)
           /\ \A x \in Stories : x # Subject =>
                \/ m.stories[x] = n.stories[x] /\ x \notin replaced
                \/ /\ m.stories[x] = NewStory("todo")
                   /\ x \in replaced \/ Absent(n, x)
           /\ \A s \in Stories : \A x \in Children[s] :
                ~Absent(m, x) /\ Absent(n, x) => s = Subject /\ action = "split_story"
<1> DEFINE n == RulingOf(action)
           replaced == SplitAway(m, action)
<1>1. /\ HasSubject /\ Subject \in Stories /\ ~Absent(base, Subject) /\ base.created < MaxCreated
      /\ base.created \in Nat /\ MaxCreated \in Nat
  <2>1. HasSubject /\ ~(base.created >= MaxCreated)
    BY DEF Asked, Exhausted
  <2>2. Subject \in Stories /\ ~Absent(base, Subject) /\ base \in TriageManifest
    BY <2>1, SubjectIs
  <2>3. base.created \in Nat /\ MaxCreated \in Nat
    BY <2>2, TriageAssumption DEF TriageManifest
  <2> QED BY <2>1, <2>2, <2>3
<1>2. /\ n \in TriageManifest /\ n.created = base.created /\ ~Absent(n, Subject)
      /\ n.stories[Subject].attempts = base.stories[Subject].attempts + 1
      /\ n.stories[Subject].tried = base.stories[Subject].tried \cup {action}
      /\ n.stories[Subject].grades = base.stories[Subject].grades
  BY <1>1, RulingOfIs
<1>3. \/ Alone(n, Subject, m)
      \/ /\ action = "split_story" /\ m = Splits(n, Subject)
         /\ Creates(n, Subject, m, Children[Subject])
      \/ /\ Creates(n, Subject, m, IssueOf[Subject]) /\ m.created = n.created + 1
         /\ \A x \in IssueOf[Subject] : Absent(n, x)
  <2> HIDE DEF n
  <2>1. m \in Executed(n, Subject, action)
    BY DEF n
  <2> QED BY <1>1, <1>2, <2>1, ExecutedIs
<1>4. replaced = IF m = Splits(n, Subject) THEN {x \in Children[Subject] : ~Absent(n, x)} ELSE {}
  BY DEF SplitAway, Absent
<1>5. Splits(n, Subject).created = n.created + 2
  BY DEF Splits
<1>6. /\ Subject \notin Children[Subject]
      /\ \A s, t \in Stories :
            Children[s] \cap IssueOf[t] = {} /\ (s # t => Children[s] \cap Children[t] = {})
      /\ \A s \in Stories : Children[s] \subseteq Stories
  BY <1>1, TriageAssumption DEF Stories
<1>7. NewStory("todo").status = "todo"
  BY DEF NewStory
<1> HIDE DEF n, replaced
<1>8. CASE Alone(n, Subject, m)
  <2>1. replaced = {}
    BY <1>1, <1>2, <1>4, <1>5, <1>8 DEF Alone
  <2>2. m.created <= MaxCreated + 1
    BY <1>1, <1>2, <1>8 DEF Alone
  <2>3. /\ m \in TriageManifest /\ m.stories[Subject].status # "absent"
        /\ m.stories[Subject].attempts \in {base.stories[Subject].attempts + 1, 0}
        /\ m.stories[Subject].tried = base.stories[Subject].tried \cup {action}
        /\ m.stories[Subject].grades = base.stories[Subject].grades
        /\ \A x \in Stories : x # Subject => m.stories[x] = n.stories[x]
    BY <1>2, <1>8 DEF Alone
  <2> QED BY <1>2, <1>6, <2>1, <2>2, <2>3 DEF Absent, n, replaced
<1>9. CASE /\ action = "split_story" /\ m = Splits(n, Subject)
           /\ Creates(n, Subject, m, Children[Subject])
  <2>1. replaced = {x \in Children[Subject] : ~Absent(n, x)}
    BY <1>4, <1>9
  <2>2. m.created <= MaxCreated + 1
    BY <1>1, <1>2, <1>9 DEF Creates
  <2> QED BY <1>1, <1>2, <1>6, <1>7, <1>9, <2>1, <2>2 DEF Creates, Absent, n, replaced
<1>10. CASE /\ Creates(n, Subject, m, IssueOf[Subject]) /\ m.created = n.created + 1
            /\ \A x \in IssueOf[Subject] : Absent(n, x)
  <2>1. replaced = {}
    BY <1>1, <1>2, <1>4, <1>5, <1>10
  <2>2. m.created <= MaxCreated + 1
    BY <1>1, <1>2, <1>10 DEF Creates
  <2> QED BY <1>1, <1>2, <1>6, <1>7, <1>10, <2>1, <2>2 DEF Creates, Absent, n, replaced
<1> QED BY <1>3, <1>8, <1>9, <1>10

LEMMA RuleStep ==
    ASSUME TriageInv, Rule
    PROVE  TriageInv'
<1>1. /\ Asked /\ HasSubject /\ base # NoSnapshot /\ base \in TriageManifest /\ base' = NoSnapshot
      /\ UNCHANGED <<graded, unparks, lost, questions>>
      /\ Subject \in Stories /\ ~Absent(base, Subject)
      /\ base.stories[Subject].attempts < MaxAttempts
  <2>1. Asked /\ HasSubject
    BY DEF Rule, Asked
  <2>2. Allowed(base, Subject)
    BY <2>1, SubjectIs
  <2> QED BY <2>1, <2>2, SubjectIs DEF Rule, troubleVars, Allowed
<1>2. PICK named \in Rulings[Subject] \cup {"park_for_human"} :
        LET action == IF named \in base.stories[Subject].tried THEN "park_for_human" ELSE named
            noted == RulingOf(action) IN
        \E m \in Executed(noted, Subject, action) :
            LET whole == WritesWhole(action, m)
                replaced == SplitAway(m, action) IN
            /\ disk' = Merged(IF whole THEN m ELSE disk, m)
            /\ stale' = IF whole
                        THEN stale \cup {s \in Stories :
                                            disk.stories[s].grades # m.stories[s].grades}
                        ELSE stale
            /\ wiped' = wiped \cup replaced
            /\ ruled' = [s \in Stories |->
                            CASE s = Subject ->
                                   IF m.stories[s].attempts = 0 THEN 0 ELSE ruled[s] + 1
                              [] s \in replaced -> 0
                              [] OTHER -> ruled[s]]
  BY DEF Rule, RulingOf, SplitAway
<1> DEFINE action == IF named \in base.stories[Subject].tried THEN "park_for_human" ELSE named
           n == RulingOf(action)
<1>3. PICK m \in Executed(n, Subject, action) :
            /\ disk' = Merged(IF WritesWhole(action, m) THEN m ELSE disk, m)
            /\ stale' = IF WritesWhole(action, m)
                        THEN stale \cup {s \in Stories :
                                            disk.stories[s].grades # m.stories[s].grades}
                        ELSE stale
            /\ wiped' = wiped \cup SplitAway(m, action)
            /\ ruled' = [s \in Stories |->
                            CASE s = Subject ->
                                   IF m.stories[s].attempts = 0 THEN 0 ELSE ruled[s] + 1
                              [] s \in SplitAway(m, action) -> 0
                              [] OTHER -> ruled[s]]
  BY <1>2
<1> DEFINE replaced == SplitAway(m, action)
<1>4. /\ action \in Actions
      /\ action = "split_story" => "split_story" \notin base.stories[Subject].tried
  <2>1. Rulings[Subject] \subseteq Actions
    BY <1>1, TriageAssumption DEF Stories, Actions
  <2> QED BY <2>1 DEF Actions
<1> HIDE DEF action
<1>5. /\ m \in TriageManifest
      /\ m.created <= MaxCreated + 1
      /\ ~Absent(m, Subject)
      /\ m.stories[Subject].attempts \in {base.stories[Subject].attempts + 1, 0}
      /\ m.stories[Subject].tried = base.stories[Subject].tried \cup {action}
      /\ m.stories[Subject].grades = base.stories[Subject].grades
      /\ Subject \notin replaced
      /\ replaced # {} => action = "split_story"
      /\ replaced \subseteq Children[Subject]
      /\ \A x \in replaced : ~Absent(n, x)
      /\ \A x \in Stories : x # Subject =>
            \/ m.stories[x] = n.stories[x] /\ x \notin replaced
            \/ /\ m.stories[x] = NewStory("todo")
               /\ x \in replaced \/ Absent(n, x)
      /\ \A s \in Stories : \A x \in Children[s] :
            ~Absent(m, x) /\ Absent(n, x) => s = Subject /\ action = "split_story"
  BY <1>1, <1>4, RulingIs
<1>6. \A s \in Stories :
        /\ Absent(n, s) <=> Absent(base, s)
        /\ Absent(n, s) => n.stories[s] = base.stories[s]
        /\ n.stories[s].grades = base.stories[s].grades
        /\ s # Subject => /\ n.stories[s].attempts = base.stories[s].attempts
                         /\ n.stories[s].tried = base.stories[s].tried
  BY <1>1, <1>4, RulingOfIs
<1> HIDE DEF n, replaced
<1>7. \A s \in Stories : Absent(m, s) => Absent(base, s) /\ m.stories[s] = base.stories[s]
  BY <1>5, <1>6 DEF Absent, NewStory
<1>8. /\ disk \in TriageManifest /\ Agree(disk, base)
      /\ \A s \in Stories :
            /\ base.stories[s].attempts = disk.stories[s].attempts
            /\ base.stories[s].tried = disk.stories[s].tried
            /\ Absent(base, s) <=> Absent(disk, s)
            /\ Absent(base, s) => base.stories[s] = disk.stories[s]
  BY <1>1 DEF TriageInv, TriageTyped, Agree, Absent
\* The manifest the ruling leaves, however it is written.
<1>9. /\ disk' \in TriageManifest /\ disk'.created = m.created
      /\ \A s \in Stories :
            /\ disk'.stories[s].attempts = m.stories[s].attempts
            /\ disk'.stories[s].tried = m.stories[s].tried
            /\ Absent(disk', s) <=> Absent(m, s)
            /\ Absent(disk', s) => disk'.stories[s] = disk.stories[s]
            /\ \/ /\ disk'.stories[s].grades = m.stories[s].grades
                  /\ s \notin stale' => m.stories[s].grades = disk.stories[s].grades
               \/ disk'.stories[s].grades =
                    IF (Absent(base, s) /\ ~Absent(m, s)) \/ m.stories[s].grades # base.stories[s].grades
                    THEN m.stories[s].grades ELSE disk.stories[s].grades
  <2>1. CASE WritesWhole(action, m)
    <3>1. disk' = m
      BY <1>1, <1>3, <1>5, <2>1, MergedWithItself
    <3>2. \A s \in Stories : s \notin stale' => m.stories[s].grades = disk.stories[s].grades
      BY <1>3, <2>1
    <3> QED BY <1>5, <1>7, <1>8, <3>1, <3>2
  <2>2. CASE ~WritesWhole(action, m)
    <3>1. disk' = Merged(disk, m)
      BY <1>3, <2>2
    <3> QED BY <1>1, <1>5, <1>7, <3>1, MergedIs
  <2> QED BY <2>1, <2>2
<1>10. /\ NewStory("todo").attempts = 0 /\ NewStory("todo").tried = {} /\ NewStory("todo").grades = 0
       /\ NewStory("absent").attempts = 0 /\ NewStory("absent").tried = {}
       /\ NewStory("absent").grades = 0
  BY DEF NewStory
<1>11. /\ graded \in [Stories -> Nat] /\ ruled \in [Stories -> Nat] /\ lost \in Nat
       /\ unparks \in Nat /\ questions \in Nat /\ stale \subseteq Stories /\ wiped \subseteq Stories
       /\ replaced \subseteq Stories
  <2>1. Children[Subject] \subseteq Stories
    BY <1>1, TriageAssumption DEF Stories
  <2> QED BY <1>5, <2>1 DEF TriageInv, TriageTyped
<1>12. /\ ruled' \in [Stories -> Nat]
       /\ ruled'[Subject] = IF m.stories[Subject].attempts = 0 THEN 0 ELSE ruled[Subject] + 1
       /\ \A s \in Stories : s # Subject => ruled'[s] = IF s \in replaced THEN 0 ELSE ruled[s]
  <2>1. \A s \in Stories : ruled[s] \in Nat
    BY <1>11
  <2>2. ruled' = [s \in Stories |->
                    IF s = Subject THEN IF m.stories[s].attempts = 0 THEN 0 ELSE ruled[s] + 1
                    ELSE IF s \in replaced THEN 0 ELSE ruled[s]]
    <3> DEFINE new(s) == CASE s = Subject ->
                                   IF m.stories[s].attempts = 0 THEN 0 ELSE ruled[s] + 1
                           [] s \in replaced -> 0
                           [] OTHER -> ruled[s]
    <3>1. ruled' = [s \in Stories |-> new(s)]
      BY <1>3 DEF replaced
    <3>2. ASSUME NEW s \in Stories
          PROVE  new(s) = IF s = Subject
                          THEN IF m.stories[s].attempts = 0 THEN 0 ELSE ruled[s] + 1
                          ELSE IF s \in replaced THEN 0 ELSE ruled[s]
      BY <1>5
    <3> HIDE DEF new
    <3> QED BY <3>1, <3>2
  <2> QED BY <1>1, <2>1, <2>2
<1>13. /\ wiped' = wiped \cup replaced /\ stale \subseteq stale' /\ stale' \subseteq Stories
  BY <1>3, <1>11 DEF replaced
<1>14. TriageTyped'
  BY <1>1, <1>9, <1>11, <1>12, <1>13 DEF TriageTyped
<1>15. Counted'
  <2> SUFFICES ASSUME NEW s \in Stories
               PROVE  /\ disk'.stories[s].attempts <= MaxAttempts
                      /\ ruled'[s] <= disk'.stories[s].attempts + lost'
    BY DEF Counted
  <2>1. /\ disk'.stories[s].attempts = m.stories[s].attempts
        /\ disk.stories[s].attempts = base.stories[s].attempts
        /\ disk.stories[s].attempts \in Nat /\ ruled[s] \in Nat /\ lost \in Nat /\ MaxAttempts \in Nat
        /\ disk.stories[s].attempts <= MaxAttempts
        /\ ruled[s] <= disk.stories[s].attempts + lost
        /\ lost' = lost
    BY <1>1, <1>8, <1>9, <1>11, StoryOf, TriageAssumption DEF TriageInv, Counted
  <2>2. CASE s = Subject
    <3>1. m.stories[s].attempts \in {disk.stories[s].attempts + 1, 0}
          /\ disk.stories[s].attempts < MaxAttempts
      BY <1>1, <1>5, <2>1, <2>2
    <3>2. ruled'[s] = IF m.stories[s].attempts = 0 THEN 0 ELSE ruled[s] + 1
      BY <1>12, <2>2
    <3> QED BY <2>1, <3>1, <3>2
  <2>3. CASE s # Subject
    <3>1. ruled'[s] = IF s \in replaced THEN 0 ELSE ruled[s]
      BY <1>12, <2>3
    <3>2. CASE m.stories[s] = n.stories[s] /\ s \notin replaced
      BY <1>6, <2>1, <2>3, <3>1, <3>2
    <3>3. CASE m.stories[s] = NewStory("todo") /\ s \in replaced
      BY <1>10, <2>1, <3>1, <3>3
    <3>4. CASE m.stories[s] = NewStory("todo") /\ Absent(n, s)
      <4>1. disk.stories[s] = NewStory("absent")
        BY <1>6, <1>8, <3>4 DEF TriageInv, GradesKept
      <4> QED BY <1>10, <2>1, <3>1, <3>4, <4>1
    <3> QED BY <1>5, <2>3, <3>2, <3>3, <3>4
  <2> QED BY <2>2, <2>3
<1>16. GradesKept'
  <2>1. ASSUME NEW s \in Stories, s \notin stale', s \notin wiped'
        PROVE  disk'.stories[s].grades = graded[s]
    <3>1. disk.stories[s].grades = graded[s] /\ s \notin replaced
      BY <1>13, <2>1 DEF TriageInv, GradesKept
    <3>2. CASE Absent(base, s)
      <4>1. graded[s] = 0 /\ disk.stories[s].grades = 0 /\ s # Subject /\ base.stories[s] = disk.stories[s]
        BY <1>1, <1>8, <1>10, <3>2 DEF TriageInv, GradesKept
      <4>2. m.stories[s].grades = 0
        BY <1>5, <1>6, <1>10, <3>2, <4>1
      <4> QED BY <1>9, <4>1, <4>2
    <3>3. CASE ~Absent(base, s)
      <4>1. m.stories[s].grades = base.stories[s].grades
        BY <1>5, <1>6, <3>1, <3>3
      <4> QED BY <1>9, <2>1, <3>1, <3>3, <4>1
    <3> QED BY <3>2, <3>3
  <2>2. ASSUME NEW s \in Stories, Absent(disk', s)
        PROVE  graded[s] = 0 /\ disk'.stories[s] = NewStory("absent")
    <3>1. Absent(disk, s) /\ disk'.stories[s] = disk.stories[s]
      BY <1>7, <1>8, <1>9, <2>2
    <3> QED BY <3>1 DEF TriageInv, GradesKept
  <2>3. graded' = graded
    BY <1>1
  <2> QED BY <2>1, <2>2, <2>3 DEF GradesKept, Absent, NewStory
<1>17. SplitOnce'
  <2>1. ASSUME unparks = 0 PROVE replaced = {}
    <3> SUFFICES ASSUME NEW x \in replaced PROVE FALSE
      OBVIOUS
    <3>1. ~Absent(disk, x) /\ x \in Children[Subject]
      BY <1>5, <1>6, <1>8, <1>11
    <3>2. "split_story" \in disk.stories[Subject].tried
      BY <1>1, <2>1, <3>1 DEF TriageInv, SplitOnce
    <3> QED BY <1>1, <1>4, <1>5, <1>8, <3>2
  <2>2. wiped' # {} => unparks' > 0
    BY <1>1, <1>11, <1>13, <2>1 DEF TriageInv, SplitOnce
  <2>3. ASSUME unparks = 0, NEW s \in Stories, NEW x \in Children[s], ~Absent(disk', x)
        PROVE  "split_story" \in disk'.stories[s].tried
    <3>1. x \in Stories
      BY TriageAssumption DEF Stories
    <3>2. CASE Absent(n, x)
      <4>1. s = Subject /\ action = "split_story"
        BY <1>5, <1>9, <2>3, <3>1, <3>2
      <4> QED BY <1>1, <1>5, <1>9, <4>1
    <3>3. CASE ~Absent(n, x)
      <4>1. "split_story" \in disk.stories[s].tried
        BY <1>6, <1>8, <2>3, <3>1, <3>3 DEF TriageInv, SplitOnce
      <4>2. ~Absent(n, s)
        BY <1>6, <1>8, <1>10, <4>1 DEF TriageInv, GradesKept
      <4>3. disk.stories[s].tried \subseteq m.stories[s].tried
        BY <1>5, <1>6, <1>8, <2>1, <2>3, <4>2
      <4> QED BY <1>9, <4>1, <4>3
    <3> QED BY <3>2, <3>3
  <2>4. unparks' = unparks
    BY <1>1
  <2> QED BY <2>2, <2>3, <2>4 DEF SplitOnce, Absent
<1> QED BY <1>1, <1>5, <1>9, <1>14, <1>15, <1>16, <1>17 DEF TriageInv

LEMMA TriageInvStep ==
    ASSUME TriageInv, [TriageNext]_triageVars
    PROVE  TriageInv'
<1>1. CASE UNCHANGED triageVars
  BY <1>1 DEF TriageInv, triageVars, triageHistory, troubleVars, TriageTyped, Counted, GradesKept,
              SplitOnce, Agree, Absent, NewStory
<1>2. CASE \E s \in Stories : Grade(s) \/ ParkForQuestion(s) \/ Unpark(s)
  BY <1>2, GradeStep, QuestionStep, UnparkStep
<1>3. CASE SweepStep \/ SweepLost
  BY <1>3, StartStep, NoRulingStep, RuleStep, LostStep DEF SweepStep
<1> QED BY <1>1, <1>2, <1>3 DEF TriageNext

LEMMA TriageInvInit ==
    ASSUME TriageInit
    PROVE  TriageInv
<1>1. \A s \in Stories : Children[s] \subseteq Created /\ Children[s] \subseteq Stories
  BY TriageAssumption DEF Created, Stories
<1>2. disk \in TriageManifest /\ disk.created = 0
  BY DEF TriageInit, TriageManifest, TriageStory, NewStory, Actions
<1>3. \A s \in Stories : disk.stories[s] = NewStory(IF s \in Created THEN "absent" ELSE "todo")
  BY DEF TriageInit
<1>4. \A s \in Stories :
        /\ disk.stories[s].attempts = 0 /\ disk.stories[s].grades = 0
        /\ Absent(disk, s) => disk.stories[s] = NewStory("absent")
        /\ s \in Created => Absent(disk, s)
  <2>1. ASSUME NEW s \in Stories
        PROVE  \/ s \in Created /\ disk.stories[s] = NewStory("absent")
               \/ s \notin Created /\ disk.stories[s] = NewStory("todo")
    BY <1>3
  <2> QED BY <2>1 DEF NewStory, Absent
<1>5. MaxAttempts \in Nat /\ MaxCreated \in Nat
  BY TriageAssumption
<1>6. /\ base = NoSnapshot /\ stale = {} /\ wiped = {} /\ unparks = 0 /\ lost = 0 /\ questions = 0
      /\ graded = [s \in Stories |-> 0] /\ ruled = [s \in Stories |-> 0]
  BY DEF TriageInit
<1>7. TriageTyped
  BY <1>2, <1>6 DEF TriageTyped
<1>8. Counted /\ disk.created <= MaxCreated + 1
  BY <1>2, <1>4, <1>5, <1>6 DEF Counted
<1>9. GradesKept
  BY <1>4, <1>6 DEF GradesKept
<1>10. SplitOnce
  BY <1>1, <1>4, <1>6 DEF SplitOnce
<1> QED BY <1>6, <1>7, <1>8, <1>9, <1>10 DEF TriageInv

LEMMA TriageFollows ==
    ASSUME TriageInv
    PROVE  TriageKeepsItsLimits
<1>1. \A s \in Stories : ruled[s] <= MaxAttempts + lost
  <2> SUFFICES ASSUME NEW s \in Stories PROVE ruled[s] <= MaxAttempts + lost
    OBVIOUS
  <2>1. /\ ruled[s] \in Nat /\ lost \in Nat /\ MaxAttempts \in Nat
        /\ disk.stories[s].attempts \in Nat
    BY StoryOf, TriageAssumption DEF TriageInv, TriageTyped
  <2>2. disk.stories[s].attempts <= MaxAttempts /\ ruled[s] <= disk.stories[s].attempts + lost
    BY DEF TriageInv, Counted
  <2> QED BY <2>1, <2>2
<1> QED BY <1>1 DEF TriageInv, GradesKept, SplitOnce, TriageKeepsItsLimits
-----------------------------------------------------------------------------
\* The types: a story stays within its budgets.

\* The actions a sweep may have tried, and a story within its limits.
Tries == {a \in Actions : a = "park_for_human" \/ \E s \in Stories : a \in Rulings[s]}

BudgetStory ==
    [status : {"absent", "todo", "failed", "parked", "done"}, why : {"none", "reason", "cap"},
     attempts : 0 .. MaxAttempts, tried : SUBSET Tries, deferrals : 0 .. MaxDeferrals, grades : Nat]

Budgeted(m) == \A s \in Stories : m.stories[s] \in BudgetStory

TriageBounded ==
    /\ TriageInv
    /\ Budgeted(disk) /\ (base # NoSnapshot => Budgeted(base))
    /\ infra \subseteq Stories
    /\ \A s \in Stories : graded[s] <= MaxGrades[s]
    /\ unparks + lost + questions <= MaxTroubles

LEMMA BudgetFacts ==
    /\ BudgetStory \subseteq TriageStory
    /\ NewStory("todo") \in BudgetStory /\ NewStory("absent") \in BudgetStory
    /\ MaxAttempts \in Nat /\ MaxDeferrals \in Nat /\ MaxTroubles \in Nat
    /\ \A s \in Stories : MaxGrades[s] \in Nat
<1>1. /\ MaxAttempts \in Nat /\ MaxDeferrals \in Nat /\ MaxTroubles \in Nat
      /\ \A s \in Stories : MaxGrades[s] \in Nat /\ Rulings[s] \subseteq Actions
  BY TriageAssumption DEF Stories, Actions
<1>2. Tries \subseteq Actions
  BY DEF Tries
<1>3. BudgetStory \subseteq TriageStory
  BY <1>1, <1>2 DEF BudgetStory, TriageStory
<1>4. NewStory("todo") \in BudgetStory /\ NewStory("absent") \in BudgetStory
  BY <1>1 DEF NewStory, BudgetStory
<1> QED BY <1>1, <1>3, <1>4

LEMMA OneBudgeted ==
    ASSUME NEW n \in TriageManifest, Budgeted(n), NEW s \in Stories, NEW new \in BudgetStory
    PROVE  Budgeted([n EXCEPT !.stories[s] = new])
<1> DEFINE m == [n EXCEPT !.stories[s] = new]
<1>1. m.stories[s] = new /\ \A x \in Stories : x # s => m.stories[x] = n.stories[x]
  <2>1. new \in TriageStory
    BY BudgetFacts
  <2> QED BY <2>1, OneChanged
<1> HIDE DEF m
<1>2. Budgeted(m)
  BY <1>1 DEF Budgeted
<1> QED BY <1>2 DEF m

\* _merge_sweep_changes takes each field from the one manifest or the other.
LEMMA MergedBudget ==
    ASSUME NEW d, Budgeted(d), NEW m, Budgeted(m)
    PROVE  Budgeted(Merged(d, m))
<1>1. ASSUME NEW a \in BudgetStory, NEW c \in BudgetStory, NEW b
      PROVE  [f \in DOMAIN a |-> IF c[f] # b[f] THEN c[f] ELSE a[f]] \in BudgetStory
  <2>1. DOMAIN a = {"status", "why", "attempts", "tried", "deferrals", "grades"}
    BY DEF BudgetStory
  <2> QED BY <2>1 DEF BudgetStory
<1>2. ASSUME NEW s \in Stories PROVE Merged(d, m).stories[s] \in BudgetStory
  <2>1. d.stories[s] \in BudgetStory /\ m.stories[s] \in BudgetStory
    BY DEF Budgeted
  <2>2. \/ Merged(d, m).stories[s] = d.stories[s]
        \/ Merged(d, m).stories[s] = m.stories[s]
        \/ Merged(d, m).stories[s] =
            [f \in DOMAIN d.stories[s] |->
                IF m.stories[s][f] # base.stories[s][f] THEN m.stories[s][f] ELSE d.stories[s][f]]
    BY DEF Merged
  <2> QED BY <1>1, <2>1, <2>2
<1> QED BY <1>2 DEF Budgeted

LEMMA SnapshotBudgeted ==
    ASSUME TriageInv, base # NoSnapshot, Budgeted(base)
    PROVE  Budgeted(Snapshot)
<1> SUFFICES ASSUME NEW s \in Stories PROVE Snapshot.stories[s] \in BudgetStory
  BY DEF Budgeted
<1>1. base.stories[s] \in BudgetStory /\ base \in TriageManifest
  BY DEF Budgeted, TriageInv, TriageTyped
<1>2. Snapshot.stories[s] = base.stories[s] \/ Snapshot.stories[s] = Park(base.stories[s], "cap")
  BY <1>1 DEF Snapshot, CapsParked, TriageManifest
<1> QED BY <1>1, <1>2 DEF Park, BudgetStory

\* execute_ruling, on a manifest within the limits.
LEMMA ExecutedBudgeted ==
    ASSUME NEW n \in TriageManifest, Budgeted(n), NEW s \in Stories, NEW action \in Actions,
           NEW m \in Executed(n, s, action)
    PROVE  Budgeted(m)
<1> DEFINE story == n.stories[s]
           with(new) == [n EXCEPT !.stories[s] = new]
           created(new, k) ==
              [created |-> n.created + k,
               stories |-> [x \in Stories |->
                    IF x \in new THEN NewStory("todo")
                    ELSE IF x = s THEN Park(n.stories[s], "reason") ELSE n.stories[x]]]
<1>1. story \in BudgetStory
  BY DEF Budgeted
<1>2. /\ Park(story, "reason") \in BudgetStory /\ ParkedForHuman(story) \in BudgetStory
      /\ [story EXCEPT !.status = "done"] \in BudgetStory
      /\ [story EXCEPT !.status = "todo"] \in BudgetStory
  <2> HIDE DEF story
  <2> QED BY <1>1 DEF Park, ParkedForHuman, BudgetStory
<1>3. /\ Patched(story) \in BudgetStory
      /\ [story EXCEPT !.status = "todo", !.why = "none"] \in BudgetStory
  <2> HIDE DEF story
  <2>1. 0 \in 0 .. MaxAttempts
    BY BudgetFacts
  <2> QED BY <1>1, <2>1 DEF Patched, BudgetStory
<1>4. CASE \E new \in BudgetStory : m = with(new)
  BY <1>4, OneBudgeted
<1>5. ASSUME NEW new, NEW k, m = created(new, k) PROVE Budgeted(m)
  <2>1. \A x \in Stories : m.stories[x] \in {NewStory("todo"), Park(story, "reason"), n.stories[x]}
    BY <1>5
  <2> QED BY <1>2, <2>1, BudgetFacts DEF Budgeted
<1>6. CASE m = Splits(n, s)
  BY <1>5, <1>6 DEF Splits
<1>7. CASE m = FilesIssue(n, s)
  <2>1. m = with(Park(story, "reason")) \/ m = created(IssueOf[s], 1)
    BY <1>7 DEF FilesIssue
  <2>2. CASE m = with(Park(story, "reason"))
    BY <1>2, <1>4, <2>2
  <2>3. CASE m = created(IssueOf[s], 1)
    BY <1>5, <2>3
  <2> QED BY <2>1, <2>2, <2>3
<1> QED
  <2>1. CASE action \in {"park_for_human", "mark_done"}
    BY <1>2, <1>4, <2>1 DEF Executed
  <2>2. CASE action = "split_story"
    BY <1>2, <1>4, <1>6, <2>2 DEF Executed
  <2>3. CASE action = "repo_issue"
    BY <1>7, <2>3 DEF Executed
  <2>4. CASE action = "patch_acceptance"
    BY <1>2, <1>3, <1>4, <2>4 DEF Executed
  <2>5. CASE action = "amend_scope"
    BY <1>2, <1>3, <1>4, <2>5 DEF Executed
  <2>6. CASE action = "escalate_model"
    BY <1>2, <1>4, <2>6 DEF Executed
  <2> QED BY <2>1, <2>2, <2>3, <2>4, <2>5, <2>6 DEF Actions

\* The end of a sweep keeps the manifest within the limits.
LEMMA EndsBudgeted ==
    ASSUME TriageBounded, TriageNext, base # NoSnapshot, ~SweepLost, base' = NoSnapshot
    PROVE  Budgeted(disk')
<1>1. TriageInv /\ Budgeted(disk) /\ Budgeted(base) /\ Budgeted(Snapshot) /\ Snapshot \in TriageManifest
  BY SnapshotBudgeted, SnapshotIs DEF TriageBounded
<1>2. ASSUME NEW m, Budgeted(m), Ends(m) PROVE Budgeted(disk')
  BY <1>1, <1>2, MergedBudget DEF Ends
<1>3. CASE NothingToRule \/ SkipInfra
  BY <1>1, <1>2, <1>3 DEF NothingToRule, SkipInfra
<1>4. ASSUME HasSubject
      PROVE  /\ Subject \in Stories /\ base.stories[Subject] \in BudgetStory
             /\ base.stories[Subject].attempts < MaxAttempts
  BY <1>1, <1>4, SubjectIs DEF Budgeted, Allowed
<1>5. ASSUME HasSubject, NEW new \in BudgetStory, EndsWith(new) PROVE Budgeted(disk')
  BY <1>1, <1>2, <1>4, <1>5, OneBudgeted DEF EndsWith
<1>6. CASE ParkExhausted
  <2>1. HasSubject /\ EndsWith(Park(base.stories[Subject], "reason"))
    BY <1>6 DEF ParkExhausted
  <2>2. Park(base.stories[Subject], "reason") \in BudgetStory
    BY <1>4, <2>1 DEF Park, BudgetStory
  <2> QED BY <1>5, <2>1, <2>2
<1>7. CASE Defer
  <2>1. /\ HasSubject /\ base.stories[Subject].deferrals < MaxDeferrals
        /\ EndsWith([base.stories[Subject] EXCEPT !.deferrals = @ + 1])
    BY <1>7 DEF Defer, Asked
  <2>2. PICK a \in BudgetStory : a = base.stories[Subject]
    BY <1>4, <2>1
  <2>3. a.deferrals + 1 \in 0 .. MaxDeferrals
    BY <2>1, <2>2, BudgetFacts DEF BudgetStory
  <2>4. [a EXCEPT !.deferrals = a.deferrals + 1] \in BudgetStory
    BY <2>3 DEF BudgetStory
  <2>5. EndsWith([a EXCEPT !.deferrals = a.deferrals + 1])
    BY <2>1, <2>2 DEF BudgetStory
  <2> QED BY <1>5, <2>1, <2>4, <2>5
<1>8. CASE Rule
  <2>1. HasSubject
    BY <1>8 DEF Rule, Asked
  <2>2. PICK named \in Rulings[Subject] \cup {"park_for_human"} :
          LET action == IF named \in base.stories[Subject].tried THEN "park_for_human" ELSE named IN
          \E m \in Executed(RulingOf(action), Subject, action) :
              disk' = Merged(IF WritesWhole(action, m) THEN m ELSE disk, m)
    BY <1>8 DEF Rule, RulingOf
  <2>3. PICK action \in {named, "park_for_human"} :
          \E m \in Executed(RulingOf(action), Subject, action) :
              disk' = Merged(IF WritesWhole(action, m) THEN m ELSE disk, m)
    BY <2>2
  <2>4. PICK m \in Executed(RulingOf(action), Subject, action) :
              disk' = Merged(IF WritesWhole(action, m) THEN m ELSE disk, m)
    BY <2>3
  <2>5. action \in Tries /\ action \in Actions
    <3>1. Rulings[Subject] \subseteq Actions
      BY <1>4, <2>1, TriageAssumption DEF Stories, Actions
    <3>2. Rulings[Subject] \subseteq Tries /\ "park_for_human" \in Tries /\ "park_for_human" \in Actions
      BY <1>4, <2>1, <3>1 DEF Tries, Actions
    <3> QED BY <2>2, <2>3, <3>1, <3>2
  <2>6. RulingOf(action) \in TriageManifest
    BY <1>1, <2>1, <2>5, RulingOfIs
  <2>7. Budgeted(RulingOf(action))
    <3>1. PICK a \in BudgetStory : a = base.stories[Subject]
      BY <1>4, <2>1
    <3>2. a.attempts + 1 \in 0 .. MaxAttempts /\ a.tried \cup {action} \in SUBSET Tries
      BY <1>4, <2>1, <2>5, <3>1, BudgetFacts DEF BudgetStory
    <3>3. Recorded(a, action) \in BudgetStory
      BY <3>2 DEF Recorded, BudgetStory
    <3>4. RulingOf(action) = [Snapshot EXCEPT !.stories[Subject] = Recorded(a, action)]
      BY <1>1, <1>4, <2>1, <3>1, SubjectIs DEF RulingOf, TriageManifest
    <3> QED BY <1>1, <1>4, <2>1, <3>3, <3>4, OneBudgeted
  <2>8. Budgeted(m)
    BY <1>4, <2>1, <2>4, <2>5, <2>6, <2>7, ExecutedBudgeted
  <2> QED BY <1>1, <2>4, <2>8, MergedBudget
<1> QED BY <1>3, <1>6, <1>7, <1>8
        DEF TriageNext, SweepStep, StartSweep, Grade, ParkForQuestion, Unpark

LEMMA TriageBoundedStep ==
    ASSUME TriageBounded, [TriageNext]_triageVars
    PROVE  TriageBounded'
<1>1. TriageInv'
  BY TriageInvStep DEF TriageBounded
<1>t. /\ disk \in TriageManifest /\ graded \in [Stories -> Nat]
      /\ unparks \in Nat /\ lost \in Nat /\ questions \in Nat /\ infra \subseteq Stories
      /\ Budgeted(disk) /\ (base # NoSnapshot => Budgeted(base))
      /\ unparks + lost + questions <= MaxTroubles
      /\ \A s \in Stories : graded[s] <= MaxGrades[s]
  BY DEF TriageBounded, TriageInv, TriageTyped
<1>2. infra' \subseteq Stories
  BY <1>t DEF TriageNext, SweepStep, triageVars, Grade, ParkForQuestion, Unpark, StartSweep,
              NothingToRule, ParkExhausted, SkipInfra, Defer, Rule, SweepLost
<1>3. \A s \in Stories : graded'[s] <= MaxGrades[s]
  <2>1. CASE graded' = graded
    BY <1>t, <2>1
  <2>2. ASSUME NEW s \in Stories, Grade(s) PROVE \A x \in Stories : graded'[x] <= MaxGrades[x]
    <3>1. graded' = [graded EXCEPT ![s] = graded[s] + 1] /\ graded[s] < MaxGrades[s]
      BY <2>2 DEF Grade
    <3>2. graded[s] + 1 <= MaxGrades[s]
      BY <1>t, <3>1, BudgetFacts
    <3> QED BY <1>t, <3>1, <3>2
  <2> QED BY <2>1, <2>2
          DEF TriageNext, SweepStep, triageVars, triageHistory, ParkForQuestion, Unpark, StartSweep,
              NothingToRule, ParkExhausted, SkipInfra, Defer, Rule, SweepLost
<1>4. unparks' + lost' + questions' <= MaxTroubles
  <2>1. \/ UNCHANGED <<unparks, lost, questions>>
        \/ /\ Troubled
           /\ \/ unparks' = unparks + 1 /\ UNCHANGED <<lost, questions>>
              \/ lost' = lost + 1 /\ UNCHANGED <<unparks, questions>>
              \/ questions' = questions + 1 /\ UNCHANGED <<unparks, lost>>
    BY DEF TriageNext, SweepStep, triageVars, troubleVars, Grade, ParkForQuestion, Unpark, StartSweep,
           NothingToRule, ParkExhausted, SkipInfra, Defer, Rule, SweepLost
  <2> QED BY <1>t, <2>1, BudgetFacts DEF Troubled
\* The manifests.
<1>5. ASSUME NEW s \in Stories, NEW new \in BudgetStory, disk' = [disk EXCEPT !.stories[s] = new]
      PROVE  Budgeted(disk')
  BY <1>t, <1>5, OneBudgeted
<1>6. ASSUME NEW s \in Stories, Grade(s) \/ ParkForQuestion(s) \/ Unpark(s)
      PROVE  Budgeted(disk') /\ base' = base
  <2>1. PICK a \in BudgetStory : a = disk.stories[s]
    BY <1>t DEF Budgeted
  <2>2. CASE Grade(s)
    <3>1. PICK r \in {"failed", "done"} :
              disk' = [disk EXCEPT !.stories[s] = [a EXCEPT !.status = r, !.grades = a.grades + 1]]
      <4>1. PICK r \in {"failed", "done"} :
                disk' = [disk EXCEPT !.stories[s].status = r, !.stories[s].grades = @ + 1]
        BY <2>2 DEF Grade
      <4> QED BY <1>t, <2>1, <4>1 DEF TriageManifest, TriageStory
    <3>2. a.grades + 1 \in Nat
      BY <2>1 DEF BudgetStory
    <3>3. [a EXCEPT !.status = r, !.grades = a.grades + 1] \in BudgetStory
      BY <3>2 DEF BudgetStory
    <3> QED BY <1>5, <2>2, <3>1, <3>3 DEF Grade
  <2>3. CASE ParkForQuestion(s)
    <3>1. disk' = [disk EXCEPT !.stories[s] = [a EXCEPT !.status = "parked", !.why = "reason"]]
      BY <1>t, <2>1, <2>3 DEF ParkForQuestion, TriageManifest, TriageStory
    <3>2. [a EXCEPT !.status = "parked", !.why = "reason"] \in BudgetStory
      BY DEF BudgetStory
    <3> QED BY <1>5, <2>3, <3>1, <3>2 DEF ParkForQuestion
  <2>4. CASE Unpark(s)
    <3>1. PICK cleared :
              disk' = [disk EXCEPT !.stories[s] =
                          [f \in DOMAIN a |->
                              IF f \in cleared \cup {"status"} THEN NewStory("todo")[f] ELSE a[f]]]
      <4>1. PICK cleared :
                disk' = [disk EXCEPT !.stories[s] =
                            [f \in DOMAIN @ |->
                                IF f \in cleared \cup {"status"} THEN NewStory("todo")[f] ELSE @[f]]]
        BY <2>4 DEF Unpark
      <4> QED BY <1>t, <2>1, <4>1 DEF TriageManifest
    <3>2. NewStory("todo") \in BudgetStory
      BY BudgetFacts
    <3>3. DOMAIN a = {"status", "why", "attempts", "tried", "deferrals", "grades"}
      BY DEF BudgetStory
    <3>4. [f \in DOMAIN a |-> IF f \in cleared \cup {"status"} THEN NewStory("todo")[f] ELSE a[f]]
            \in BudgetStory
      BY <3>2, <3>3 DEF BudgetStory
    <3> QED BY <1>5, <2>4, <3>1, <3>4 DEF Unpark
  <2> QED BY <1>6, <2>2, <2>3, <2>4
<1>7. Budgeted(disk') /\ (base' # NoSnapshot => Budgeted(base'))
  <2>1. CASE UNCHANGED triageVars \/ StartSweep \/ SweepLost
    BY <1>t, <2>1 DEF triageVars, StartSweep, SweepLost
  <2>2. CASE \E s \in Stories : Grade(s) \/ ParkForQuestion(s) \/ Unpark(s)
    BY <1>t, <1>6, <2>2
  <2>3. CASE SweepStep /\ ~StartSweep /\ ~SweepLost
    <3>1. base # NoSnapshot /\ base' = NoSnapshot
      BY <2>3 DEF SweepStep, NothingToRule, ParkExhausted, SkipInfra, Defer, Rule, Asked, HasSubject,
                  EndsWith, Ends
    <3>2. TriageNext
      BY <2>3 DEF TriageNext
    <3> QED BY <2>3, <3>1, <3>2, EndsBudgeted
  <2> QED BY <2>1, <2>2, <2>3 DEF TriageNext
<1> QED BY <1>1, <1>2, <1>3, <1>4, <1>7 DEF TriageBounded, Budgeted

LEMMA TriageBoundedInit ==
    ASSUME TriageInit
    PROVE  TriageBounded
<1>1. \A s \in Stories : disk.stories[s] \in {NewStory("absent"), NewStory("todo")}
  BY DEF TriageInit
<1>2. Budgeted(disk)
  BY <1>1, BudgetFacts DEF Budgeted
<1>3. \A s \in Stories : graded[s] = 0
  BY DEF TriageInit
<1>4. base = NoSnapshot /\ infra = {} /\ unparks = 0 /\ lost = 0 /\ questions = 0
  BY DEF TriageInit
<1> QED BY <1>2, <1>3, <1>4, TriageInvInit, BudgetFacts DEF TriageBounded

LEMMA TriageTypes ==
    ASSUME TriageBounded
    PROVE  TriageTypeOK
<1>1. disk.created \in Nat /\ (base # NoSnapshot => base.created \in Nat)
  BY DEF TriageBounded, TriageInv, TriageTyped, TriageManifest
<1>2. \A s \in Stories : graded[s] \in 0 .. MaxGrades[s] /\ ruled[s] \in Nat
  BY BudgetFacts DEF TriageBounded, TriageInv, TriageTyped
<1>3. unparks + lost + questions \in 0 .. MaxTroubles
  BY BudgetFacts DEF TriageBounded, TriageInv, TriageTyped
<1>4. infra \cup stale \cup wiped \subseteq Stories
  BY DEF TriageBounded, TriageInv, TriageTyped
<1> DEFINE Ruled == UNION {Rulings[s] : s \in Stories}
<1>5. ASSUME NEW t \in Tries, t # "park_for_human" PROVE t \in Ruled
  <2>1. PICK s \in Stories : t \in Rulings[s]
    BY <1>5 DEF Tries
  <2>2. Rulings[s] \in {Rulings[x] : x \in Stories}
    OBVIOUS
  <2> QED BY <2>1, <2>2
<1> HIDE DEF Ruled
<1>6. Tries \subseteq {"park_for_human"} \cup Ruled
  BY <1>5
<1> DEFINE Listed ==
              [status : {"absent", "todo", "failed", "parked", "done"}, why : {"none", "reason", "cap"},
               attempts : 0 .. MaxAttempts, tried : SUBSET ({"park_for_human"} \cup Ruled),
               deferrals : 0 .. MaxDeferrals, grades : Nat]
<1>7. BudgetStory \subseteq Listed
  BY <1>6 DEF BudgetStory
<1> HIDE DEF Listed
<1>8. /\ \A s \in Stories : disk.stories[s] \in Listed
      /\ base # NoSnapshot => \A s \in Stories : base.stories[s] \in Listed
  BY <1>7 DEF TriageBounded, Budgeted
<1>9. disk.created \in Nat /\ \A s \in Stories : disk.stories[s] \in Listed
  BY <1>1, <1>8
<1>10. base = NoSnapshot \/ (base.created \in Nat /\ \A s \in Stories : base.stories[s] \in Listed)
  BY <1>1, <1>8
<1> QED BY <1>2, <1>3, <1>4, <1>9, <1>10 DEF TriageTypeOK, Listed, Ruled
=============================================================================
