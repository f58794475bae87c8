---------------------------- MODULE DetachedGrade -----------------------------
(***************************************************************************)
(* The grade of a story whose agent is gone (pipeline/detached_grade.py,   *)
(* called by check_story_status): a wrapper process runs the tests and     *)
(* writes their result to a file named by the story's key, and a later     *)
(* poll collects it.  A tick polls under the plan lock; the tool of the    *)
(* same name takes no lock, and both write the whole manifest they read.   *)
(***************************************************************************)
EXTENDS Naturals, Sequences, FiniteSets

CONSTANTS
    Graded,         \* stories
    PlanOf, KeyOf,  \* the plan and the key of a story
    Callers,        \* the callers of check_story_status
    Tick,           \* the one that has the plan lock
    Cap,            \* max_concurrent_grades
    NoGrade,        \* no grade recorded, no result
    MaxRounds,      \* bound: dispatches of each story
    MaxWrappers,    \* bound: wrappers spawned, before the first spawn that fails
    MaxKills        \* bound: wrappers and pollers that die, wrappers that hang

ASSUME GradeAssumption ==
    /\ NoGrade \notin Nat /\ NoGrade \notin [of : Graded, round : Nat]
    /\ \A s \in Graded : MaxRounds[s] \in Nat
    /\ MaxKills \in Nat

VARIABLES
    manifest,       \* what the manifests record of a story
    work,           \* the round of work in a story's worktree
    agents,         \* stories whose agent of this round runs
    wrappers,       \* the grades started: what each measures, or NoGrade when gone
    hung,           \* running grades whose tests never end
    result,         \* the result file of each key
    pollAt,         \* what a poller is doing, with the manifests it read
    excused,        \* history: stories whose grade something went wrong with
    basis,          \* history: what the verdict that settled a story measured
    kills

gradeVars == <<manifest, work, agents, wrappers, hung, result, pollAt, excused, basis, kills>>

Idle == [at |-> "idle"]

GradeInit ==
    /\ manifest = [s \in Graded |-> [status |-> "todo", agent |-> 0, grading |-> NoGrade]]
    /\ work = [s \in Graded |-> 0]
    /\ agents = {} /\ wrappers = <<>> /\ hung = {}
    /\ result = [k \in {KeyOf[s] : s \in Graded} |-> NoGrade]
    /\ pollAt = [a \in Callers |-> Idle]
    /\ excused = {}
    /\ basis = [s \in Graded |-> NoGrade]
    /\ kills = 0

Live(i) == wrappers[i] # NoGrade
Gone(s) == ~(s \in agents /\ manifest[s].agent = work[s])
-----------------------------------------------------------------------------
\* The rest of the pipeline.

\* A story is dispatched, for the first time or again after an interrupt, a
\* retry or a request for changes; what is recorded of a grade is left alone.
SendOut(s) ==
    /\ pollAt[Tick] = Idle
    /\ manifest[s].status # "in_progress" /\ work[s] < MaxRounds[s]
    /\ work' = [work EXCEPT ![s] = @ + 1]
    /\ manifest' = [manifest EXCEPT ![s].status = "in_progress", ![s].agent = work'[s]]
    /\ agents' = agents \cup {s}
    /\ excused' = IF /\ manifest[s].grading = NoGrade
                     /\ \A a \in Callers : pollAt[a] = Idle
                     /\ \A i \in DOMAIN wrappers : Live(i) => KeyOf[wrappers[i].of] # KeyOf[s]
                  THEN excused \ {s} ELSE excused
    /\ basis' = [basis EXCEPT ![s] = NoGrade]
    /\ UNCHANGED <<hung, wrappers, result, pollAt, kills>>

AgentExits(s) ==
    /\ s \in agents /\ agents' = agents \ {s}
    /\ UNCHANGED <<hung, manifest, work, wrappers, result, pollAt, excused, basis, kills>>

\* _terminate_and_checkpoint, by an operator, the watchdog or the usage gate: a
\* grade in flight goes on and stays recorded.
StopStory(s) ==
    /\ pollAt[Tick] = Idle
    /\ manifest[s].status = "in_progress"
    /\ manifest' = [manifest EXCEPT ![s].status = "interrupted"]
    /\ agents' = agents \ {s}
    /\ excused' = IF manifest[s].grading = NoGrade THEN excused ELSE excused \cup {s}
    /\ UNCHANGED <<hung, work, wrappers, result, pollAt, basis, kills>>
-----------------------------------------------------------------------------
\* The wrapper.

\* The stories with an uncollected grade whose result that of i replaces.
Replaced(i) ==
    {x \in Graded :
        /\ KeyOf[x] = KeyOf[wrappers[i].of]
        /\ \/ manifest[x].grading \notin {NoGrade, i}
           \/ \E a \in Callers :
                  pollAt[a].at = "started" /\ pollAt[a].story = x /\ pollAt[a].grade # i}

WrapperEnds(i) ==
    LET s == wrappers[i].of IN
    /\ Live(i) /\ i \notin hung
    /\ wrappers' = [wrappers EXCEPT ![i] = NoGrade]
    /\ result' = [result EXCEPT ![KeyOf[s]] = wrappers[i]]
    /\ excused' = excused \cup Replaced(i)
    /\ UNCHANGED <<hung, manifest, work, agents, pollAt, basis, kills>>

\* It is killed before it writes, or its tests never end.
WrapperFails(i) ==
    /\ Live(i) /\ i \notin hung /\ kills < MaxKills
    /\ \/ wrappers' = [wrappers EXCEPT ![i] = NoGrade] /\ hung' = hung
       \/ wrappers' = wrappers /\ hung' = hung \cup {i}
    /\ excused' = excused \cup {wrappers[i].of}
    /\ kills' = kills + 1
    /\ UNCHANGED <<manifest, work, agents, result, pollAt, basis>>
-----------------------------------------------------------------------------
\* check_story_status of a story whose agent is gone.

\* live_grade_count: at most one story of a plan counts, and none of the own.
LiveElsewhere(s) ==
    Cardinality({PlanOf[x] : x \in {x \in Graded :
        PlanOf[x] # PlanOf[s] /\ manifest[x].grading # NoGrade /\ Live(manifest[x].grading)}})

\* The manifest m of the plan of s.
PlanOfIn(s, m) == [x \in {x \in Graded : PlanOf[x] = PlanOf[s]} |-> m[x]]

CanPoll(a, s) ==
    /\ pollAt[a] = Idle
    /\ manifest[s].status = "in_progress" /\ manifest[s].agent # 0 /\ Gone(s)

\* The manifest a read is written with s as r: whatever else was recorded in
\* that plan since the read is lost.
SavesPlan(a, s, r) ==
    LET seen == pollAt[a].seen
        lost == {x \in DOMAIN seen : manifest[x] # seen[x]} IN
    /\ manifest' = [x \in Graded |->
                       IF x = s THEN r ELSE IF x \in DOMAIN seen THEN seen[x] ELSE manifest[x]]
    /\ excused' = excused \cup lost

\* The story is not to be graded, its grade is alive, or the cap is reached.
LookOnly(a, s) ==
    /\ pollAt[a] = Idle
    /\ \/ ~CanPoll(a, s)
       \/ manifest[s].grading # NoGrade /\ Live(manifest[s].grading)
       \/ manifest[s].grading = NoGrade /\ LiveElsewhere(s) >= Cap
    /\ UNCHANGED gradeVars

StartGrade(a, s) ==
    /\ CanPoll(a, s) /\ manifest[s].grading = NoGrade
    /\ LiveElsewhere(s) < Cap /\ Len(wrappers) < MaxWrappers
    /\ wrappers' = Append(wrappers, [of |-> s, round |-> work[s]])
    /\ pollAt' = [pollAt EXCEPT ![a] =
                    [at |-> "started", story |-> s, seen |-> PlanOfIn(s, manifest),
                     grade |-> Len(wrappers')]]
    /\ UNCHANGED <<hung, manifest, work, agents, result, excused, basis, kills>>

RecordGrade(a) ==
    /\ pollAt[a].at = "started"
    /\ LET s == pollAt[a].story IN
           SavesPlan(a, s, [pollAt[a].seen[s] EXCEPT !.grading = pollAt[a].grade])
    /\ pollAt' = [pollAt EXCEPT ![a] = Idle]
    /\ UNCHANGED <<hung, work, agents, wrappers, result, basis, kills>>

\* The wrapper cannot be spawned: the tests are run here and now.
GradeInline(a, s) ==
    /\ CanPoll(a, s) /\ manifest[s].grading = NoGrade
    /\ LiveElsewhere(s) < Cap /\ Len(wrappers) = MaxWrappers
    /\ pollAt' = [pollAt EXCEPT ![a] =
                    [at |-> "graded", story |-> s, seen |-> PlanOfIn(s, manifest),
                     verdict |-> [of |-> s, round |-> work[s]]]]
    /\ UNCHANGED <<hung, manifest, work, agents, wrappers, result, excused, basis, kills>>

\* Mutant of Collected: the bookkeeping is not consumed.
Collected_Keeps(r) == r

Collected(r) == [r EXCEPT !.grading = NoGrade]

\* The wrapper is gone: its result is read, and the grade is struck from the
\* manifest.  A missing result is a red one.
Collect(a, s) ==
    /\ CanPoll(a, s) /\ manifest[s].grading # NoGrade /\ ~Live(manifest[s].grading)
    /\ manifest' = [manifest EXCEPT ![s] = Collected(@)]
    /\ pollAt' = [pollAt EXCEPT ![a] =
                    [at |-> "graded", story |-> s, seen |-> PlanOfIn(s, manifest'),
                     verdict |-> result[KeyOf[s]]]]
    /\ UNCHANGED <<hung, work, agents, wrappers, result, excused, basis, kills>>

\* The lint, the search for dead code and the rest of the poll, to its last
\* write.  A red verdict is no pass, and a green one may fail on the rest.
Settle(a) ==
    LET s == pollAt[a].story IN
    /\ pollAt[a].at = "graded"
    /\ \E status \in {"failed", "tests_passed"} :
           /\ status = "tests_passed" => pollAt[a].verdict # NoGrade
           /\ SavesPlan(a, s, [pollAt[a].seen[s] EXCEPT !.status = status])
    /\ basis' = [basis EXCEPT ![s] = IF s \in excused' THEN NoGrade ELSE pollAt[a].verdict]
    /\ pollAt' = [pollAt EXCEPT ![a] = Idle]
    /\ UNCHANGED <<hung, work, agents, wrappers, result, kills>>

PollerDies(a) ==
    /\ pollAt[a] # Idle /\ kills < MaxKills
    /\ pollAt' = [pollAt EXCEPT ![a] = Idle]
    /\ kills' = kills + 1
    /\ UNCHANGED <<hung, manifest, work, agents, wrappers, result, excused, basis>>
-----------------------------------------------------------------------------
PollStep(a) ==
    \/ RecordGrade(a) \/ Settle(a)
    \/ \E s \in Graded : StartGrade(a, s) \/ GradeInline(a, s) \/ Collect(a, s)

GradeNext ==
    \/ \E s \in Graded : SendOut(s) \/ AgentExits(s) \/ StopStory(s)
    \/ \E i \in DOMAIN wrappers : WrapperEnds(i) \/ WrapperFails(i)
    \/ \E a \in Callers : PollStep(a) \/ PollerDies(a) \/ \E s \in Graded : LookOnly(a, s)
-----------------------------------------------------------------------------
\* A story whose agent is gone and that is not graded yet.
Ungraded(s) == manifest[s].status = "in_progress" /\ Gone(s)

GradeTypeOK ==
    LET Recorded == [status : {"todo", "in_progress", "interrupted", "tests_passed", "failed"},
                     agent : Nat, grading : DOMAIN wrappers \cup {NoGrade}]
        Measured == [of : Graded, round : Nat] \cup {NoGrade} IN
    /\ manifest \in [Graded -> Recorded]
    /\ \A s \in Graded : work[s] \in 0 .. MaxRounds[s] /\ manifest[s].agent <= work[s]
    /\ agents \cup excused \subseteq Graded
    /\ wrappers \in Seq(Measured)
    /\ \A k \in DOMAIN result : result[k] \in Measured
    /\ \A a \in Callers : pollAt[a].at \in {"idle", "started", "graded"}
    /\ hung \subseteq DOMAIN wrappers
    /\ kills \in 0 .. MaxKills

(***************************************************************************)
(* A story is settled on a verdict on its own present work: not on that of *)
(* an earlier round ("a future dead-pid re-grade starts clean instead of   *)
(* re-collecting a stale result file"), nor on another story's.  The       *)
(* exceptions are what the code has no answer to: a wrapper that died over *)
(* an old result, an interrupt that left a grade recorded, a story of      *)
(* another plan with the same key, and a poll whose manifest was           *)
(* overwritten by one that takes no lock (_detached_grade_lifecycle).      *)
(***************************************************************************)
GradeIsOwn ==
    \A s \in Graded : basis[s] \in {NoGrade, [of |-> s, round |-> work[s]]}
=============================================================================
