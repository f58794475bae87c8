----------------------------- MODULE TriageSweep ------------------------------
(***************************************************************************)
(* The triage sweep of one plan (pipeline/triage.py): it takes a snapshot  *)
(* of the manifest, asks the overlord for minutes what to do about one     *)
(* story that failed or is parked, executes the ruling and merges what it  *)
(* changed into the manifest on disk.  The plan lock is held, but the      *)
(* tools that grade a story or park it for a question do not take it.      *)
(***************************************************************************)
EXTENDS Naturals, Sequences

CONSTANTS
    Order,              \* the keys of the stories, sorted: a sequence
    Children,           \* the keys a split of a story creates
    IssueOf,            \* the key of the repo issue filed for a story
    Rulings,            \* bound: the actions the overlord may name for a story
    NoSnapshot,         \* no sweep is in progress
    MaxAttempts,        \* TRIAGE_MAX_ATTEMPTS
    MaxCreated,         \* TRIAGE_MAX_CREATED_STORIES
    MaxDeferrals,       \* TRIAGE_MAX_TRANSIENT_DEFERRALS
    MaxGrades,          \* bound: gradings of each story
    MaxTroubles         \* bound: lost sweeps, unblockings, questions with no answer

ASSUME TriageAssumption ==
    LET stories == {Order[i] : i \in DOMAIN Order} IN
    /\ {MaxAttempts, MaxCreated, MaxDeferrals, MaxTroubles} \subseteq Nat
    /\ \A s \in stories : MaxGrades[s] \in Nat
    /\ \A s \in stories : Rulings[s] \subseteq
        {"mark_done", "split_story", "repo_issue", "patch_acceptance", "amend_scope", "escalate_model"}
    \* A created story's key is made of its parent's and of what created it.
    /\ \A s \in stories : Children[s] \cup IssueOf[s] \subseteq stories /\ s \notin Children[s]
    /\ \A s, t \in stories :
        Children[s] \cap IssueOf[t] = {} /\ (s # t => Children[s] \cap Children[t] = {})

VARIABLES
    disk,               \* the manifest file
    base,               \* the sweep's snapshot, or NoSnapshot
    infra,              \* stories whose evidence shows an infrastructure failure
    graded,             \* history: gradings of a story
    ruled,              \* history: rulings executed for a story on one budget
    stale,              \* history: stories a snapshot was written over wholesale
    wiped,              \* history: stories replaced by a new one of their key
    unparks, lost, questions

triageHistory == <<graded, ruled, stale, wiped>>
troubleVars == <<unparks, lost, questions>>
triageVars == <<disk, base, infra, triageHistory, troubleVars>>

Stories == {Order[i] : i \in DOMAIN Order}
Created == UNION {Children[s] \cup IssueOf[s] : s \in Stories}
NewStory(status) ==
    [status |-> status, why |-> "none", attempts |-> 0, tried |-> {},
     deferrals |-> 0, grades |-> 0]

TriageInit ==
    /\ disk = [created |-> 0,
               stories |-> [s \in Stories |-> NewStory(IF s \in Created THEN "absent" ELSE "todo")]]
    /\ base = NoSnapshot
    /\ infra = {}
    /\ graded = [s \in Stories |-> 0] /\ ruled = [s \in Stories |-> 0]
    /\ stale = {} /\ wiped = {}
    /\ unparks = 0 /\ lost = 0 /\ questions = 0

Troubled == unparks + lost + questions < MaxTroubles
-----------------------------------------------------------------------------
\* The rest of the system.

\* check_story_status, as a phase of the tick or, without the lock, as a tool.
Grade(s) ==
    /\ disk.stories[s].status = "todo" /\ graded[s] < MaxGrades[s]
    /\ \E result \in {"failed", "done"} :
           disk' = [disk EXCEPT !.stories[s].status = result, !.stories[s].grades = @ + 1]
    /\ \E isInfra \in BOOLEAN :
           infra' = IF isInfra THEN infra \cup {s} ELSE infra \ {s}
    /\ graded' = [graded EXCEPT ![s] = @ + 1]
    /\ UNCHANGED <<base, ruled, stale, wiped, troubleVars>>

\* request_decision, when the overlord cannot be asked: no lock is taken.
ParkForQuestion(s) ==
    /\ disk.stories[s].status = "todo" /\ Troubled
    /\ disk' = [disk EXCEPT !.stories[s].status = "parked", !.stories[s].why = "reason"]
    /\ questions' = questions + 1
    /\ UNCHANGED <<base, infra, triageHistory, unparks, lost>>

\* unpark.clear_story_fields, with some of the fields an operator may clear.
Unpark(s) ==
    /\ base = NoSnapshot /\ disk.stories[s].status = "parked" /\ Troubled
    /\ \E cleared \in {{"why", "attempts"}, {"why", "attempts", "tried"}} :
           disk' = [disk EXCEPT !.stories[s] =
                        [f \in DOMAIN @ |->
                            IF f \in cleared \cup {"status"} THEN NewStory("todo")[f] ELSE @[f]]]
    /\ ruled' = [ruled EXCEPT ![s] = 0]
    /\ unparks' = unparks + 1
    /\ UNCHANGED <<base, infra, graded, stale, wiped, lost, questions>>
-----------------------------------------------------------------------------
\* The sweep.

Candidate(m, s) == m.stories[s].status \in {"failed", "parked"}
Allowed(m, s) == m.stories[s].attempts < MaxAttempts
Actionable(m) == {s \in Stories : Candidate(m, s) /\ Allowed(m, s)}
Capped(m) == {s \in Stories : Candidate(m, s) /\ ~Allowed(m, s)}

Park(story, why) == [story EXCEPT !.status = "parked", !.why = why]

\* The capped stories are parked once, then passed over without a word.
CapsParked(m) ==
    [m EXCEPT !.stories =
        [s \in Stories |->
            IF s \in Capped(m) /\ ~(@[s].status = "parked" /\ @[s].why = "cap")
            THEN Park(@[s], "cap") ELSE @[s]]]

Exhausted(m) == m.created >= MaxCreated

\* One story a tick, by the order of the keys.
FirstActionable(m) ==
    {s \in Actionable(m) :
        \E i \in DOMAIN Order : s = Order[i] /\ \A j \in 1 .. i - 1 : Order[j] \notin Actionable(m)}

\* Mutant of Merged: the snapshot is written as it is.
Merged_Whole(d, m) == m

\* _merge_sweep_changes: only the fields the sweep changed from its snapshot
\* to m are written.
Merged(d, m) ==
    [created |-> IF m.created # base.created THEN m.created ELSE d.created,
     stories |-> [s \in Stories |->
        IF base.stories[s].status = "absent"
        THEN IF m.stories[s].status = "absent" THEN d.stories[s] ELSE m.stories[s]
        ELSE [f \in DOMAIN d.stories[s] |->
                IF m.stories[s][f] # base.stories[s][f] THEN m.stories[s][f]
                ELSE d.stories[s][f]]]]

\* run_triage_sweep reads the manifest; its evidence and rulings take minutes.
StartSweep ==
    /\ base = NoSnapshot
    /\ base' = disk
    /\ UNCHANGED <<disk, infra, triageHistory, troubleVars>>

\* The snapshot with its capped stories parked, and the story to rule on.
Snapshot == CapsParked(base)
Subject == CHOOSE s \in FirstActionable(base) : TRUE

\* The sweep has made m of its snapshot and writes what it changed.
Ends(m) == disk' = Merged(disk, m) /\ base' = NoSnapshot
EndsWith(story) == Ends([Snapshot EXCEPT !.stories[Subject] = story])

NothingToRule ==
    /\ base # NoSnapshot /\ FirstActionable(base) = {}
    /\ Ends(Snapshot)
    /\ UNCHANGED <<infra, triageHistory, troubleVars>>

HasSubject == base # NoSnapshot /\ FirstActionable(base) # {}

\* The budget of created stories is spent: parked, with no attempt recorded.
ParkExhausted ==
    /\ HasSubject /\ Exhausted(base)
    /\ EndsWith(Park(base.stories[Subject], "reason"))
    /\ UNCHANGED <<infra, triageHistory, troubleVars>>

\* An infrastructure failure is left to check_story_status: no ruling.
SkipInfra ==
    /\ HasSubject /\ ~Exhausted(base) /\ Subject \in infra
    /\ Ends(Snapshot)
    /\ UNCHANGED <<infra, triageHistory, troubleVars>>

Asked == HasSubject /\ ~Exhausted(base) /\ Subject \notin infra

\* The overlord's backend fails for a moment: no ruling, a few times.
Defer ==
    /\ Asked /\ base.stories[Subject].deferrals < MaxDeferrals
    /\ EndsWith([base.stories[Subject] EXCEPT !.deferrals = @ + 1])
    /\ UNCHANGED <<infra, triageHistory, troubleVars>>

\* record_triage_attempt.
Recorded(story, action) ==
    [story EXCEPT !.attempts = @ + 1, !.tried = @ \cup {action}]

\* A reason a human needs to see is kept.
ParkedForHuman(story) ==
    Park(story, IF story.why = "none" THEN "reason" ELSE story.why)

\* split_story and repo_issue, on a manifest where the budget is not spent.
Splits(m, s) ==
    [created |-> m.created + 2,
     stories |-> [x \in Stories |->
        IF x \in Children[s] THEN NewStory("todo")
        ELSE IF x = s THEN Park(m.stories[s], "reason") ELSE m.stories[x]]]

FilesIssue(m, s) ==
    IF \E x \in IssueOf[s] : m.stories[x].status # "absent"
    THEN [m EXCEPT !.stories[s] = Park(@, "reason")]
    ELSE [created |-> m.created + 1,
          stories |-> [x \in Stories |->
            IF x \in IssueOf[s] THEN NewStory("todo")
            ELSE IF x = s THEN Park(m.stories[s], "reason") ELSE m.stories[x]]]

\* patch_acceptance that succeeds is a fresh start.
Patched(story) == [story EXCEPT !.status = "todo", !.why = "none", !.attempts = 0]

\* execute_ruling: what becomes of the manifest.  All but a park may be refused
\* by their own checks, and a refused one parks the story.
Executed(m, s, action) ==
    LET story == m.stories[s]
        with(new) == [m EXCEPT !.stories[s] = new] IN
    CASE action = "park_for_human" -> {with(ParkedForHuman(story))}
      [] action = "mark_done" -> {with([story EXCEPT !.status = "done"]), with(Park(story, "reason"))}
      [] action = "split_story" -> {Splits(m, s), with(Park(story, "reason"))}
      [] action = "repo_issue" -> {FilesIssue(m, s)}
      [] action = "patch_acceptance" -> {with(Patched(story)), with(Park(story, "reason"))}
      [] action = "amend_scope" ->
            {with([story EXCEPT !.status = "todo", !.why = "none"]), with(Park(story, "reason"))}
      [] action = "escalate_model" ->
            {with([story EXCEPT !.status = "todo"]), with(Park(story, "reason"))}

\* escalate_model and amend_scope write their manifest at once and whole.
WritesWhole(action, m) ==
    action \in {"escalate_model", "amend_scope"} /\ m.stories[Subject].status = "todo"

\* _apply_ruling_for_mode in a mode that acts, and the end of the sweep.
Rule ==
    /\ Asked
    /\ \E named \in Rulings[Subject] \cup {"park_for_human"} :
        LET action == IF named \in base.stories[Subject].tried THEN "park_for_human" ELSE named
            noted == [Snapshot EXCEPT !.stories[Subject] = Recorded(@, action)] IN
        \E m \in Executed(noted, Subject, action) :
            LET whole == WritesWhole(action, m)
                replaced == IF m = Splits(noted, Subject)
                            THEN {x \in Children[Subject] : noted.stories[x].status # "absent"}
                            ELSE {} IN
            /\ disk' = Merged(IF whole THEN m ELSE disk, m)
            /\ stale' = IF whole
                        THEN stale \cup {s \in Stories :
                                            disk.stories[s].grades # m.stories[s].grades}
                        ELSE stale
            /\ wiped' = wiped \cup replaced
            /\ ruled' = [s \in Stories |->
                            CASE s = Subject ->
                                   IF m.stories[s].attempts = 0 THEN 0 ELSE ruled[s] + 1
                              [] s \in replaced -> 0
                              [] OTHER -> ruled[s]]
    /\ base' = NoSnapshot
    /\ UNCHANGED <<infra, graded, troubleVars>>

\* An exception anywhere in the sweep, or a crash: nothing more is written, and
\* a ruling that was carried out is not recorded.
SweepLost ==
    /\ base # NoSnapshot /\ Troubled
    /\ base' = NoSnapshot
    /\ \/ ruled' = ruled
       \/ Asked /\ ruled' = [ruled EXCEPT ![Subject] = @ + 1]
    /\ lost' = lost + 1
    /\ UNCHANGED <<disk, infra, graded, stale, wiped, unparks, questions>>
-----------------------------------------------------------------------------
SweepStep ==
    \/ StartSweep \/ NothingToRule \/ ParkExhausted \/ SkipInfra \/ Defer \/ Rule

TriageNext ==
    \/ \E s \in Stories : Grade(s) \/ ParkForQuestion(s) \/ Unpark(s)
    \/ SweepStep \/ SweepLost
-----------------------------------------------------------------------------
TriageTypeOK ==
    LET Story == [status : {"absent", "todo", "failed", "parked", "done"},
                  why : {"none", "reason", "cap"}, attempts : 0 .. MaxAttempts,
                  tried : SUBSET ({"park_for_human"} \cup UNION {Rulings[s] : s \in Stories}),
                  deferrals : 0 .. MaxDeferrals, grades : Nat]
        Manifest(m) == m.created \in Nat /\ \A s \in Stories : m.stories[s] \in Story IN
    /\ Manifest(disk)
    /\ base = NoSnapshot \/ Manifest(base)
    /\ infra \cup stale \cup wiped \subseteq Stories
    /\ \A s \in Stories : graded[s] \in 0 .. MaxGrades[s] /\ ruled[s] \in Nat
    /\ unparks + lost + questions \in 0 .. MaxTroubles

(***************************************************************************)
(* A sweep that sits on its snapshot for minutes takes nothing back that   *)
(* another writer put into the manifest meanwhile (_merge_sweep_changes);  *)
(* the two rulings that write the snapshot whole are excepted.  It rules   *)
(* on a story no oftener than the cap says, though a sweep that is lost    *)
(* forgets its attempt; it creates no more than one story above the        *)
(* ceiling; and it replaces no story it created unless an operator cleared *)
(* the list of what triage has tried (triage_allowed,                      *)
(* plan_triage_budget_exhausted, _execute_split_story).                    *)
(***************************************************************************)
TriageKeepsItsLimits ==
    /\ \A s \in Stories \ (stale \cup wiped) : disk.stories[s].grades = graded[s]
    /\ \A s \in Stories : ruled[s] <= MaxAttempts + lost
    /\ disk.created <= MaxCreated + 1
    /\ wiped # {} => unparks > 0

(***************************************************************************)
(* A story triage may rule on does not wait for ever, unless a story       *)
(* before it is skipped for its infrastructure or the budget is spent.     *)
(***************************************************************************)
Waiting(s) ==
    /\ Candidate(disk, s) /\ Allowed(disk, s) /\ ~Exhausted(disk)
    /\ \A x \in FirstActionable(disk) : x \notin infra
=============================================================================
