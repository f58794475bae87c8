------------------------- MODULE NotificationOutbox --------------------------
(***************************************************************************)
(* One outbox file of pipeline/notification_outbox.py: the bus sink of any *)
(* process appends records to it, rotating it when it has grown too large; *)
(* the drain worker of the scheduler reads it, sends each record and       *)
(* replaces the file by what it has to keep.  There is no lock.  Files are *)
(* sequences of records; a rename leaves an open descriptor on the file    *)
(* that was renamed or replaced, which no drain reads again.               *)
(***************************************************************************)
EXTENDS Naturals, Sequences, SequencesExt, FiniteSets

CONSTANTS
    Records,
    Spoolers,       \* processes whose bus has the outbox sink
    Workers,        \* threads that may be the scheduler's drain worker
    None,
    MaxRecords,     \* NOTIFICATIONS_MAX_BYTES, in records
    MaxFailures     \* bound: crashes of the scheduler and failed rewrites

ASSUME OutboxAssumption ==
    /\ None \notin Records /\ Spoolers \cap Workers = {}
    /\ MaxRecords \in Nat \ {0} /\ MaxFailures \in Nat

VARIABLES
    file, exists,   \* the active file
    spooled,        \* records the sink was called with
    pc,             \* of spoolers and workers
    rec,            \* a spooler's record
    fd,             \* a spooler's descriptor: "none", "active", "stale"
    todo,           \* what a worker has still to send of its snapshot
    snapshot,       \* the length of that snapshot
    kept,           \* retained_lines
    appended,       \* appended_since_snapshot
    sent,           \* how often the sender accepted a record
    expired, rotated,
    failures,
    moved,          \* history: the file was rotated under the drain
    exposed         \* history: records whose append met a drain's rewrite

spoolVars == <<spooled, rec, fd, rotated>>
drainVars == <<todo, snapshot, kept, appended, sent, expired, failures>>
history == <<moved, exposed>>
vars == <<file, exists, spoolVars, pc, drainVars, history>>

Goto(a, l) == pc' = [pc EXCEPT ![a] = l]
DrainUnderWay == \E w \in Workers : pc[w] # "idle"
Rewriting == \E w \in Workers : pc[w] = "rewrite"

Init ==
    /\ file = << >> /\ exists = FALSE
    /\ spooled = {}
    /\ pc = [a \in Spoolers \cup Workers |-> "idle"]
    /\ rec = [s \in Spoolers |-> None]
    /\ fd = [s \in Spoolers |-> "none"]
    /\ todo = [w \in Workers |-> << >>]
    /\ snapshot = [w \in Workers |-> 0]
    /\ kept = [w \in Workers |-> << >>]
    /\ appended = [w \in Workers |-> << >>]
    /\ sent = [r \in Records |-> 0]
    /\ expired = {} /\ rotated = {}
    /\ failures = 0
    /\ moved = FALSE /\ exposed = {}

\* Descriptors opened before a rename keep the file they were opened on.
Unlinked == fd' = [s \in Spoolers |-> IF fd[s] = "active" THEN "stale" ELSE fd[s]]
-----------------------------------------------------------------------------
\* outbox_sink: _append_rotating.

\* The size is read here, the file renamed in the next step.
Spool(s) ==
    /\ pc[s] = "idle"
    /\ \E r \in Records \ spooled :
        /\ spooled' = spooled \cup {r}
        /\ rec' = [rec EXCEPT ![s] = r]
    /\ Goto(s, IF exists /\ Len(file) > MaxRecords THEN "rotate" ELSE "open")
    /\ UNCHANGED <<file, exists, fd, rotated, drainVars, history>>

\* The generations are not drained.  The snapshot of a drain is no longer a
\* prefix of the file.
Rotate(s) ==
    /\ pc[s] = "rotate"
    /\ rotated' = rotated \cup Range(file)
    /\ file' = << >> /\ exists' = FALSE
    /\ Unlinked
    /\ Goto(s, "open")
    /\ moved' = (moved \/ DrainUnderWay)
    /\ UNCHANGED <<spooled, rec, drainVars, exposed>>

Open(s) ==
    /\ pc[s] = "open"
    /\ exists' = TRUE
    /\ fd' = [fd EXCEPT ![s] = "active"]
    /\ Goto(s, "write")
    /\ UNCHANGED <<file, spooled, rec, rotated, drainVars, history>>

Write(s) ==
    /\ pc[s] = "write"
    /\ file' = IF fd[s] = "active" THEN Append(file, rec[s]) ELSE file
    /\ exposed' = IF Rewriting \/ moved \/ fd[s] = "stale"
                    THEN exposed \cup {rec[s]} ELSE exposed
    /\ rec' = [rec EXCEPT ![s] = None]
    /\ fd' = [fd EXCEPT ![s] = "none"]
    /\ Goto(s, "idle")
    /\ UNCHANGED <<exists, spooled, rotated, drainVars, moved>>
-----------------------------------------------------------------------------
\* _drain_one_outbox in the scheduler's drain worker.

\* A new thread: which of Workers it is makes no difference.
Spare == CHOOSE w \in Workers : pc[w] = "idle"

\* Mutant of StartDrain: an abandoned worker is not waited for.
StartDrain_Overlaps(w) ==
    /\ pc[w] = "idle" /\ exists
    /\ todo' = [todo EXCEPT ![w] = file]
    /\ snapshot' = [snapshot EXCEPT ![w] = Len(file)]
    /\ Goto(w, "send")
    /\ UNCHANGED <<file, exists, spoolVars, kept, appended, sent, expired, failures, history>>

\* A tick starts a worker only when the one before, which it may have stopped
\* waiting for, has ended.
StartDrain(w) ==
    /\ ~DrainUnderWay /\ w = Spare /\ exists
    /\ todo' = [todo EXCEPT ![w] = file]
    /\ snapshot' = [snapshot EXCEPT ![w] = Len(file)]
    /\ Goto(w, "send")
    /\ UNCHANGED <<file, exists, spoolVars, kept, appended, sent, expired, failures, history>>

NextLine(w) ==
    /\ pc[w] = "send" /\ todo[w] # << >>
    /\ todo' = [todo EXCEPT ![w] = Tail(@)]

Accept(w) ==
    /\ NextLine(w)
    /\ sent' = [sent EXCEPT ![Head(todo[w])] = @ + 1]
    /\ UNCHANGED <<file, exists, spoolVars, pc, snapshot, kept, appended, expired, failures, history>>

\* The sender returns False or raises.
Reject(w) ==
    /\ NextLine(w)
    /\ kept' = [kept EXCEPT ![w] = Append(@, Head(todo[w]))]
    /\ UNCHANGED <<file, exists, spoolVars, pc, snapshot, appended, sent, expired, failures, history>>

Expire(w) ==
    /\ NextLine(w)
    /\ expired' = expired \cup {Head(todo[w])}
    /\ UNCHANGED <<file, exists, spoolVars, pc, snapshot, kept, appended, sent, failures, history>>

\* Mutants of Reread: what was spooled during the sends is not merged; the
\* snapshot is merged too.
Reread_Skipped(w) ==
    /\ pc[w] = "send" /\ todo[w] = << >>
    /\ Goto(w, "rewrite")
    /\ UNCHANGED <<file, exists, spoolVars, todo, snapshot, kept, appended, sent,
                   expired, failures, history>>

Reread_TakesAll(w) ==
    /\ pc[w] = "send" /\ todo[w] = << >>
    /\ appended' = [appended EXCEPT ![w] = file]
    /\ Goto(w, "rewrite")
    /\ UNCHANGED <<file, exists, spoolVars, todo, snapshot, kept, sent, expired,
                   failures, history>>

\* A file that is gone counts as unchanged, an empty one gives an empty slice.
Reread(w) ==
    /\ pc[w] = "send" /\ todo[w] = << >>
    /\ appended' = [appended EXCEPT ![w] = SubSeq(file, snapshot[w] + 1, Len(file))]
    /\ Goto(w, "rewrite")
    /\ UNCHANGED <<file, exists, spoolVars, todo, snapshot, kept, sent, expired,
                   failures, history>>

Forget(w) ==
    /\ todo' = [todo EXCEPT ![w] = << >>]
    /\ snapshot' = [snapshot EXCEPT ![w] = 0]
    /\ kept' = [kept EXCEPT ![w] = << >>]
    /\ appended' = [appended EXCEPT ![w] = << >>]
    /\ moved' = FALSE

\* Mutant of Replace: the new lines go first.
Replace_NewFirst(w) ==
    /\ pc[w] = "rewrite"
    /\ file' = appended[w] \o kept[w] /\ exists' = TRUE
    /\ Unlinked
    /\ Forget(w)
    /\ Goto(w, "idle")
    /\ UNCHANGED <<spooled, rec, rotated, sent, expired, failures, exposed>>

Replace(w) ==
    /\ pc[w] = "rewrite"
    /\ file' = kept[w] \o appended[w] /\ exists' = TRUE
    /\ Unlinked
    /\ Forget(w)
    /\ Goto(w, "idle")
    /\ UNCHANGED <<spooled, rec, rotated, sent, expired, failures, exposed>>

\* Mutant of Fail: the worker that failed counts as alive ever after.
Fail_StaysAlive(w) ==
    /\ pc[w] # "idle" /\ failures < MaxFailures /\ failures' = failures + 1
    /\ Forget(w)
    /\ Goto(w, "failed")
    /\ UNCHANGED <<file, exists, spoolVars, sent, expired, exposed>>

\* The rewrite fails, or the scheduler dies anywhere in the drain: the file is
\* as it was.
Fail(w) ==
    /\ pc[w] # "idle" /\ failures < MaxFailures /\ failures' = failures + 1
    /\ Forget(w)
    /\ Goto(w, "idle")
    /\ UNCHANGED <<file, exists, spoolVars, sent, expired, exposed>>
-----------------------------------------------------------------------------
SpoolStep(s) == Spool(s) \/ Rotate(s) \/ Open(s) \/ Write(s)

Drains(w) == Accept(w) \/ Reject(w) \/ Expire(w) \/ Reread(w) \/ Replace(w)

Next ==
    \/ \E s \in Spoolers : SpoolStep(s)
    \/ \E w \in Workers : StartDrain(w) \/ Drains(w) \/ Fail(w)

SafeSpec == Init /\ [][Next]_vars
-----------------------------------------------------------------------------
TypeOK ==
    /\ file \in Seq(Records) /\ exists \in BOOLEAN
    /\ spooled \subseteq Records
    /\ pc \in [Spoolers \cup Workers -> {"idle", "rotate", "open", "write", "send", "rewrite"}]
    /\ rec \in [Spoolers -> Records \cup {None}]
    /\ fd \in [Spoolers -> {"none", "active", "stale"}]
    /\ todo \in [Workers -> Seq(Records)]
    /\ snapshot \in [Workers -> Nat]
    /\ kept \in [Workers -> Seq(Records)]
    /\ appended \in [Workers -> Seq(Records)]
    /\ sent \in [Records -> 0..MaxFailures + 1]
    /\ expired \subseteq spooled /\ rotated \subseteq spooled
    /\ failures \in 0..MaxFailures
    /\ moved \in BOOLEAN /\ exposed \subseteq Records

\* A record that was written and is nowhere any more.
Lost ==
    {r \in spooled \ Range(rec) :
        sent[r] = 0 /\ r \notin Range(file) \cup expired \cup rotated}

\* A record is lost only when its append met the rewrite of a drain, or came
\* after a rotation that moved the file away under one: everything else spooled
\* while a drain was sending survives it, and so does what a failed drain read.
LostOnlyInRace == Lost \subseteq exposed

\* The drain neither repeats a line nor changes the order of the lines it keeps
\* and of those it merges, and sends a line again only after a failure.
NoSpuriousDuplicate ==
    /\ IsInjective(file)
    /\ \A r \in Records : sent[r] <= failures + 1

\* A step adds at the end of the file or leaves lines out: records never overtake
\* each other in the file.
KeepsOrder ==
    [][\A i, j \in 1..Len(file') :
        i < j => ~\E k, l \in 1..Len(file) :
            k > l /\ file[k] = file'[i] /\ file[l] = file'[j]]_vars

\* Every record that was written is in the end delivered or dropped by a
\* documented policy, unless its append met a drain's rewrite.
QueueDrains ==
    []<>(\A r \in spooled \ Range(rec) :
            sent[r] > 0 \/ r \in expired \cup rotated \cup exposed)

\* The comment on the re-read: never a lost notification under concurrency.
NeverLost == Lost = {}
=============================================================================
