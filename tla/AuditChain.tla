------------------------------ MODULE AuditChain ------------------------------
(***************************************************************************)
(* One audit stream (pipeline/audit.py): writers append, under an flock, a *)
(* record that names the record before it; and passes that anchor the head *)
(* of the stream in a log elsewhere (pipeline/audit_anchor.py), which two  *)
(* processes may run at once.  Nothing is synced and the count that write  *)
(* returns is not looked at, so a full disk leaves a line cut short, and   *)
(* the loss of power a stream.  A hash is the number of the record.        *)
(***************************************************************************)
EXTENDS Naturals, Sequences, SequencesExt, FiniteSetsExt

CONSTANTS
    Writers,
    Anchorers,
    NoLine,
    MaxAppends,     \* bound: records that writers try to append
    MaxFaults       \* bound: short writes and losses of power

VARIABLES
    chain,          \* the stream: lines, the last of which may lack its newline
    made,           \* records made so far
    flock,          \* the writers that hold the flock of the stream
    writerAt, from, \* a writer: where it is, the tail it has read
    anchor,         \* the strongest anchor in the log: a record, or NoLine
    anchorAt,
    known, head,    \* an anchor pass: the anchor and the head it has read
    faults,
    torn            \* history: a write was cut short

writeVars == <<made, flock, writerAt, from>>
anchorVars == <<anchor, anchorAt, known, head>>
auditVars == <<chain, writeVars, anchorVars, faults, torn>>

\* A line is the record of a seq, with the hash of the one before and its own; it
\* is whole, whole but for the newline, cut short, or two records in one.
Line == [seq : Nat, prev : Nat, hash : Nat, form : {"whole", "unended", "cut", "glued"}]

ASSUME AuditAssumption ==
    /\ NoLine \notin Line
    /\ IsFiniteSet(Writers) /\ {MaxAppends, MaxFaults} \subseteq Nat

AuditInit ==
    /\ chain = << >> /\ made = 0 /\ flock = {}
    /\ writerAt = [w \in Writers |-> "idle"]
    /\ from = [w \in Writers |-> NoLine]
    /\ anchor = NoLine
    /\ anchorAt = [a \in Anchorers |-> "idle"]
    /\ known = [a \in Anchorers |-> NoLine]
    /\ head = [a \in Anchorers |-> NoLine]
    /\ faults = 0 /\ torn = FALSE

Parses(l) == l.form \in {"whole", "unended"}

\* _tail: the last line, when it parses.
LastRecord(c) == IF c # << >> /\ Parses(Last(c)) THEN Last(c) ELSE NoLine
-----------------------------------------------------------------------------
\* _append_at.

WriterTo(w, l) == writerAt' = [writerAt EXCEPT ![w] = l]

StartAppend(w) ==
    /\ writerAt[w] = "idle" /\ made + Cardinality({v \in Writers : writerAt[v] # "idle"}) < MaxAppends
    /\ WriterTo(w, "lock")
    /\ UNCHANGED <<chain, made, flock, from, anchorVars, faults, torn>>

\* Mutant of LockStream: the lock is a shared one.
LockStream_Shared(w) ==
    /\ writerAt[w] = "lock"
    /\ flock' = flock \cup {w}
    /\ WriterTo(w, "read")
    /\ UNCHANGED <<chain, made, from, anchorVars, faults, torn>>

LockStream(w) ==
    /\ writerAt[w] = "lock" /\ flock = {}
    /\ flock' = {w}
    /\ WriterTo(w, "read")
    /\ UNCHANGED <<chain, made, from, anchorVars, faults, torn>>

ReadTail(w) ==
    /\ writerAt[w] = "read"
    /\ from' = [from EXCEPT ![w] = LastRecord(chain)]
    /\ WriterTo(w, "write")
    /\ UNCHANGED <<chain, made, flock, anchorVars, faults, torn>>

\* O_APPEND: what is written joins a line that has no newline.
Appended(line) ==
    IF chain # << >> /\ Last(chain).form \in {"unended", "cut"}
      THEN [chain EXCEPT ![Len(chain)].form = IF line.form = "whole" THEN "glued" ELSE "cut"]
      ELSE Append(chain, line)

Record(w, form) ==
    [seq |-> IF from[w] = NoLine THEN 0 ELSE from[w].seq + 1,
     prev |-> IF from[w] = NoLine THEN 0 ELSE from[w].hash,
     hash |-> made + 1, form |-> form]

Unlock(w) ==
    /\ flock' = flock \ {w}
    /\ from' = [from EXCEPT ![w] = NoLine]
    /\ WriterTo(w, "idle")
    /\ UNCHANGED anchorVars

WriteRecord(w) ==
    /\ writerAt[w] = "write"
    /\ chain' = Appended(Record(w, "whole"))
    /\ made' = made + 1
    /\ Unlock(w)
    /\ UNCHANGED <<faults, torn>>

\* The disk takes a part of it only.
WriteCutShort(w) ==
    /\ writerAt[w] = "write" /\ faults < MaxFaults /\ faults' = faults + 1
    /\ \E form \in {"unended", "cut"} : chain' = Appended(Record(w, form))
    /\ made' = made + 1 /\ torn' = TRUE
    /\ Unlock(w)

\* The write raises, or the writer dies and the kernel unlocks.
AppendFails(w) ==
    /\ writerAt[w] # "idle"
    /\ made' = made + 1
    /\ Unlock(w)
    /\ UNCHANGED <<chain, faults, torn>>
-----------------------------------------------------------------------------
\* anchor_heads, for this stream.

AnchorTo(a, l) == anchorAt' = [anchorAt EXCEPT ![a] = l]

ReadAnchors(a) ==
    /\ anchorAt[a] = "idle"
    /\ known' = [known EXCEPT ![a] = anchor]
    /\ AnchorTo(a, "head")
    /\ UNCHANGED <<chain, writeVars, anchor, head, faults, torn>>

\* Only a head beyond the anchor is anchored.
ReadHead(a) ==
    LET h == LastRecord(chain)
    IN  /\ anchorAt[a] = "head"
        /\ IF h # NoLine /\ (known[a] = NoLine \/ h.seq > known[a].seq)
             THEN head' = [head EXCEPT ![a] = h] /\ AnchorTo(a, "append")
             ELSE UNCHANGED head /\ AnchorTo(a, "idle")
        /\ known' = [known EXCEPT ![a] = NoLine]
        /\ UNCHANGED <<chain, writeVars, anchor, faults, torn>>

\* The log is only appended to; its readers take the highest seq.
AppendAnchor(a) ==
    /\ anchorAt[a] = "append"
    /\ anchor' = IF anchor = NoLine \/ head[a].seq > anchor.seq THEN head[a] ELSE anchor
    /\ head' = [head EXCEPT ![a] = NoLine]
    /\ AnchorTo(a, "idle")
    /\ UNCHANGED <<chain, writeVars, known, faults, torn>>
-----------------------------------------------------------------------------
\* Every process is gone, and an end of the stream that was not synced, which may
\* begin in the middle of a line.
PowerLoss ==
    /\ faults < MaxFaults /\ faults' = faults + 1
    /\ \E n \in 0..Len(chain) :
        \/ chain' = SubSeq(chain, 1, n) /\ UNCHANGED torn
        \/ n > 0 /\ chain' = [SubSeq(chain, 1, n) EXCEPT ![n].form = "cut"] /\ torn' = TRUE
    /\ flock' = {}
    /\ writerAt' = [w \in Writers |-> "idle"]
    /\ from' = [w \in Writers |-> NoLine]
    /\ anchorAt' = [a \in Anchorers |-> "idle"]
    /\ known' = [a \in Anchorers |-> NoLine]
    /\ head' = [a \in Anchorers |-> NoLine]
    /\ UNCHANGED <<made, anchor>>

AuditNext ==
    \/ \E w \in Writers :
        \/ StartAppend(w) \/ LockStream(w) \/ ReadTail(w)
        \/ WriteRecord(w) \/ WriteCutShort(w) \/ AppendFails(w)
    \/ \E a \in Anchorers : ReadAnchors(a) \/ ReadHead(a) \/ AppendAnchor(a)
    \/ PowerLoss
-----------------------------------------------------------------------------
\* _verify_chain_at: the first line that does not follow, 0 when all do.
FollowsUp(i) ==
    /\ Parses(chain[i])
    /\ chain[i].seq = i - 1
    /\ chain[i].prev = IF i = 1 THEN 0 ELSE chain[i - 1].hash

FirstBroken ==
    LET broken == {i \in 1..Len(chain) : ~FollowsUp(i)}
    IN  IF broken = {} THEN 0 ELSE Min(broken)

\* _verdict: the first record with the anchored seq is the anchored one.
AnchorVerdict ==
    LET at == {i \in 1..Len(chain) : Parses(chain[i]) /\ chain[i].seq = anchor.seq}
    IN  CASE anchor = NoLine -> "none"
          [] anchor # NoLine /\ at = {} -> "truncated"
          [] anchor # NoLine /\ at # {} ->
               IF chain[Min(at)].hash = anchor.hash THEN "none" ELSE "mismatch"
-----------------------------------------------------------------------------
AuditTypeOK ==
    /\ \A i \in 1..Len(chain) : chain[i] \in Line
    /\ made \in 0..MaxAppends /\ faults \in 0..MaxFaults /\ torn \in BOOLEAN
    /\ flock \subseteq Writers
    /\ writerAt \in [Writers -> {"idle", "lock", "read", "write"}]
    /\ anchorAt \in [Anchorers -> {"idle", "head", "append"}]

\* However writers and anchor passes overlap and wherever they stop, verification
\* points at the first line that a write cut short has damaged and at nothing
\* else; and an anchor accuses a stream only after such a write or a loss of
\* power.
EvidenceIsTrue ==
    LET damaged == {i \in 1..Len(chain) : ~Parses(chain[i])}
    IN  /\ FirstBroken = IF damaged = {} THEN 0 ELSE Min(damaged)
        /\ ~torn => damaged = {}
        /\ faults = 0 => AnchorVerdict = "none"
=============================================================================
