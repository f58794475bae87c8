------------------------------ MODULE UsageGate -------------------------------
(***************************************************************************)
(* The spend gate: pollers run check_usage (pipeline/usage.py), which      *)
(* reads the last state, asks the CLI for the cost and writes the next     *)
(* state, and tell the operator when the gate has moved                    *)
(* (pipeline/usage_transitions.py).  There is no lock around either.       *)
(***************************************************************************)
EXTENDS Naturals

CONSTANTS
    Pollers,        \* the cron job, the MCP tool, the scheduler's own call
    NoState,        \* there is no usage file
    MaxUpsets       \* bound

ASSUME GateAssumption == MaxUpsets \in Nat

VARIABLES
    cost,           \* what the CLI would answer: the worse of its two windows
    usage,          \* the usage file, or NoState
    told,           \* the announced file says paused
    heard,          \* the last notice the operator got was of a pause
    crossed,        \* history: a notice went out between another's and its record
    pollerAt,
    prev,           \* the usage file as a poll has read it
    verdict,        \* the paused flag a poll announces
    upsets          \* polls that ended early and agents that hit the cap

gateVars == <<cost, usage, told, heard, crossed, pollerAt, prev, verdict, upsets>>
pollVars == <<pollerAt, prev, verdict>>

UsageState ==
    [paused : BOOLEAN, measured : {"lately", "stale"}, blind : {"no", "short", "long"}]

GateInit ==
    /\ cost = "unparseable" /\ usage = NoState
    /\ told = FALSE /\ heard = FALSE /\ crossed = FALSE
    /\ pollerAt = [p \in Pollers |-> "idle"]
    /\ prev = [p \in Pollers |-> NoState]
    /\ verdict = [p \in Pollers |-> FALSE]
    /\ upsets = 0
-----------------------------------------------------------------------------
\* The world: what was spent, and time, which makes a measurement stale and a
\* blindness long, in the file and in what a poll holds of it.

CostMoves ==
    /\ cost' \in {"below", "between", "over", "unparseable"} \ {cost}
    /\ UNCHANGED <<usage, told, heard, crossed, pollVars, upsets>>

Copies == {usage} \cup {prev[p] : p \in Pollers}
Aged(s) == IF s = NoState THEN s ELSE [s EXCEPT !.measured = "stale"]
BlindLong(s) == IF s # NoState /\ s.blind = "short" THEN [s EXCEPT !.blind = "long"] ELSE s

MeasurementAges ==
    /\ \E s \in Copies : s # Aged(s)
    /\ usage' = Aged(usage)
    /\ prev' = [p \in Pollers |-> Aged(prev[p])]
    /\ UNCHANGED <<cost, told, heard, crossed, pollerAt, verdict, upsets>>

BlindnessLasts ==
    /\ \E s \in Copies : s # BlindLong(s)
    /\ usage' = BlindLong(usage)
    /\ prev' = [p \in Pollers |-> BlindLong(prev[p])]
    /\ UNCHANGED <<cost, told, heard, crossed, pollerAt, verdict, upsets>>
-----------------------------------------------------------------------------
\* _check_usage_impl.

\* _usage_gate: over either pause threshold, or held by either resume threshold.
Gate(prevPaused) == cost = "over" \/ (prevPaused /\ cost = "between")

Measured(s) ==
    [paused |-> Gate(s # NoState /\ s.paused), measured |-> "lately", blind |-> "no"]

\* Mutant of Unparsed: the age counts from the last call, not from the last
\* measurement.
Unparsed_LooksFresh(s) == s

\* A parse failure: the state stands while it is recent; then the gate opens and,
\* blind for too long, closes.
Unparsed(s) ==
    IF s.measured = "lately" THEN s
    ELSE [s EXCEPT !.blind = IF @ = "no" THEN "short" ELSE @,
                   !.paused = (s.blind = "long")]

PollTo(p, l) == pollerAt' = [pollerAt EXCEPT ![p] = l]

StartPoll(p) ==
    /\ pollerAt[p] = "idle"
    /\ PollTo(p, "probe")
    /\ prev' = [prev EXCEPT ![p] = usage]
    /\ UNCHANGED <<cost, usage, told, heard, crossed, verdict, upsets>>

WriteState(p, s) ==
    /\ usage' = s
    /\ verdict' = [verdict EXCEPT ![p] = s.paused]
    /\ prev' = [prev EXCEPT ![p] = NoState]
    /\ PollTo(p, "announce")

\* The probe takes seconds; what was read before it decides.  With nothing to
\* fall back to a parse failure is raised.
Probe(p) ==
    /\ pollerAt[p] = "probe"
    /\ \/ cost # "unparseable" /\ WriteState(p, Measured(prev[p]))
       \/ cost = "unparseable" /\ prev[p] # NoState /\ WriteState(p, Unparsed(prev[p]))
       \/ /\ cost = "unparseable" /\ prev[p] = NoState
          /\ PollTo(p, "idle")
          /\ UNCHANGED <<usage, prev, verdict>>
    /\ UNCHANGED <<cost, told, heard, crossed, upsets>>

Upset == upsets < MaxUpsets /\ upsets' = upsets + 1

\* An agent that reports the cap is announced as a pause, with no state written.
AgentHitsCap(p) ==
    /\ pollerAt[p] = "idle" /\ Upset
    /\ PollTo(p, "announce")
    /\ verdict' = [verdict EXCEPT ![p] = TRUE]
    /\ UNCHANGED <<cost, usage, told, heard, crossed, prev>>
-----------------------------------------------------------------------------
\* announce.

Compare(p) ==
    /\ pollerAt[p] = "announce"
    /\ PollTo(p, IF told = verdict[p] THEN "idle" ELSE "notify")
    /\ verdict' = [verdict EXCEPT ![p] = verdict[p] /\ told # verdict[p]]
    /\ UNCHANGED <<cost, usage, told, heard, crossed, prev, upsets>>

Notify(p) ==
    /\ pollerAt[p] = "notify"
    /\ heard' = verdict[p]
    /\ crossed' = (crossed \/ \E q \in Pollers \ {p} : pollerAt[q] = "persist")
    /\ PollTo(p, "persist")
    /\ UNCHANGED <<cost, usage, told, prev, verdict, upsets>>

Persist(p) ==
    /\ pollerAt[p] = "persist"
    /\ told' = verdict[p]
    /\ verdict' = [verdict EXCEPT ![p] = FALSE]
    /\ PollTo(p, "idle")
    /\ UNCHANGED <<cost, usage, heard, crossed, prev, upsets>>

\* A notice or a write that fails is swallowed; a poller may also die anywhere.
PollEnds(p) ==
    /\ pollerAt[p] # "idle" /\ Upset
    /\ crossed' = (crossed \/ pollerAt[p] = "persist")
    /\ prev' = [prev EXCEPT ![p] = NoState]
    /\ verdict' = [verdict EXCEPT ![p] = FALSE]
    /\ PollTo(p, "idle")
    /\ UNCHANGED <<cost, usage, told, heard>>
-----------------------------------------------------------------------------
TimePasses == MeasurementAges \/ BlindnessLasts

Polls(p) == StartPoll(p) \/ Probe(p) \/ Compare(p) \/ Notify(p) \/ Persist(p)

GateNext ==
    \/ CostMoves \/ TimePasses
    \/ \E p \in Pollers : Polls(p) \/ AgentHitsCap(p) \/ PollEnds(p)
-----------------------------------------------------------------------------
GateTypeOK ==
    /\ cost \in {"below", "between", "over", "unparseable"}
    /\ usage \in UsageState \cup {NoState}
    /\ told \in BOOLEAN /\ heard \in BOOLEAN /\ crossed \in BOOLEAN
    /\ upsets \in 0..MaxUpsets
    /\ pollerAt \in [Pollers -> {"idle", "probe", "announce", "notify", "persist"}]
    /\ prev \in [Pollers -> UsageState \cup {NoState}]
    /\ verdict \in [Pollers -> BOOLEAN]

Settled(paused) ==
    /\ usage # NoState /\ usage.paused = paused /\ told = paused
    /\ crossed \/ heard = paused

\* Once the cost stays where it is the gate ends where it belongs, closed also
\* when the CLI can no longer be read, and the operator knows, whatever two
\* pollers did to each other's state.
UsageSettles ==
    /\ <>[](cost = "below") => <>[]Settled(FALSE)
    /\ <>[](cost = "over") => <>[]Settled(TRUE)
    /\ <>[](cost = "unparseable") => <>[](usage = NoState \/ Settled(TRUE))
=============================================================================
