---------------------------- MODULE EventConsumer ----------------------------
(***************************************************************************)
(* The durable consumer of one event type                                  *)
(* (pipeline/events_nats_consumer.py): a loop fetches what the broker has  *)
(* ready and takes one message after the other: the handlers run, and the  *)
(* message is acknowledged, put off or recorded as a dead letter.  The     *)
(* broker delivers a message again when its ack does not come, up to the   *)
(* limit the consumer was created with; the scheduler may stop anywhere    *)
(* and start again with another limit.                                     *)
(***************************************************************************)
EXTENDS Naturals, Sequences, SequencesExt, FiniteSets

CONSTANTS
    Events,
    BrokerLimit,    \* max_deliver of the durable consumer on the broker
    Limits,         \* values of PIPELINE_EVENT_MAX_DELIVER
    MaxRestarts     \* bound: restarts of the scheduler

\* An unusable limit becomes the default: there is no limit of none.
ASSUME ConsumerAssumption ==
    /\ BrokerLimit \in Nat \ {0} /\ Limits \subseteq Nat \ {0}
    /\ IsFiniteSet(Events) /\ MaxRestarts \in Nat

VARIABLES
    message,        \* the broker: "none", "ready", "out", "gone"
    delivered,      \* the broker: num_delivered
    loop,           \* where the fetch loop is
    batch,          \* the messages it has fetched
    handled,        \* events whose handlers have all returned
    records,        \* dead-letter records in the sidecar
    limit,          \* max_deliver() of this process
    restarts,
    lowered         \* history: a restart lowered the limit

brokerVars == <<message, delivered>>
outcomeVars == <<handled, records>>
configVars == <<limit, restarts, lowered>>
consumerVars == <<brokerVars, loop, batch, outcomeVars, configVars>>

ConsumerInit ==
    /\ message = [e \in Events |-> "none"]
    /\ delivered = [e \in Events |-> 0]
    /\ loop = "off" /\ batch = << >>
    /\ handled = {} /\ records = [e \in Events |-> 0]
    /\ limit = BrokerLimit /\ restarts = 0 /\ lowered = FALSE

Current == Head(batch)
-----------------------------------------------------------------------------
\* The broker.

Arrives(e) ==
    /\ message[e] = "none"
    /\ message' = [message EXCEPT ![e] = "ready"]
    /\ UNCHANGED <<delivered, loop, batch, outcomeVars, configVars>>

\* A message is delivered again as long as the broker's own limit allows.
Requeued(e) ==
    /\ message[e] = "out" /\ delivered[e] < BrokerLimit
    /\ message' = [message EXCEPT ![e] = "ready"]

\* The wait for the ack ends, also while the consumer still has the message.
AckWaitEnds(e) ==
    /\ Requeued(e)
    /\ UNCHANGED <<delivered, loop, batch, outcomeVars, configVars>>
-----------------------------------------------------------------------------
\* start_consumers, or its retry thread once the broker answers.
StartConsumer ==
    /\ loop = "off" /\ loop' = "fetch"
    /\ UNCHANGED <<brokerVars, batch, outcomeVars, configVars>>

Fetch ==
    LET ready == {e \in Events : message[e] = "ready"}
    IN  /\ loop = "fetch" /\ ready # {}
        /\ batch' = SetToSeq(ready)
        /\ message' = [e \in Events |-> IF e \in ready THEN "out" ELSE message[e]]
        /\ delivered' = [e \in Events |-> IF e \in ready THEN delivered[e] + 1 ELSE delivered[e]]
        /\ loop' = "handle"
        /\ UNCHANGED <<outcomeVars, configVars>>

\* Mutant of FetchFails: one bad pull ends the loop.
FetchFails_EndsLoop ==
    /\ loop = "fetch" /\ loop' = "ended"
    /\ UNCHANGED <<brokerVars, batch, outcomeVars, configVars>>

FetchFails ==
    /\ loop = "fetch" /\ loop' = "pause"
    /\ UNCHANGED <<brokerVars, batch, outcomeVars, configVars>>

EndPause ==
    /\ loop = "pause" /\ loop' = "fetch"
    /\ UNCHANGED <<brokerVars, batch, outcomeVars, configVars>>

HandlersReturn ==
    /\ loop = "handle"
    /\ handled' = handled \cup {Current}
    /\ loop' = "ack"
    /\ UNCHANGED <<brokerVars, batch, records, configVars>>

\* Mutant of HandlerRaises: the last attempt counts as one too many.
HandlerRaises_AcksLast ==
    /\ loop = "handle"
    /\ loop' = IF delivered[Current] >= limit THEN "ack" ELSE "nak"
    /\ UNCHANGED <<brokerVars, batch, outcomeVars, configVars>>

HandlerRaises ==
    /\ loop = "handle"
    /\ LET attempts == delivered[Current]
       IN  \/ attempts > limit /\ loop' = "ack"
           \/ attempts = limit /\ loop' = "dead"
           \/ attempts < limit /\ loop' = "nak"
    /\ UNCHANGED <<brokerVars, batch, outcomeVars, configVars>>

\* The copy on the dead-letter subject may fail; the record is written anyhow,
\* unless one is there.
DeadLetter ==
    /\ loop = "dead"
    /\ records' = [records EXCEPT ![Current] = IF @ = 0 THEN 1 ELSE @]
    /\ loop' = "ack"
    /\ UNCHANGED <<brokerVars, batch, handled, configVars>>

NextMessage ==
    /\ batch' = Tail(batch)
    /\ loop' = IF Len(batch) > 1 THEN "handle" ELSE "fetch"
    /\ UNCHANGED <<delivered, outcomeVars, configVars>>

\* Neither an ack nor a nak is answered: both may be lost.
Ack ==
    /\ loop = "ack"
    /\ NextMessage
    /\ message' \in {message, [message EXCEPT ![Current] = "gone"]}

Nak ==
    /\ loop = "nak"
    /\ NextMessage
    /\ Requeued(Current) \/ UNCHANGED message
-----------------------------------------------------------------------------
\* The scheduler dies, or cancels a loop that outlives the grace, and is
\* started again.
Restart ==
    /\ restarts < MaxRestarts /\ restarts' = restarts + 1
    /\ loop' = "off" /\ batch' = << >>
    /\ limit' \in Limits
    /\ lowered' = (lowered \/ limit' < limit)
    /\ UNCHANGED <<brokerVars, outcomeVars>>

LoopStep ==
    \/ StartConsumer \/ Fetch \/ FetchFails \/ EndPause \/ HandlersReturn
    \/ HandlerRaises \/ DeadLetter \/ Ack \/ Nak

ConsumerNext ==
    \/ \E e \in Events : Arrives(e) \/ AckWaitEnds(e)
    \/ LoopStep
    \/ Restart
-----------------------------------------------------------------------------
ConsumerTypeOK ==
    /\ message \in [Events -> {"none", "ready", "out", "gone"}]
    /\ delivered \in [Events -> 0..BrokerLimit]
    /\ loop \in {"off", "fetch", "pause", "handle", "dead", "ack", "nak"}
    /\ batch \in Seq(Events)
    /\ handled \subseteq Events /\ records \in [Events -> Nat]
    /\ limit \in Limits \cup {BrokerLimit} /\ restarts \in 0..MaxRestarts
    /\ lowered \in BOOLEAN

\* The consumer acknowledges nothing that was neither handled nor recorded as a
\* dead letter, unless the limit was lowered under it, and records it once,
\* whatever acks are lost and wherever the scheduler stops.
SettledOnce ==
    \A e \in Events :
        /\ records[e] <= 1
        /\ message[e] = "gone" => e \in handled \/ records[e] = 1 \/ lowered

\* An event in the stream is handled or becomes a dead letter though acks are
\* lost and pulls fail, unless a restart used up its last attempt or changed the
\* limit.
EventsSettle ==
    []<>(\A e \in Events :
            \/ message[e] = "none"
            \/ e \in handled \/ records[e] = 1
            \/ restarts > 0 /\ (delivered[e] = BrokerLimit \/ lowered))
=============================================================================
