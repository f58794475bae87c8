------------------------ MODULE DaemonServicesProofs -------------------------
(***************************************************************************)
(* What the services of the daemon promise, proved for every number of     *)
(* passes, events, clients, writers and callers: the scan and the consumer *)
(* hand on what others wrote once, a saved manifest is served, the audit   *)
(* chain accuses no one falsely, a story is settled on its own tests, and  *)
(* triage keeps its limits.  A step of the services is a step of one of    *)
(* them, so each has an invariant of its own.                              *)
(***************************************************************************)
EXTENDS DaemonServices, NotificationOutboxProofs, TriageSweepProofs, PlanRegistryProofs,
        FiniteSetTheorems, SequenceTheorems, WellFoundedInduction, TLAPS
-----------------------------------------------------------------------------
\* A step of the services is one of each part, or leaves that part alone.
LEMMA PartSteps ==
    ASSUME [ServicesNext]_servicesVars
    PROVE  /\ [Next]_vars
           /\ ScanNext \/ UNCHANGED scanVars
           /\ ConsumerNext \/ UNCHANGED consumerVars
           /\ DaemonNext \/ UNCHANGED daemonVars
           /\ GateNext \/ UNCHANGED gateVars
           /\ AuditNext \/ UNCHANGED auditVars
           /\ StoreNext \/ UNCHANGED storeVars
           /\ TriageNext \/ UNCHANGED triageVars
           /\ GradeNext \/ UNCHANGED gradeVars
           /\ RegistryNext \/ UNCHANGED registryVars
BY DEF ServicesNext, servicesVars, OutboxRuns, ScanRuns, ConsumerRuns, DaemonRuns, GateRuns,
       AuditRuns, StoreRuns, TriageRuns, GradeRuns, RegistryRuns, OutboxOnly, ScanOnly,
       ConsumerOnly, DaemonOnly, GateOnly, AuditOnly, StoreOnly, TriageOnly, GradeOnly,
       RegistryOnly
-----------------------------------------------------------------------------
\* The scan.

\* The passes that hold a claimed completion.
Claims == Cardinality({p \in Passes : pass[p] = "publish"})

Places == {"idle", "claim", "publish", "list", "take", "notify"}

ScanInv ==
    /\ marker \in BOOLEAN /\ wake \in BOOLEAN /\ owed \in BOOLEAN
    /\ written \in Nat /\ published \in Nat /\ dropped \in Nat
    /\ pass \in [Passes -> Places]
    /\ written = published + dropped + (IF marker THEN 1 ELSE 0) + Claims
    /\ owed => wake \/ \E p \in Passes : pass[p] = "notify"

LEMMA ClaimsMove ==
    ASSUME pass \in [Passes -> Places], NEW p \in Passes, NEW l \in Places, PassTo(p, l)
    PROVE  /\ Claims \in Nat /\ Claims' \in Nat /\ pass' \in [Passes -> Places]
           /\ pass[p] = "publish" /\ l # "publish" => Claims' + 1 = Claims
           /\ pass[p] # "publish" /\ l = "publish" => Claims' = Claims + 1
           /\ pass[p] # "publish" /\ l # "publish" => Claims' = Claims
<1> DEFINE in == {q \in Passes : pass[q] = "publish"}
           to == {q \in Passes : pass'[q] = "publish"}
<1>1. IsFiniteSet(in) /\ IsFiniteSet(to)
  BY ScanAssumption, FS_Subset
<1>2. /\ Cardinality(in) \in Nat /\ Cardinality(to) \in Nat
      /\ p \in in => Cardinality(in \ {p}) = Cardinality(in) - 1
      /\ p \notin in => Cardinality(in \cup {p}) = Cardinality(in) + 1
  BY <1>1, FS_CardinalityType, FS_RemoveElement, FS_AddElement
<1>3. /\ p \in in <=> pass[p] = "publish"
      /\ p \in in /\ l # "publish" => to = in \ {p}
      /\ p \notin in /\ l = "publish" => to = in \cup {p}
      /\ p \notin in /\ l # "publish" => to = in
      /\ pass' \in [Passes -> Places]
  BY DEF PassTo
<1>4. Claims = Cardinality(in) /\ Claims' = Cardinality(to)
  BY DEF Claims
<1> HIDE DEF in, to
<1>5. CASE p \in in /\ l # "publish"
  <2>1. Cardinality(to) = Cardinality(in) - 1
    BY <1>2, <1>3, <1>5, Zenon
  <2> QED BY <1>2, <1>3, <1>4, <1>5, <2>1
<1>6. CASE p \notin in
  BY <1>2, <1>3, <1>4, <1>6
<1> QED BY <1>2, <1>3, <1>4, <1>5, <1>6

LEMMA ScanInvStep == ScanInv /\ (ScanNext \/ UNCHANGED scanVars) => ScanInv'
<1> SUFFICES ASSUME ScanInv, ScanNext \/ UNCHANGED scanVars PROVE ScanInv'
  OBVIOUS
<1>1. /\ pass \in [Passes -> Places]
      /\ marker \in BOOLEAN /\ wake \in BOOLEAN /\ owed \in BOOLEAN
      /\ written \in Nat /\ published \in Nat /\ dropped \in Nat
      /\ written = published + dropped + (IF marker THEN 1 ELSE 0) + Claims
  BY DEF ScanInv
<1>2. Claims \in Nat
  BY ScanAssumption, FS_Subset, FS_CardinalityType DEF Claims
<1>3. ASSUME UNCHANGED pass PROVE Claims' = Claims
  BY <1>3 DEF Claims
<1>4. CASE UNCHANGED scanVars
  BY <1>3, <1>4 DEF scanVars, ScanInv
<1>5. CASE AgentFinishes
  BY <1>2, <1>3, <1>5 DEF AgentFinishes, ScanInv
<1>6. CASE RequestWake
  BY <1>3, <1>6 DEF RequestWake, ScanInv
<1>7. CASE SchedulerDies
  <2>1. Claims' = 0
    <3>1. {p \in Passes : pass'[p] = "publish"} = {}
      BY <1>7 DEF SchedulerDies
    <3> QED BY <3>1, FS_EmptySet DEF Claims
  <2>2. /\ dropped' = dropped + Claims
        /\ UNCHANGED <<marker, written, published, wake>>
    BY <1>7 DEF SchedulerDies, Claims
  <2>3. /\ dropped' \in Nat
        /\ written' = published' + dropped' + (IF marker' THEN 1 ELSE 0) + Claims'
    BY <1>1, <1>2, <2>1, <2>2
  <2>4. /\ pass' \in [Passes -> Places] /\ owed' \in BOOLEAN
        /\ owed' => wake'
    BY <1>7 DEF SchedulerDies, StillOwed, Places
  <2> QED BY <1>1, <2>2, <2>3, <2>4 DEF ScanInv
<1>8. ASSUME NEW p \in Passes, StartPass(p) PROVE ScanInv'
  <2>1. PICK l \in {"claim", "list"} : PassTo(p, l) /\ pass[p] = "idle"
    BY <1>8 DEF StartPass
  <2>2. Claims' = Claims
    BY <1>1, <2>1, ClaimsMove DEF Places
  <2> QED BY <1>8, <2>1, <2>2 DEF StartPass, PassTo, Places, ScanInv
<1>9. ASSUME NEW p \in Passes, Claim(p) PROVE ScanInv'
  <2>1. PICK l \in {"publish", "list"} :
            /\ PassTo(p, l) /\ pass[p] = "claim"
            /\ IF l = "publish" THEN marker /\ ~marker' ELSE UNCHANGED marker
    BY <1>9 DEF Claim
  <2>2. /\ l = "publish" => Claims' = Claims + 1
        /\ l = "list" => Claims' = Claims
    BY <1>1, <2>1, ClaimsMove DEF Places
  <2>3. marker' \in BOOLEAN /\ UNCHANGED <<written, published, dropped, wake, owed>>
    BY <1>1, <1>9 DEF Claim
  <2>4. written' = published' + dropped' + (IF marker' THEN 1 ELSE 0) + Claims'
    BY <1>1, <1>2, <2>1, <2>2, <2>3
  <2> QED BY <1>1, <2>1, <2>3, <2>4 DEF PassTo, Places, ScanInv
<1>10. ASSUME NEW p \in Passes, Publish(p) \/ PublishFails(p) PROVE ScanInv'
  <2>1. PICK l \in {"idle", "list"} : PassTo(p, l) /\ pass[p] = "publish"
    BY <1>10 DEF Publish, PublishFails
  <2>2. Claims' + 1 = Claims /\ Claims' \in Nat
    BY <1>1, <2>1, ClaimsMove DEF Places
  <2>3. /\ \/ published' = published + 1 /\ dropped' = dropped
           \/ dropped' = dropped + 1 /\ published' = published
        /\ UNCHANGED <<marker, written, wake, owed>>
    BY <1>10 DEF Publish, PublishFails
  <2>4. published' \in Nat /\ dropped' \in Nat
    BY <1>1, <2>3
  <2>5. written' = published' + dropped' + (IF marker' THEN 1 ELSE 0) + Claims'
    <3>1. CASE marker
      BY <1>1, <2>2, <2>3, <3>1
    <3>2. CASE ~marker
      BY <1>1, <2>2, <2>3, <3>2
    <3> QED BY <3>1, <3>2
  <2> QED BY <1>1, <2>1, <2>3, <2>4, <2>5 DEF PassTo, Places, ScanInv
<1>11. ASSUME NEW p \in Passes, ListWakes(p) \/ TakeWake(p) \/ PassOnWake(p) \/ WakeFails(p)
       PROVE  ScanInv'
  <2>1. PICK l \in {"idle", "take", "notify"} :
            PassTo(p, l) /\ pass[p] \in {"list", "take", "notify"}
    BY <1>11 DEF ListWakes, TakeWake, PassOnWake, WakeFails
  <2>2. Claims' = Claims /\ pass' \in [Passes -> Places]
    BY <1>1, <2>1, ClaimsMove DEF Places
  <2>3. UNCHANGED <<marker, written, published, dropped>>
    BY <1>11 DEF ListWakes, TakeWake, PassOnWake, WakeFails
  <2>4. wake' \in BOOLEAN /\ owed' \in BOOLEAN
    BY <1>11 DEF ListWakes, TakeWake, PassOnWake, WakeFails, StillOwed, ScanInv
  <2>5. owed' => wake' \/ \E q \in Passes : pass'[q] = "notify"
    BY <1>11 DEF ListWakes, TakeWake, PassOnWake, WakeFails, StillOwed, PassTo, Places, ScanInv
  <2> QED BY <1>1, <2>2, <2>3, <2>4, <2>5 DEF ScanInv
<1> QED BY <1>4, <1>5, <1>6, <1>7, <1>8, <1>9, <1>10, <1>11 DEF ScanNext
-----------------------------------------------------------------------------
\* The consumer.

ConsumerInv ==
    /\ message \in [Events -> {"none", "ready", "out", "gone"}]
    /\ delivered \in [Events -> 0..BrokerLimit]
    /\ loop \in {"off", "fetch", "pause", "handle", "dead", "ack", "nak"}
    /\ batch \in Seq(Events)
    /\ records \in [Events -> 0..1]
    /\ limit \in Nat /\ lowered \in BOOLEAN
    /\ \A e \in Events : message[e] \in {"none", "ready"} => delivered[e] < BrokerLimit
    /\ loop \in {"handle", "dead", "ack", "nak"} => batch # << >>
    /\ loop = "ack" => Current \in handled \/ records[Current] = 1 \/ lowered
    /\ limit < BrokerLimit => lowered
    /\ \A e \in Events : message[e] = "gone" => e \in handled \/ records[e] = 1 \/ lowered

LEMMA Enumerated ==
    ASSUME NEW S, IsFiniteSet(S), S # {}
    PROVE  SetToSeq(S) \in Seq(S) /\ SetToSeq(S) # << >>
<1>1. /\ Cardinality(S) \in Nat
      /\ ExistsBijection(1..Cardinality(S), S)
  BY FS_CardinalityType
<1>2. Cardinality(S) # 0
  BY FS_EmptySet
<1>3. \E f \in [1..Cardinality(S) -> S] : IsInjective(f)
  BY <1>1 DEF ExistsBijection, Bijection, Injection
<1>4. SetToSeq(S) \in [1..Cardinality(S) -> S]
  BY <1>3 DEF SetToSeq
<1>5. SetToSeq(S) \in Seq(S)
  BY <1>1, <1>4
<1>6. Len(SetToSeq(S)) = Cardinality(S)
  BY <1>1, <1>4, <1>5
<1> QED BY <1>2, <1>5, <1>6

LEMMA ConsumerInvStep == ConsumerInv /\ (ConsumerNext \/ UNCHANGED consumerVars) => ConsumerInv'
<1> SUFFICES ASSUME ConsumerInv, ConsumerNext \/ UNCHANGED consumerVars PROVE ConsumerInv'
  OBVIOUS
<1> USE ConsumerAssumption DEF Current
<1>0. loop \in {"handle", "dead", "ack", "nak"} => Current \in Events
  BY DEF ConsumerInv
<1>1. CASE UNCHANGED consumerVars
  BY <1>1 DEF consumerVars, brokerVars, outcomeVars, configVars, ConsumerInv
<1>2. ASSUME NEW e \in Events, Arrives(e) \/ AckWaitEnds(e) PROVE ConsumerInv'
  BY <1>2 DEF Arrives, AckWaitEnds, Requeued, outcomeVars, configVars, ConsumerInv
<1>3. CASE StartConsumer \/ FetchFails \/ EndPause
  BY <1>3 DEF StartConsumer, FetchFails, EndPause, brokerVars, outcomeVars, configVars,
       ConsumerInv
<1>4. CASE Fetch
  <2> DEFINE ready == {e \in Events : message[e] = "ready"}
  <2>1. IsFiniteSet(ready) /\ ready # {}
    BY <1>4, FS_Subset DEF Fetch
  <2>2. batch' \in Seq(ready) /\ batch' # << >>
    BY <1>4, <2>1, Enumerated DEF Fetch
  <2>3. batch' \in Seq(Events)
    BY <2>2
  <2> QED BY <1>4, <2>2, <2>3 DEF Fetch, outcomeVars, configVars, ConsumerInv
<1>5. CASE HandlersReturn
  BY <1>0, <1>5 DEF HandlersReturn, brokerVars, configVars, ConsumerInv
<1>6. CASE HandlerRaises
  BY <1>0, <1>6 DEF HandlerRaises, brokerVars, outcomeVars, configVars, ConsumerInv
<1>7. CASE DeadLetter
  BY <1>0, <1>7 DEF DeadLetter, brokerVars, configVars, ConsumerInv
<1>8. CASE Ack \/ Nak
  <2>1. /\ batch' \in Seq(Events)
        /\ loop' \in {"handle", "fetch"}
        /\ loop' = "handle" => batch' # << >>
    <3>1. batch \in Seq(Events) /\ batch # << >>
      BY <1>8 DEF Ack, Nak, ConsumerInv
    <3>2. Tail(batch) \in Seq(Events) /\ Len(Tail(batch)) = Len(batch) - 1
      BY <3>1
    <3>3. batch' = Tail(batch) /\ loop' = IF Len(batch) > 1 THEN "handle" ELSE "fetch"
      BY <1>8 DEF Ack, Nak, NextMessage
    <3>4. Len(batch) > 1 => Tail(batch) # << >>
      <4>1. ASSUME Len(batch) > 1 PROVE Len(Tail(batch)) # 0
        BY <3>1, <3>2, <4>1
      <4>2. Len(<< >>) = 0
        OBVIOUS
      <4> QED BY <4>1, <4>2
    <3> QED BY <3>2, <3>3, <3>4
  <2>2. CASE Ack
    BY <1>0, <2>1, <2>2 DEF Ack, NextMessage, outcomeVars, configVars, ConsumerInv
  <2>3. CASE Nak
    BY <1>0, <2>1, <2>3 DEF Nak, NextMessage, Requeued, outcomeVars, configVars, ConsumerInv
  <2> QED BY <1>8, <2>2, <2>3
<1>9. CASE Restart
  <2>1. /\ loop' = "off" /\ batch' = << >> /\ batch' \in Seq(Events)
        /\ limit' \in Nat /\ lowered' \in BOOLEAN
        /\ UNCHANGED <<message, delivered, handled, records>>
    BY <1>9 DEF Restart, brokerVars, outcomeVars, ConsumerInv
  <2>2. /\ lowered => lowered'
        /\ limit' < limit => lowered'
    BY <1>9 DEF Restart
  <2>3. limit' < BrokerLimit => lowered'
    BY <2>1, <2>2 DEF ConsumerInv
  <2> QED BY <2>1, <2>2, <2>3 DEF ConsumerInv
<1> QED BY <1>1, <1>2, <1>3, <1>4, <1>5, <1>6, <1>7, <1>8, <1>9 DEF ConsumerNext, LoopStep
-----------------------------------------------------------------------------
LEMMA ScanInvInit == ScanInit => ScanInv
<1> SUFFICES ASSUME ScanInit PROVE ScanInv
  OBVIOUS
<1>1. {p \in Passes : pass[p] = "publish"} = {}
  BY DEF ScanInit
<1>2. Claims = 0
  BY <1>1, FS_EmptySet DEF Claims
<1>3. /\ marker = FALSE /\ wake = FALSE /\ owed = FALSE
      /\ written = 0 /\ published = 0 /\ dropped = 0
      /\ pass \in [Passes -> Places]
  BY DEF ScanInit, Places
<1>4. written = published + dropped + (IF marker THEN 1 ELSE 0) + Claims
  BY <1>2, <1>3
<1>5. marker \in BOOLEAN /\ wake \in BOOLEAN /\ owed \in BOOLEAN /\ ~owed
  BY <1>3
<1> QED BY <1>3, <1>4, <1>5 DEF ScanInv

LEMMA ConsumerInvInit == ConsumerInit => ConsumerInv
<1> SUFFICES ASSUME ConsumerInit PROVE ConsumerInv
  OBVIOUS
<1>1. /\ message = [e \in Events |-> "none"] /\ delivered = [e \in Events |-> 0]
      /\ loop = "off" /\ batch = << >> /\ records = [e \in Events |-> 0]
      /\ limit = BrokerLimit /\ lowered = FALSE
  BY DEF ConsumerInit
<1>2. /\ delivered \in [Events -> 0..BrokerLimit] /\ batch \in Seq(Events)
      /\ \A e \in Events : message[e] = "none" /\ delivered[e] < BrokerLimit
      /\ limit \in Nat /\ ~(limit < BrokerLimit)
  BY <1>1, ConsumerAssumption
<1>3. /\ message \in [Events -> {"none", "ready", "out", "gone"}]
      /\ records \in [Events -> 0..1]
  BY <1>1
<1> QED BY <1>1, <1>2, <1>3 DEF ConsumerInv

\* A completion that was written is published, dropped by a pass that failed, or
\* with exactly one pass; a wake that is owed is still there or is being passed
\* on (scan_done_markers, claim_wakes); an event leaves the stream only once it
\* was handled or is in the dead letters, which take it once, unless an operator
\* has lowered the limit (_fetch_loop).
THEOREM HandOnOnceHolds == ServicesSpec => []HandOnOnce
<1> DEFINE Inv == ScanInv /\ ConsumerInv
<1>1. ServicesInit => Inv
  BY ScanInvInit, ConsumerInvInit DEF ServicesInit
<1>2. Inv /\ [ServicesNext]_servicesVars => Inv'
  BY PartSteps, ScanInvStep, ConsumerInvStep
<1>3. Inv => HandOnOnce
  BY DEF ScanInv, ConsumerInv, HandOnOnce, HandedOnOnce, SettledOnce, Claims
<1> QED BY <1>1, <1>2, <1>3, PTL DEF ServicesSpec
-----------------------------------------------------------------------------
\* The store.

\* What a client has in its hands, where it is.
ClientHas(c) ==
    /\ clientAt[c] = "open" <=> txn = c
    /\ clientAt[c] = "idle" => held[c] = NoRow
    /\ clientAt[c] \notin {"idle", "open"} => held[c] # NoRow
    /\ clientAt[c] = "project" => pending[c] # NoRow
    /\ pending[c] # NoRow =>
        /\ clientAt[c] \in {"open", "project"} /\ held[c] = pending[c]
        /\ clientAt[c] = "open" => txRow = pending[c]
    /\ mine[c] # {} => clientAt[c] = "direct" \/ pending[c] # NoRow
    /\ held[c] # NoRow => mine[c] \subseteq held[c]
    /\ Changing(c) => saved \subseteq held[c]

\* An operation that met no other is the only one in progress.
UnmetIsAlone ==
    \A x, y \in Clients : x # y /\ Changing(x) /\ Changing(y) => met[x]

\* The edits d shows.
Within(d) == IF d = NoRow THEN {} ELSE d

\* Edits that no record and no client may show: given up, or not made yet.
Hidden == undone \cup ((edits + 1) .. MaxEdits)

\* Neither these are seen, nor by others what an open transaction has edited.
Unseen ==
    /\ undone \subseteq 1 .. edits
    /\ Hidden \cap (shown \cup Within(row) \cup Within(txRow)) = {}
    /\ \A y \in Clients : Hidden \cap Within(held[y]) = {}
    /\ \A c \in Clients : mine[c] \subseteq 1 .. edits
    /\ txn # NoRow =>
        /\ mine[txn] \cap (shown \cup Within(row)) = {}
        /\ \A y \in Clients \ {txn} : mine[txn] \cap Within(held[y]) = {}

Stations ==
    {"idle", "open", "project", "look", "read", "import", "import_look", "served", "outside",
     "direct"}

StoreInv ==
    /\ StoreTypeOK
    /\ \A c \in Clients : ClientHas(c)
    /\ UnmetIsAlone /\ Unseen
    /\ saved \subseteq shown

LEMMA StoreTypeStep == StoreInv /\ (StoreNext \/ UNCHANGED storeVars) => StoreTypeOK'
<1> SUFFICES ASSUME StoreTypeOK, \A c \in Clients : ClientHas(c), StoreNext \/ UNCHANGED storeVars
             PROVE  StoreTypeOK'
  BY DEF StoreInv
<1>n. MaxEdits \in Nat /\ MaxBreaks \in Nat
  BY StoreAssumption
<1> USE DEF StoreTypeOK, ClientTo, Finished, Takes, Edit, Edits
<1>0. CASE UNCHANGED storeVars
  BY <1>0 DEF storeVars, clientVars
<1> SUFFICES ASSUME NEW c \in Clients,
                    \/ StoreBegin(c) \/ TxnRead(c) \/ TxnSave(c) \/ Rollback(c)
                    \/ ReadFile(c) \/ TakeFile(c) \/ EditFile(c) \/ ClientDies(c)
                    \/ Reads(c) \/ Writes(c)
             PROVE  StoreTypeOK'
  BY <1>0 DEF StoreNext
<1>1. CASE StoreBegin(c)
  BY <1>1 DEF StoreBegin
<1>2. CASE TxnRead(c)
  BY <1>2 DEF TxnRead, ClientHas
<1>3. CASE TxnSave(c)
  BY <1>n, <1>3 DEF TxnSave
<1>4. CASE Rollback(c)
  BY <1>n, <1>4 DEF Rollback
<1>5. CASE ReadFile(c)
  BY <1>5 DEF ReadFile
<1>6. CASE TakeFile(c)
  BY <1>6 DEF TakeFile
<1>7. CASE EditFile(c)
  <2>1. CASE Finished(c) /\ UNCHANGED edits
    BY <1>7, <2>1 DEF EditFile
  <2>2. CASE Edit(c) /\ ClientTo(c, "direct") /\ UNCHANGED <<pending, met>>
    <3>1. held[c] \in SUBSET Edits
      BY <1>7 DEF EditFile, ClientHas
    <3>2. edits' \in Edits /\ edits' \in 0 .. MaxEdits
      BY <1>n, <2>2
    <3> QED BY <1>7, <2>2, <3>1, <3>2 DEF EditFile
  <2> QED BY <1>7, <2>1, <2>2 DEF EditFile
<1>8. CASE ClientDies(c)
  BY <1>n, <1>8 DEF ClientDies
<1>9. CASE Reads(c)
  <2>1. CASE ReadRow(c)
    <3>1. CASE held[c] # row
      BY <2>1, <3>1 DEF ReadRow
    <3>2. CASE held[c] = row /\ clientAt[c] = "look"
      <4>1. Finished(c) /\ UNCHANGED <<shown, row, txRow, txn, edits, saved, undone, breaks>>
        BY <2>1, <3>2 DEF ReadRow
      <4> QED BY <4>1
    <3>3. CASE held[c] = row /\ clientAt[c] = "read"
      BY <2>1, <3>3 DEF ReadRow
    <3> QED BY <2>1, <3>1, <3>2, <3>3 DEF ReadRow
  <2>2. CASE Import(c)
    <3>1. row' \in (SUBSET Edits) \cup {NoRow}
      <4>1. row \in (SUBSET Edits) \cup {NoRow} /\ held[c] \in (SUBSET Edits) \cup {NoRow}
        OBVIOUS
      <4>2. row' = row \/ row' = held[c]
        BY <2>2 DEF Import
      <4> QED BY <4>1, <4>2
    <3>2. CASE clientAt[c] = "import_look"
      <4>1. Finished(c) /\ UNCHANGED <<shown, txRow, txn, edits, saved, undone, breaks>>
        BY <2>2, <3>2 DEF Import
      <4>2. {row', txRow'} \subseteq (SUBSET Edits) \cup {NoRow}
        BY <3>1, <4>1
      <4>3. saved' \cup undone' \subseteq Edits /\ shown' \in SUBSET Edits
        BY <4>1
      <4> QED BY <4>1, <4>2, <4>3
    <3>3. CASE clientAt[c] # "import_look"
      BY <2>2, <3>1, <3>3 DEF Import
    <3> QED BY <3>2, <3>3
  <2> QED BY <1>9, <2>1, <2>2 DEF Reads
<1>10. CASE SaveDirectly(c)
  <2>1. CASE Finished(c) /\ UNCHANGED <<row, edits>>
    BY <1>10, <2>1 DEF SaveDirectly
  <2>2. CASE Edit(c) /\ row' = held'[c] /\ ClientTo(c, "direct") /\ UNCHANGED <<pending, met>>
    <3>1. held[c] \in SUBSET Edits
      BY <1>10 DEF SaveDirectly, ClientHas
    <3>2. edits' \in Edits /\ edits' \in 0 .. MaxEdits
      BY <1>n, <2>2
    <3>3. held'[c] \in SUBSET Edits
      BY <2>2, <3>1, <3>2
    <3> QED BY <1>10, <2>2, <3>1, <3>2, <3>3 DEF SaveDirectly
  <2> QED BY <1>10, <2>1, <2>2 DEF SaveDirectly
<1>11. CASE ReplaceFile(c)
  BY <1>11 DEF ReplaceFile, Saves, ClientHas
<1>12. CASE Project(c)
  BY <1>12 DEF Project, Saves, ClientHas
<1>13. CASE Commit(c)
  BY <1>13 DEF Commit
<1> QED BY <1>1, <1>2, <1>3, <1>4, <1>5, <1>6, <1>7, <1>8, <1>9, <1>10, <1>11, <1>12, <1>13
        DEF Writes

\* What an edit does to the client that makes it.
LEMMA EditOf ==
    ASSUME StoreTypeOK, NEW c \in Clients, held[c] # NoRow, Edit(c)
    PROVE  /\ edits' \in Edits /\ held'[c] = held[c] \cup {edits'} /\ held'[c] # NoRow
           /\ mine'[c] = mine[c] \cup {edits'}
<1>1. held[c] \in SUBSET Edits /\ mine[c] \in SUBSET Edits
  BY DEF StoreTypeOK
<1>2. edits' \in Edits
  BY StoreAssumption DEF StoreTypeOK, Edit, Edits
<1>3. held'[c] = held[c] \cup {edits'} /\ mine'[c] = mine[c] \cup {edits'}
  BY DEF StoreTypeOK, Edit
<1>4. held'[c] \in SUBSET Edits
  BY <1>1, <1>2, <1>3
<1> QED BY <1>2, <1>3, <1>4, StoreAssumption DEF Edits

LEMMA ClientsStep ==
    StoreInv /\ (StoreNext \/ UNCHANGED storeVars) => \A x \in Clients : ClientHas(x)'
<1> SUFFICES ASSUME StoreInv, StoreNext \/ UNCHANGED storeVars
             PROVE  \A x \in Clients : ClientHas(x)'
  OBVIOUS
<1> USE DEF StoreInv, ClientTo, Finished, Takes, Edit, ClientHas, Changing
<1>0. CASE UNCHANGED storeVars
  BY <1>0 DEF storeVars, clientVars
<1>t. /\ row \in (SUBSET Edits) \cup {NoRow} /\ txRow \in (SUBSET Edits) \cup {NoRow}
      /\ shown \in SUBSET Edits /\ txn \in Clients \cup {NoRow}
      /\ clientAt \in [Clients -> Stations]
      /\ held \in [Clients -> (SUBSET Edits) \cup {NoRow}]
      /\ pending \in [Clients -> (SUBSET Edits) \cup {NoRow}]
      /\ mine \in [Clients -> SUBSET Edits] /\ met \in [Clients -> BOOLEAN]
      /\ edits \in Nat /\ saved \subseteq Edits /\ undone \subseteq Edits
      /\ NoRow \notin Clients
      /\ NoRow \notin SUBSET Edits
  BY StoreAssumption DEF StoreTypeOK, Stations, Edits
<1>c. \A x \in Clients : ClientHas(x)
  OBVIOUS
<1>1. ASSUME NEW c \in Clients, StoreBegin(c) PROVE \A x \in Clients : ClientHas(x)'
  BY <1>t, <1>c, <1>1 DEF StoreBegin
<1>2. ASSUME NEW c \in Clients, TxnRead(c) PROVE \A x \in Clients : ClientHas(x)'
  BY <1>t, <1>c, <1>2 DEF TxnRead
<1>3. ASSUME NEW c \in Clients, TxnSave(c) PROVE \A x \in Clients : ClientHas(x)'
  <2>1. ClientHas(c)'
    <3>1. held'[c] # NoRow /\ mine'[c] = mine[c] \cup {edits'} /\ held'[c] = held[c] \cup {edits'}
      BY <1>3, EditOf DEF TxnSave
    <3>2. /\ clientAt' = clientAt /\ txn' = txn /\ saved' = saved
          /\ clientAt[c] = "open" /\ held[c] # NoRow
          /\ txRow' = held'[c] /\ pending'[c] = held'[c]
      BY <1>t, <1>3 DEF TxnSave
    <3> QED BY <1>c, <3>1, <3>2
  <2>2. ASSUME NEW x \in Clients \ {c} PROVE ClientHas(x)'
    BY <1>t, <1>c, <1>3, <2>2 DEF TxnSave
  <2> QED BY <2>1, <2>2
<1>4. ASSUME NEW c \in Clients, Rollback(c) PROVE \A x \in Clients : ClientHas(x)'
  BY <1>t, <1>c, <1>4 DEF Rollback
<1>5. ASSUME NEW c \in Clients, ReadFile(c) PROVE \A x \in Clients : ClientHas(x)'
  BY <1>t, <1>c, <1>5 DEF ReadFile
<1>6. ASSUME NEW c \in Clients, TakeFile(c) PROVE \A x \in Clients : ClientHas(x)'
  BY <1>t, <1>c, <1>6 DEF TakeFile
<1>7. ASSUME NEW c \in Clients, EditFile(c) PROVE \A x \in Clients : ClientHas(x)'
  <2>1. ClientHas(c)'
    <3>1. CASE Finished(c) /\ UNCHANGED edits
      BY <1>t, <1>c, <1>7, <3>1 DEF EditFile
    <3>2. CASE Edit(c) /\ ClientTo(c, "direct") /\ UNCHANGED pending
      <4>1. /\ clientAt[c] = "outside" /\ clientAt'[c] = "direct" /\ held[c] # NoRow
            /\ txn' = txn /\ saved' = saved /\ pending'[c] = pending[c]
        BY <1>t, <1>c, <1>7, <3>2 DEF EditFile
      <4>2. held'[c] # NoRow /\ mine'[c] = mine[c] \cup {edits'} /\ held'[c] = held[c] \cup {edits'}
        BY <3>2, <4>1, EditOf
      <4> QED BY <1>c, <4>1, <4>2
    <3> QED BY <1>7, <3>1, <3>2 DEF EditFile
  <2>2. ASSUME NEW x \in Clients \ {c} PROVE ClientHas(x)'
    BY <1>t, <1>c, <1>7, <2>2 DEF EditFile
  <2> QED BY <2>1, <2>2
<1>8. ASSUME NEW c \in Clients, ClientDies(c) PROVE \A x \in Clients : ClientHas(x)'
  BY <1>t, <1>c, <1>8 DEF ClientDies
<1>9. ASSUME NEW c \in Clients, ReadRow(c) PROVE \A x \in Clients : ClientHas(x)'
  <2>1. \/ Finished(c)
        \/ /\ \E l \in {"import_look", "import", "served"} :
                ClientTo(c, l) /\ clientAt[c] \in {"look", "read"}
                               /\ (l = "import_look" <=> clientAt[c] = "look")
           /\ UNCHANGED <<held, pending, mine, met>>
    <3>1. CASE held[c] # row
      BY <1>9, <3>1 DEF ReadRow
    <3>2. CASE held[c] = row /\ clientAt[c] = "look"
      BY <1>9, <3>2 DEF ReadRow
    <3>3. CASE held[c] = row /\ clientAt[c] = "read"
      BY <1>9, <3>3 DEF ReadRow
    <3> QED BY <1>9, <3>1, <3>2, <3>3 DEF ReadRow
  <2>2. UNCHANGED <<shown, row, txRow, txn, edits, saved, undone>>
    BY <1>9 DEF ReadRow
  <2>3. CASE Finished(c)
    <3>1. clientAt[c] # "open" /\ clientAt'[c] = "idle" /\ held'[c] = NoRow
          /\ pending'[c] = NoRow /\ mine'[c] = {}
      BY <1>t, <1>9, <2>3 DEF ReadRow
    <3>2. ClientHas(c)'
      BY <1>c, <2>2, <3>1
    <3>3. ASSUME NEW x \in Clients \ {c} PROVE ClientHas(x)'
      BY <1>t, <1>c, <2>2, <2>3, <3>3
    <3> QED BY <3>2, <3>3
  <2>4. ASSUME NEW l \in {"import_look", "import", "served"}, ClientTo(c, l),
               clientAt[c] \in {"look", "read"}, l = "import_look" <=> clientAt[c] = "look",
               UNCHANGED <<held, pending, mine, met>>
        PROVE  \A x \in Clients : ClientHas(x)'
    BY <1>t, <1>c, <2>2, <2>4
  <2> QED BY <2>1, <2>3, <2>4
<1>10. ASSUME NEW c \in Clients, Import(c) PROVE \A x \in Clients : ClientHas(x)'
  BY <1>t, <1>c, <1>10 DEF Import
<1>11. ASSUME NEW c \in Clients, SaveDirectly(c) PROVE \A x \in Clients : ClientHas(x)'
  <2>1. ClientHas(c)'
    <3>1. CASE Finished(c) /\ UNCHANGED <<row, edits>>
      BY <1>t, <1>c, <1>11, <3>1 DEF SaveDirectly
    <3>2. CASE Edit(c) /\ ClientTo(c, "direct") /\ UNCHANGED pending
      <4>1. /\ clientAt[c] = "served" /\ clientAt'[c] = "direct" /\ held[c] # NoRow
            /\ txn' = txn /\ saved' = saved /\ pending'[c] = pending[c]
        BY <1>t, <1>c, <1>11, <3>2 DEF SaveDirectly
      <4>2. held'[c] # NoRow /\ mine'[c] = mine[c] \cup {edits'} /\ held'[c] = held[c] \cup {edits'}
        BY <3>2, <4>1, EditOf
      <4> QED BY <1>c, <4>1, <4>2
    <3> QED BY <1>11, <3>1, <3>2 DEF SaveDirectly
  <2>2. ASSUME NEW x \in Clients \ {c} PROVE ClientHas(x)'
    BY <1>t, <1>c, <1>11, <2>2 DEF SaveDirectly
  <2> QED BY <2>1, <2>2
<1>12. ASSUME NEW c \in Clients, ReplaceFile(c) PROVE \A x \in Clients : ClientHas(x)'
  <2>1. ClientHas(c)'
    BY <1>t, <1>c, <1>12 DEF ReplaceFile, Saves, UnmetIsAlone
  <2>2. ASSUME NEW x \in Clients \ {c} PROVE ClientHas(x)'
    BY <1>t, <1>c, <1>12, <2>2 DEF ReplaceFile, Saves, UnmetIsAlone
  <2> QED BY <2>1, <2>2
<1>13. ASSUME NEW c \in Clients, Project(c) PROVE \A x \in Clients : ClientHas(x)'
  <2>1. ClientHas(c)'
    BY <1>t, <1>c, <1>13 DEF Project, Saves, UnmetIsAlone
  <2>2. ASSUME NEW x \in Clients \ {c} PROVE ClientHas(x)'
    BY <1>t, <1>c, <1>13, <2>2 DEF Project, Saves, UnmetIsAlone
  <2> QED BY <2>1, <2>2
<1>14. ASSUME NEW c \in Clients, Commit(c) PROVE \A x \in Clients : ClientHas(x)'
  BY <1>t, <1>c, <1>14 DEF Commit
<1> QED BY <1>0, <1>1, <1>2, <1>3, <1>4, <1>5, <1>6, <1>7, <1>8, <1>9, <1>10, <1>11, <1>12, <1>13,
       <1>14 DEF StoreNext, Reads, Writes

LEMMA MeetingStep == StoreInv /\ (StoreNext \/ UNCHANGED storeVars) => UnmetIsAlone'
<1> SUFFICES ASSUME StoreInv, StoreNext \/ UNCHANGED storeVars
             PROVE  UnmetIsAlone'
  OBVIOUS
<1> USE DEF StoreInv, ClientTo, Finished, Takes, Edit, ClientHas, Changing, UnmetIsAlone
<1>0. CASE UNCHANGED storeVars
  BY <1>0 DEF storeVars, clientVars
<1>t. /\ row \in (SUBSET Edits) \cup {NoRow} /\ txRow \in (SUBSET Edits) \cup {NoRow}
      /\ shown \in SUBSET Edits /\ txn \in Clients \cup {NoRow}
      /\ clientAt \in [Clients -> Stations]
      /\ held \in [Clients -> (SUBSET Edits) \cup {NoRow}]
      /\ pending \in [Clients -> (SUBSET Edits) \cup {NoRow}]
      /\ mine \in [Clients -> SUBSET Edits] /\ met \in [Clients -> BOOLEAN]
      /\ edits \in Nat /\ saved \subseteq Edits /\ undone \subseteq Edits
      /\ NoRow \notin Clients
      /\ NoRow \notin SUBSET Edits
  BY StoreAssumption DEF StoreTypeOK, Stations, Edits
<1>c. \A x \in Clients : ClientHas(x)
  OBVIOUS
<1>1. ASSUME NEW c \in Clients, StoreBegin(c) PROVE UnmetIsAlone'
  BY <1>t, <1>c, <1>1 DEF StoreBegin
<1>2. ASSUME NEW c \in Clients, TxnRead(c) PROVE UnmetIsAlone'
  BY <1>t, <1>c, <1>2 DEF TxnRead
<1>3. ASSUME NEW c \in Clients, TxnSave(c) PROVE UnmetIsAlone'
  BY <1>t, <1>c, <1>3 DEF TxnSave
<1>4. ASSUME NEW c \in Clients, Rollback(c) PROVE UnmetIsAlone'
  BY <1>t, <1>c, <1>4 DEF Rollback
<1>5. ASSUME NEW c \in Clients, ReadFile(c) PROVE UnmetIsAlone'
  BY <1>t, <1>c, <1>5 DEF ReadFile
<1>6. ASSUME NEW c \in Clients, TakeFile(c) PROVE UnmetIsAlone'
  BY <1>t, <1>c, <1>6 DEF TakeFile
<1>7. ASSUME NEW c \in Clients, EditFile(c) PROVE UnmetIsAlone'
  BY <1>t, <1>c, <1>7 DEF EditFile
<1>8. ASSUME NEW c \in Clients, ClientDies(c) PROVE UnmetIsAlone'
  BY <1>t, <1>c, <1>8 DEF ClientDies
<1>9. ASSUME NEW c \in Clients, ReadRow(c) PROVE UnmetIsAlone'
  <2>1. \/ Finished(c)
        \/ /\ \E l \in {"import_look", "import", "served"} :
                ClientTo(c, l) /\ clientAt[c] \in {"look", "read"}
                               /\ (l = "import_look" <=> clientAt[c] = "look")
           /\ UNCHANGED <<held, pending, mine, met>>
    <3>1. CASE held[c] # row
      BY <1>9, <3>1 DEF ReadRow
    <3>2. CASE held[c] = row /\ clientAt[c] = "look"
      BY <1>9, <3>2 DEF ReadRow
    <3>3. CASE held[c] = row /\ clientAt[c] = "read"
      BY <1>9, <3>3 DEF ReadRow
    <3> QED BY <1>9, <3>1, <3>2, <3>3 DEF ReadRow
  <2>2. UNCHANGED <<shown, row, txRow, txn, edits, saved, undone>>
    BY <1>9 DEF ReadRow
  <2>3. CASE Finished(c)
    BY <1>t, <1>c, <2>2, <2>3
  <2>4. ASSUME NEW l \in {"import_look", "import", "served"}, ClientTo(c, l),
               clientAt[c] \in {"look", "read"}, l = "import_look" <=> clientAt[c] = "look",
               UNCHANGED <<held, pending, mine, met>>
        PROVE  UnmetIsAlone'
    BY <1>t, <1>c, <2>2, <2>4
  <2> QED BY <2>1, <2>3, <2>4
<1>10. ASSUME NEW c \in Clients, Import(c) PROVE UnmetIsAlone'
  BY <1>t, <1>c, <1>10 DEF Import
<1>11. ASSUME NEW c \in Clients, SaveDirectly(c) PROVE UnmetIsAlone'
  BY <1>t, <1>c, <1>11 DEF SaveDirectly
<1>12. ASSUME NEW c \in Clients, ReplaceFile(c) PROVE UnmetIsAlone'
  BY <1>t, <1>c, <1>12 DEF ReplaceFile, Saves
<1>13. ASSUME NEW c \in Clients, Project(c) PROVE UnmetIsAlone'
  BY <1>t, <1>c, <1>13 DEF Project, Saves
<1>14. ASSUME NEW c \in Clients, Commit(c) PROVE UnmetIsAlone'
  BY <1>t, <1>c, <1>14 DEF Commit
<1> QED BY <1>0, <1>1, <1>2, <1>3, <1>4, <1>5, <1>6, <1>7, <1>8, <1>9, <1>10, <1>11, <1>12, <1>13,
       <1>14 DEF StoreNext, Reads, Writes

LEMMA UnseenStep == StoreInv /\ (StoreNext \/ UNCHANGED storeVars) => Unseen'
<1> SUFFICES ASSUME StoreInv, StoreNext \/ UNCHANGED storeVars
             PROVE  Unseen'
  OBVIOUS
<1> USE DEF StoreInv, ClientTo, Finished, Takes, Edit, ClientHas, Unseen, Hidden, Within, Edits
<1>0. CASE UNCHANGED storeVars
  BY <1>0 DEF storeVars, clientVars
<1>t. /\ row \in (SUBSET Edits) \cup {NoRow} /\ txRow \in (SUBSET Edits) \cup {NoRow}
      /\ shown \in SUBSET Edits /\ txn \in Clients \cup {NoRow}
      /\ clientAt \in [Clients -> Stations]
      /\ held \in [Clients -> (SUBSET Edits) \cup {NoRow}]
      /\ pending \in [Clients -> (SUBSET Edits) \cup {NoRow}]
      /\ mine \in [Clients -> SUBSET Edits] /\ met \in [Clients -> BOOLEAN]
      /\ edits \in Nat /\ saved \subseteq Edits /\ undone \subseteq Edits
      /\ NoRow \notin Clients
      /\ NoRow \notin SUBSET Edits
  BY StoreAssumption DEF StoreTypeOK, Stations, Edits
<1>c. \A x \in Clients : ClientHas(x)
  OBVIOUS
<1>1. ASSUME NEW c \in Clients, StoreBegin(c) PROVE Unseen'
  BY <1>t, <1>c, <1>1 DEF StoreBegin
<1>2. ASSUME NEW c \in Clients, TxnRead(c) PROVE Unseen'
  BY <1>t, <1>c, <1>2 DEF TxnRead
<1>3. ASSUME NEW c \in Clients, TxnSave(c) PROVE Unseen'
  BY <1>t, <1>c, <1>3 DEF TxnSave
<1>4. ASSUME NEW c \in Clients, Rollback(c) PROVE Unseen'
  <2>1. /\ txn = c /\ txn' = NoRow /\ txRow' = NoRow /\ undone' = undone \cup mine[c]
        /\ shown' = shown /\ row' = row /\ edits' = edits
        /\ held' = [held EXCEPT ![c] = NoRow] /\ mine' = [mine EXCEPT ![c] = {}]
    BY <1>c, <1>4 DEF Rollback
  <2>2. /\ undone' \subseteq 1 .. edits'
        /\ \A x \in Clients : mine'[x] \subseteq 1 .. edits'
    BY <1>t, <2>1
  <2>3. mine[c] \cap (shown \cup Within(row)) = {}
    BY <2>1, <1>t
  <2>4. (Hidden \cap (shown \cup Within(row) \cup Within(txRow)))' = {}
    BY <2>1, <2>3
  <2>5. ASSUME NEW y \in Clients PROVE (Hidden \cap Within(held[y]))' = {}
    <3>1. CASE y = c
      BY <1>t, <2>1, <3>1
    <3>2. CASE y # c
      <4>1. held'[y] = held[y] /\ Hidden \cap Within(held[y]) = {}
        BY <1>t, <2>1, <3>2
      <4>2. mine[c] \cap Within(held[y]) = {}
        BY <1>t, <2>1, <3>2
      <4> QED BY <2>1, <4>1, <4>2
    <3> QED BY <3>1, <3>2
  <2> QED BY <2>1, <2>2, <2>4, <2>5
<1>5. ASSUME NEW c \in Clients, ReadFile(c) PROVE Unseen'
  BY <1>t, <1>c, <1>5 DEF ReadFile
<1>6. ASSUME NEW c \in Clients, TakeFile(c) PROVE Unseen'
  BY <1>t, <1>c, <1>6 DEF TakeFile
<1>7. ASSUME NEW c \in Clients, EditFile(c) PROVE Unseen'
  BY <1>t, <1>c, <1>7 DEF EditFile
<1>8. ASSUME NEW c \in Clients, ClientDies(c) PROVE Unseen'
  BY <1>t, <1>c, <1>8 DEF ClientDies
<1>9. ASSUME NEW c \in Clients, ReadRow(c) PROVE Unseen'
  <2>1. \/ Finished(c)
        \/ /\ \E l \in {"import_look", "import", "served"} :
                ClientTo(c, l) /\ clientAt[c] \in {"look", "read"}
                               /\ (l = "import_look" <=> clientAt[c] = "look")
           /\ UNCHANGED <<held, pending, mine, met>>
    <3>1. CASE held[c] # row
      BY <1>9, <3>1 DEF ReadRow
    <3>2. CASE held[c] = row /\ clientAt[c] = "look"
      BY <1>9, <3>2 DEF ReadRow
    <3>3. CASE held[c] = row /\ clientAt[c] = "read"
      BY <1>9, <3>3 DEF ReadRow
    <3> QED BY <1>9, <3>1, <3>2, <3>3 DEF ReadRow
  <2>2. UNCHANGED <<shown, row, txRow, txn, edits, saved, undone>>
    BY <1>9 DEF ReadRow
  <2>3. CASE Finished(c)
    BY <1>t, <1>c, <2>2, <2>3
  <2>4. ASSUME NEW l \in {"import_look", "import", "served"}, ClientTo(c, l),
               clientAt[c] \in {"look", "read"}, l = "import_look" <=> clientAt[c] = "look",
               UNCHANGED <<held, pending, mine, met>>
        PROVE  Unseen'
    BY <1>t, <1>c, <2>2, <2>4
  <2> QED BY <2>1, <2>3, <2>4
<1>10. ASSUME NEW c \in Clients, Import(c) PROVE Unseen'
  BY <1>t, <1>c, <1>10 DEF Import
<1>11. ASSUME NEW c \in Clients, SaveDirectly(c) PROVE Unseen'
  BY <1>t, <1>c, <1>11 DEF SaveDirectly
<1>12. ASSUME NEW c \in Clients, ReplaceFile(c) PROVE Unseen'
  BY <1>t, <1>c, <1>12 DEF ReplaceFile, Saves
<1>13. ASSUME NEW c \in Clients, Project(c) PROVE Unseen'
  BY <1>t, <1>c, <1>13 DEF Project, Saves
<1>14. ASSUME NEW c \in Clients, Commit(c) PROVE Unseen'
  BY <1>t, <1>c, <1>14 DEF Commit
<1> QED BY <1>0, <1>1, <1>2, <1>3, <1>4, <1>5, <1>6, <1>7, <1>8, <1>9, <1>10, <1>11, <1>12, <1>13,
       <1>14 DEF StoreNext, Reads, Writes

LEMMA SavedStep == StoreInv /\ (StoreNext \/ UNCHANGED storeVars) => (saved \subseteq shown)'
<1> SUFFICES ASSUME StoreInv, StoreNext \/ UNCHANGED storeVars
             PROVE  (saved \subseteq shown)'
  OBVIOUS
<1> USE DEF StoreInv, ClientTo, Finished, Takes, Edit, ClientHas, Changing
<1>0. CASE UNCHANGED storeVars
  BY <1>0 DEF storeVars, clientVars
<1>t. /\ row \in (SUBSET Edits) \cup {NoRow} /\ txRow \in (SUBSET Edits) \cup {NoRow}
      /\ shown \in SUBSET Edits /\ txn \in Clients \cup {NoRow}
      /\ clientAt \in [Clients -> Stations]
      /\ held \in [Clients -> (SUBSET Edits) \cup {NoRow}]
      /\ pending \in [Clients -> (SUBSET Edits) \cup {NoRow}]
      /\ mine \in [Clients -> SUBSET Edits] /\ met \in [Clients -> BOOLEAN]
      /\ edits \in Nat /\ saved \subseteq Edits /\ undone \subseteq Edits
      /\ NoRow \notin Clients
      /\ NoRow \notin SUBSET Edits
  BY StoreAssumption DEF StoreTypeOK, Stations, Edits
<1>c. \A x \in Clients : ClientHas(x)
  OBVIOUS
<1>1. ASSUME NEW c \in Clients, StoreBegin(c) PROVE (saved \subseteq shown)'
  BY <1>t, <1>c, <1>1 DEF StoreBegin
<1>2. ASSUME NEW c \in Clients, TxnRead(c) PROVE (saved \subseteq shown)'
  BY <1>t, <1>c, <1>2 DEF TxnRead
<1>3. ASSUME NEW c \in Clients, TxnSave(c) PROVE (saved \subseteq shown)'
  BY <1>t, <1>c, <1>3 DEF TxnSave
<1>4. ASSUME NEW c \in Clients, Rollback(c) PROVE (saved \subseteq shown)'
  BY <1>t, <1>c, <1>4 DEF Rollback
<1>5. ASSUME NEW c \in Clients, ReadFile(c) PROVE (saved \subseteq shown)'
  BY <1>t, <1>c, <1>5 DEF ReadFile
<1>6. ASSUME NEW c \in Clients, TakeFile(c) PROVE (saved \subseteq shown)'
  BY <1>t, <1>c, <1>6 DEF TakeFile
<1>7. ASSUME NEW c \in Clients, EditFile(c) PROVE (saved \subseteq shown)'
  BY <1>t, <1>c, <1>7 DEF EditFile
<1>8. ASSUME NEW c \in Clients, ClientDies(c) PROVE (saved \subseteq shown)'
  BY <1>t, <1>c, <1>8 DEF ClientDies
<1>9. ASSUME NEW c \in Clients, ReadRow(c) PROVE (saved \subseteq shown)'
  BY <1>t, <1>c, <1>9 DEF ReadRow
<1>10. ASSUME NEW c \in Clients, Import(c) PROVE (saved \subseteq shown)'
  BY <1>t, <1>c, <1>10 DEF Import
<1>11. ASSUME NEW c \in Clients, SaveDirectly(c) PROVE (saved \subseteq shown)'
  BY <1>t, <1>c, <1>11 DEF SaveDirectly
<1>12. ASSUME NEW c \in Clients, ReplaceFile(c) PROVE (saved \subseteq shown)'
  BY <1>t, <1>c, <1>12 DEF ReplaceFile, Saves
<1>13. ASSUME NEW c \in Clients, Project(c) PROVE (saved \subseteq shown)'
  BY <1>t, <1>c, <1>13 DEF Project, Saves
<1>14. ASSUME NEW c \in Clients, Commit(c) PROVE (saved \subseteq shown)'
  BY <1>t, <1>c, <1>14 DEF Commit
<1> QED BY <1>0, <1>1, <1>2, <1>3, <1>4, <1>5, <1>6, <1>7, <1>8, <1>9, <1>10, <1>11, <1>12, <1>13,
       <1>14 DEF StoreNext, Reads, Writes

LEMMA StoreInvInit == StoreInit => StoreInv
<1> SUFFICES ASSUME StoreInit PROVE StoreInv
  OBVIOUS
<1>1. /\ shown = {} /\ row = NoRow /\ txRow = NoRow /\ txn = NoRow
      /\ clientAt = [c \in Clients |-> "idle"] /\ held = [c \in Clients |-> NoRow]
      /\ pending = [c \in Clients |-> NoRow] /\ mine = [c \in Clients |-> {}]
      /\ met = [c \in Clients |-> FALSE]
      /\ edits = 0 /\ saved = {} /\ undone = {} /\ breaks = 0
  BY DEF StoreInit
<1>2. NoRow \notin Clients /\ MaxEdits \in Nat /\ MaxBreaks \in Nat
  BY StoreAssumption
<1>3. StoreTypeOK
  BY <1>1, <1>2 DEF StoreTypeOK
<1>4. \A c \in Clients : ClientHas(c)
  BY <1>1, <1>2 DEF ClientHas, Changing
<1>5. UnmetIsAlone
  BY <1>1 DEF UnmetIsAlone, Changing
<1>6. Unseen
  BY <1>1 DEF Unseen, Within
<1> QED BY <1>1, <1>3, <1>4, <1>5, <1>6 DEF StoreInv

LEMMA StoreInvStep == StoreInv /\ (StoreNext \/ UNCHANGED storeVars) => StoreInv'
<1> SUFFICES ASSUME StoreInv, StoreNext \/ UNCHANGED storeVars PROVE StoreInv'
  OBVIOUS
<1>1. StoreTypeOK'
  BY StoreTypeStep DEF StoreInv
<1> QED BY <1>1, ClientsStep, MeetingStep, UnseenStep, SavedStep DEF StoreInv

\* The store: an edit whose save finished is in the manifest that is served
\* unless its operation overlapped one the database does not exclude, what a
\* transaction gave up is in neither record, and a client reads its own edits
\* (SqliteStore._resolved_document and transaction).
THEOREM ServesWhatWasSavedHolds == ServicesSpec => []ServesWhatWasSaved
<1>1. ServicesInit => StoreInv
  BY StoreInvInit DEF ServicesInit
<1>2. StoreInv /\ [ServicesNext]_servicesVars => StoreInv'
  BY PartSteps, StoreInvStep
<1>3. StoreInv => ServesWhatWasSaved
  BY DEF StoreInv, ClientHas, Unseen, Hidden, Within, ServesWhatWasSaved
<1> QED BY <1>1, <1>2, <1>3, PTL DEF ServicesSpec
-----------------------------------------------------------------------------
\* The audit chain.

\* Every line up to i is whole but for its newline.
Readable(i) == \A j \in 1 .. i : Parses(chain[j])

Written(l) == \E i \in 1 .. Len(chain) : chain[i] = l

AuditTyped ==
    /\ chain \in Seq(Line) /\ made \in Nat /\ faults \in Nat /\ torn \in BOOLEAN
    /\ flock \subseteq Writers
    /\ writerAt \in [Writers -> {"idle", "lock", "read", "write"}]
    /\ from \in [Writers -> Line \cup {NoLine}]
    /\ anchor \in Line \cup {NoLine}
    /\ anchorAt \in [Anchorers -> {"idle", "head", "append"}]
    /\ head \in [Anchorers -> Line \cup {NoLine}]

\* The flock keeps the tail a writer has read the tail it appends to.
TailIsRead ==
    \A w \in Writers :
        /\ writerAt[w] \in {"read", "write"} => flock = {w}
        /\ writerAt[w] = "write" => from[w] = LastRecord(chain)

\* A line that nothing damaged comes before follows the one before it.
Chained == \A i \in 1 .. Len(chain) : Readable(i) => FollowsUp(i)

\* Without a short write every line is whole, and without a fault at all what
\* was anchored, or is to be, is in the stream.
Undamaged == ~torn => \A i \in 1 .. Len(chain) : chain[i].form = "whole"

Anchored ==
    faults = 0 =>
        /\ ~torn
        /\ anchor # NoLine => Written(anchor)
        /\ \A a \in Anchorers : anchorAt[a] = "append" => head[a] # NoLine /\ Written(head[a])

AuditInv == AuditTyped /\ TailIsRead /\ Chained /\ Undamaged /\ Anchored

\* What a writer appends to is a stream that ends in a line of its own or in one
\* it joins, and the lines before are as they were.
LEMMA AppendsLine ==
    ASSUME chain \in Seq(Line), NEW line \in Line, chain' = Appended(line)
    PROVE  /\ chain' \in Seq(Line)
           /\ \/ /\ chain # << >> /\ Last(chain).form \in {"unended", "cut"}
                 /\ Len(chain') = Len(chain) /\ Len(chain') > 0
                 /\ \A i \in 1 .. Len(chain') - 1 : chain'[i] = chain[i]
                 /\ chain'[Len(chain')].form \in {"glued", "cut"}
              \/ /\ ~(chain # << >> /\ Last(chain).form \in {"unended", "cut"})
                 /\ Len(chain') = Len(chain) + 1
                 /\ \A i \in 1 .. Len(chain) : chain'[i] = chain[i]
                 /\ chain'[Len(chain')] = line
<1>1. CASE chain # << >> /\ Last(chain).form \in {"unended", "cut"}
  <2>1. Len(chain) \in Nat /\ Len(chain) > 0 /\ Len(chain) \in DOMAIN chain
    BY <1>1
  <2>2. PICK f \in {"glued", "cut"} : chain' = [chain EXCEPT ![Len(chain)].form = f]
    BY <1>1 DEF Appended
  <2>3. [chain[Len(chain)] EXCEPT !.form = f] \in Line
    <3>1. chain[Len(chain)] \in Line
      BY <2>1
    <3> QED BY <3>1 DEF Line
  <2>4. chain' = [chain EXCEPT ![Len(chain)] = [chain[Len(chain)] EXCEPT !.form = f]]
    BY <2>2
  <2>5. /\ chain' \in Seq(Line) /\ Len(chain') = Len(chain)
        /\ \A i \in 1 .. Len(chain') - 1 : chain'[i] = chain[i]
    BY <2>1, <2>3, <2>4
  <2>6. chain'[Len(chain')].form = f
    BY <2>1, <2>3, <2>4, <2>5 DEF Line
  <2> QED BY <1>1, <2>1, <2>5, <2>6
<1>2. CASE ~(chain # << >> /\ Last(chain).form \in {"unended", "cut"})
  <2>1. chain' = Append(chain, line)
    BY <1>2 DEF Appended
  <2> QED BY <1>2, <2>1
<1> QED BY <1>1, <1>2

LEMMA TailStep == AuditInv /\ (AuditNext \/ UNCHANGED auditVars) => TailIsRead'
<1> SUFFICES ASSUME AuditInv, AuditNext \/ UNCHANGED auditVars PROVE TailIsRead'
  OBVIOUS
<1>t. /\ writerAt \in [Writers -> {"idle", "lock", "read", "write"}]
      /\ from \in [Writers -> Line \cup {NoLine}]
      /\ TailIsRead
  BY DEF AuditInv, AuditTyped
<1> USE DEF WriterTo, Unlock
<1>1. CASE UNCHANGED auditVars
  BY <1>t, <1>1 DEF auditVars, writeVars, anchorVars, TailIsRead, LastRecord
<1>2. ASSUME NEW w \in Writers, StartAppend(w) \/ LockStream(w) PROVE TailIsRead'
  BY <1>t, <1>2 DEF StartAppend, LockStream, TailIsRead, LastRecord
<1>3. ASSUME NEW w \in Writers, ReadTail(w) PROVE TailIsRead'
  BY <1>t, <1>3 DEF ReadTail, TailIsRead, LastRecord
<1>4. ASSUME NEW w \in Writers, AppendFails(w) PROVE TailIsRead'
  BY <1>t, <1>4 DEF AppendFails, TailIsRead, LastRecord
<1>5. ASSUME NEW w \in Writers, WriteRecord(w) \/ WriteCutShort(w) PROVE TailIsRead'
  <2>1. /\ writerAt[w] = "write" /\ flock = {w} /\ flock' = flock \ {w}
        /\ writerAt' = [writerAt EXCEPT ![w] = "idle"]
    BY <1>t, <1>5 DEF WriteRecord, WriteCutShort, TailIsRead
  <2>2. \A x \in Writers : writerAt'[x] \notin {"read", "write"}
    BY <1>t, <2>1 DEF TailIsRead
  <2> QED BY <2>2 DEF TailIsRead
<1>6. ASSUME NEW a \in Anchorers, ReadAnchors(a) \/ ReadHead(a) \/ AppendAnchor(a)
      PROVE  TailIsRead'
  BY <1>t, <1>6 DEF ReadAnchors, ReadHead, AppendAnchor, writeVars, TailIsRead, LastRecord
<1>7. CASE PowerLoss
  BY <1>7 DEF PowerLoss, TailIsRead
<1> QED BY <1>1, <1>2, <1>3, <1>4, <1>5, <1>6, <1>7 DEF AuditNext

\* What an append writes.
LEMMA WritesRecord ==
    ASSUME AuditInv, NEW w \in Writers, WriteRecord(w) \/ WriteCutShort(w)
    PROVE  /\ \E form \in {"whole", "unended", "cut"} :
                 /\ chain' = Appended(Record(w, form)) /\ Record(w, form) \in Line
                 /\ \/ form = "whole" /\ UNCHANGED <<faults, torn>>
                    \/ torn' /\ torn' \in BOOLEAN /\ faults' = faults + 1
           /\ from[w] = LastRecord(chain)
           /\ UNCHANGED anchorVars
<1>1. from[w] = LastRecord(chain) /\ from[w] \in Line \cup {NoLine} /\ made \in Nat
  BY DEF WriteRecord, WriteCutShort, AuditInv, AuditTyped, TailIsRead
<1>2. \A form \in {"whole", "unended", "cut"} : Record(w, form) \in Line
  BY <1>1 DEF Record, Line
<1> QED BY <1>1, <1>2 DEF WriteRecord, WriteCutShort, Unlock

LEMMA ChainStep ==
    AuditInv /\ (AuditNext \/ UNCHANGED auditVars)
        => chain' \in Seq(Line) /\ Chained' /\ Undamaged' /\ torn' \in BOOLEAN /\ faults' \in Nat
<1> SUFFICES ASSUME AuditInv, AuditNext \/ UNCHANGED auditVars
             PROVE  /\ chain' \in Seq(Line) /\ Chained' /\ Undamaged'
                    /\ torn' \in BOOLEAN /\ faults' \in Nat
  OBVIOUS
<1>t. chain \in Seq(Line) /\ torn \in BOOLEAN /\ faults \in Nat /\ Chained /\ Undamaged
  BY DEF AuditInv, AuditTyped
<1>1. ASSUME UNCHANGED <<chain, torn, faults>>
      PROVE  /\ chain' \in Seq(Line) /\ Chained' /\ Undamaged'
             /\ torn' \in BOOLEAN /\ faults' \in Nat
  BY <1>t, <1>1 DEF Chained, Undamaged, Readable, FollowsUp, Parses
<1>2. ASSUME NEW w \in Writers, WriteRecord(w) \/ WriteCutShort(w)
      PROVE  /\ chain' \in Seq(Line) /\ Chained' /\ Undamaged'
             /\ torn' \in BOOLEAN /\ faults' \in Nat
  <2>1. PICK form \in {"whole", "unended", "cut"} :
            /\ chain' = Appended(Record(w, form)) /\ Record(w, form) \in Line
            /\ \/ form = "whole" /\ UNCHANGED <<faults, torn>>
               \/ torn' /\ torn' \in BOOLEAN /\ faults' = faults + 1
    BY <1>2, WritesRecord
  <2>2. from[w] = LastRecord(chain)
    BY <1>2, WritesRecord
  <2>3. torn' \in BOOLEAN /\ faults' \in Nat
    BY <1>t, <2>1
  <2>4. CASE /\ chain # << >> /\ Last(chain).form \in {"unended", "cut"}
             /\ Len(chain') = Len(chain) /\ Len(chain') > 0
             /\ \A i \in 1 .. Len(chain') - 1 : chain'[i] = chain[i]
             /\ chain'[Len(chain')].form \in {"glued", "cut"}
    <3>1. Len(chain) \in Nat /\ Len(chain) \in 1 .. Len(chain)
      BY <1>t, <2>4
    <3>2. torn'
      BY <1>t, <2>1, <2>4, <3>1 DEF Undamaged, Last
    <3>3. ASSUME NEW i \in 1 .. Len(chain'), Readable(i)' PROVE FollowsUp(i)'
      <4>1. i # Len(chain)
        BY <2>4, <3>1, <3>3 DEF Readable, Parses
      <4>2. \A j \in 1 .. i : chain'[j] = chain[j]
        BY <2>4, <3>1, <4>1
      <4>3. Readable(i) /\ i \in 1 .. Len(chain)
        BY <2>4, <3>1, <3>3, <4>2 DEF Readable, Parses
      <4>4. FollowsUp(i)
        BY <1>t, <4>3 DEF Chained
      <4> QED BY <3>1, <4>2, <4>3, <4>4 DEF FollowsUp, Parses
    <3> QED BY <1>t, <2>1, <2>3, <3>2, <3>3, AppendsLine DEF Chained, Undamaged
  <2>5. CASE /\ ~(chain # << >> /\ Last(chain).form \in {"unended", "cut"})
             /\ Len(chain') = Len(chain) + 1
             /\ \A i \in 1 .. Len(chain) : chain'[i] = chain[i]
             /\ chain'[Len(chain')] = Record(w, form)
    <3>1. Len(chain) \in Nat
      BY <1>t
    <3>2. ASSUME NEW i \in 1 .. Len(chain'), Readable(i)' PROVE FollowsUp(i)'
      <4>1. \A j \in 1 .. Len(chain) : j <= i => Parses(chain[j])
        BY <2>5, <3>1, <3>2 DEF Readable, Parses
      <4>2. CASE i <= Len(chain)
        <5>1. Readable(i) /\ i \in 1 .. Len(chain)
          BY <3>1, <4>1, <4>2 DEF Readable
        <5>2. FollowsUp(i)
          BY <1>t, <5>1 DEF Chained
        <5> QED BY <2>5, <3>1, <5>1, <5>2 DEF FollowsUp, Parses
      <4>3. CASE i = Len(chain) + 1
        <5>1. chain'[i] = Record(w, form) /\ Parses(chain'[i])
          BY <2>5, <3>1, <3>2, <4>3 DEF Readable
        <5>2. CASE chain = << >>
          <6>1. from[w] = NoLine /\ i = 1
            BY <2>2, <4>3, <5>2 DEF LastRecord
          <6> QED BY <5>1, <6>1 DEF FollowsUp, Parses, Record
        <5>3. CASE chain # << >>
          <6>1. Len(chain) \in 1 .. Len(chain) /\ chain[Len(chain)] \in Line
            BY <1>t, <5>3
          <6>2. Readable(Len(chain)) /\ Parses(chain[Len(chain)])
            BY <3>1, <4>1, <4>3, <6>1 DEF Readable
          <6>3. from[w] = chain[Len(chain)] /\ from[w] # NoLine
            BY <2>2, <5>3, <6>1, <6>2, AuditAssumption DEF LastRecord, Last
          <6>4. chain[Len(chain)].seq = Len(chain) - 1
            BY <1>t, <6>1, <6>2 DEF Chained, FollowsUp
          <6>5. chain'[i].seq = Len(chain) /\ chain'[i].prev = chain[Len(chain)].hash
            BY <3>1, <5>1, <6>3, <6>4 DEF Record
          <6>6. chain'[i - 1] = chain[Len(chain)] /\ i # 1
            BY <2>5, <3>1, <4>3, <6>1
          <6> QED BY <3>1, <4>3, <5>1, <6>5, <6>6 DEF FollowsUp
        <5> QED BY <5>2, <5>3
      <4> QED BY <2>5, <3>1, <4>2, <4>3
    <3>3. Undamaged'
      <4> SUFFICES ASSUME ~torn', NEW i \in 1 .. Len(chain') PROVE chain'[i].form = "whole"
        BY DEF Undamaged
      <4>1. form = "whole" /\ ~torn
        BY <2>1
      <4>2. CASE i \in 1 .. Len(chain)
        BY <1>t, <2>5, <4>1, <4>2 DEF Undamaged
      <4>3. CASE i = Len(chain')
        BY <2>5, <4>1, <4>3 DEF Record
      <4> QED BY <2>5, <3>1, <4>2, <4>3
    <3> QED BY <1>t, <2>1, <2>3, <3>2, <3>3, AppendsLine DEF Chained
  <2>6. Record(w, form) \in Line /\ chain' = Appended(Record(w, form))
    BY <2>1
  <2> QED BY <1>t, <2>4, <2>5, <2>6, AppendsLine
<1>3. CASE PowerLoss
  <2>1. faults' \in Nat
    BY <1>t, <1>3 DEF PowerLoss
  <2>2. PICK n \in 0 .. Len(chain) :
            \/ chain' = SubSeq(chain, 1, n) /\ UNCHANGED torn
            \/ n > 0 /\ chain' = [SubSeq(chain, 1, n) EXCEPT ![n].form = "cut"] /\ torn' = TRUE
    BY <1>3 DEF PowerLoss
  <2> DEFINE rest == SubSeq(chain, 1, n)
  <2>3. /\ rest \in Seq(Line) /\ Len(rest) = n
        /\ \A i \in 1 .. n : rest[i] = chain[i]
    <3>1. Len(chain) \in Nat /\ n \in Nat /\ n <= Len(chain) /\ \A i \in 1 .. n : chain[i] \in Line
      BY <1>t
    <3>2. rest \in Seq(Line)
      BY <3>1, SubSeqProperties
    <3>3. Len(rest) = IF 1 <= n THEN n - 1 + 1 ELSE 0
      BY <3>1, SubSeqProperties
    <3>4. \A i \in 1 .. n - 1 + 1 : rest[i] = chain[1 + i - 1]
      BY <3>1, SubSeqProperties
    <3>5. \A i \in 1 .. n : i \in 1 .. n - 1 + 1 /\ 1 + i - 1 = i
      BY <3>1
    <3> QED BY <3>1, <3>2, <3>3, <3>4, <3>5
  <2> HIDE DEF rest
  <2>n. n \in Nat /\ Len(chain) \in Nat /\ n <= Len(chain)
    BY <1>t
  <2>4. CASE chain' = rest /\ UNCHANGED torn
    <3>1. ASSUME NEW i \in 1 .. Len(chain'), Readable(i)' PROVE FollowsUp(i)'
      <4>1. \A j \in 1 .. i : chain'[j] = chain[j]
        BY <2>n, <2>3, <2>4
      <4>2. Readable(i) /\ i \in 1 .. Len(chain)
        BY <2>n, <2>3, <2>4, <3>1, <4>1 DEF Readable, Parses
      <4>3. FollowsUp(i)
        BY <1>t, <4>2 DEF Chained
      <4> QED BY <2>n, <4>1, <4>2, <4>3 DEF FollowsUp, Parses
    <3>2. Undamaged'
      BY <1>t, <2>n, <2>3, <2>4 DEF Undamaged
    <3> QED BY <1>t, <2>1, <2>3, <2>4, <3>1, <3>2 DEF Chained
  <2>5. CASE n > 0 /\ chain' = [rest EXCEPT ![n].form = "cut"] /\ torn' = TRUE
    <3>1. n \in 1 .. Len(rest) /\ rest[n] \in Line
      BY <2>n, <2>3, <2>5
    <3>2. [rest[n] EXCEPT !.form = "cut"] \in Line
      BY <3>1 DEF Line
    <3>3. chain' = [rest EXCEPT ![n] = [rest[n] EXCEPT !.form = "cut"]]
      BY <2>5
    <3>4. chain' \in Seq(Line) /\ Len(chain') = n /\ \A i \in 1 .. n - 1 : chain'[i] = chain[i]
      BY <2>n, <2>3, <3>1, <3>2, <3>3
    <3>5. chain'[n].form = "cut"
      BY <2>3, <3>1, <3>2, <3>3 DEF Line
    <3>6. ASSUME NEW i \in 1 .. Len(chain'), Readable(i)' PROVE FollowsUp(i)'
      <4>1. i # n
        BY <2>n, <3>4, <3>5, <3>6 DEF Readable, Parses
      <4>2. \A j \in 1 .. i : chain'[j] = chain[j]
        BY <2>n, <3>4, <4>1
      <4>3. Readable(i) /\ i \in 1 .. Len(chain)
        BY <2>n, <3>4, <3>6, <4>2 DEF Readable, Parses
      <4>4. FollowsUp(i)
        BY <1>t, <4>3 DEF Chained
      <4> QED BY <2>n, <4>2, <4>3, <4>4 DEF FollowsUp, Parses
    <3> QED BY <2>1, <2>5, <3>4, <3>6 DEF Chained, Undamaged
  <2> QED BY <2>2, <2>4, <2>5 DEF rest
<1>4. ASSUME NEW w \in Writers, StartAppend(w) \/ LockStream(w) \/ ReadTail(w) \/ AppendFails(w)
      PROVE  UNCHANGED <<chain, torn, faults>>
  BY <1>4 DEF StartAppend, LockStream, ReadTail, AppendFails
<1>5. ASSUME NEW a \in Anchorers, ReadAnchors(a) \/ ReadHead(a) \/ AppendAnchor(a)
      PROVE  UNCHANGED <<chain, torn, faults>>
  BY <1>5 DEF ReadAnchors, ReadHead, AppendAnchor
<1>6. CASE UNCHANGED auditVars
  BY <1>1, <1>6 DEF auditVars
<1> QED BY <1>1, <1>2, <1>3, <1>4, <1>5, <1>6 DEF AuditNext

\* Without a fault what is written stays.
LEMMA WrittenStays ==
    ASSUME AuditInv, AuditNext \/ UNCHANGED auditVars, faults' = 0
    PROVE  faults = 0 /\ ~torn /\ ~torn' /\ \A l : Written(l) => Written(l)'
<1>t. chain \in Seq(Line) /\ faults \in Nat
  BY DEF AuditInv, AuditTyped
<1>1. ASSUME UNCHANGED <<chain, faults, torn>>
      PROVE  faults = 0 /\ ~torn /\ ~torn' /\ \A l : Written(l) => Written(l)'
  BY <1>1 DEF AuditInv, Anchored, Written
<1>2. ASSUME NEW w \in Writers, WriteRecord(w) \/ WriteCutShort(w)
      PROVE  faults = 0 /\ ~torn /\ ~torn' /\ \A l : Written(l) => Written(l)'
  <2>1. PICK form \in {"whole", "unended", "cut"} :
            /\ chain' = Appended(Record(w, form)) /\ Record(w, form) \in Line
            /\ \/ form = "whole" /\ UNCHANGED <<faults, torn>>
               \/ torn' /\ torn' \in BOOLEAN /\ faults' = faults + 1
    BY <1>2, WritesRecord
  <2>2. faults = 0 /\ UNCHANGED torn
    BY <1>t, <2>1
  <2>3. ~torn /\ \A i \in 1 .. Len(chain) : chain[i].form = "whole"
    BY <2>2 DEF AuditInv, Anchored, Undamaged
  <2>4. ~(chain # << >> /\ Last(chain).form \in {"unended", "cut"})
    BY <1>t, <2>3 DEF Last
  <2>5. Len(chain') = Len(chain) + 1 /\ \A i \in 1 .. Len(chain) : chain'[i] = chain[i]
    BY <1>t, <2>1, <2>4, AppendsLine
  <2> QED BY <1>t, <2>2, <2>3, <2>5 DEF Written
<1>3. ASSUME NEW w \in Writers, StartAppend(w) \/ LockStream(w) \/ ReadTail(w) \/ AppendFails(w)
      PROVE  UNCHANGED <<chain, faults, torn>>
  BY <1>3 DEF StartAppend, LockStream, ReadTail, AppendFails
<1>4. ASSUME NEW a \in Anchorers, ReadAnchors(a) \/ ReadHead(a) \/ AppendAnchor(a)
      PROVE  UNCHANGED <<chain, faults, torn>>
  BY <1>4 DEF ReadAnchors, ReadHead, AppendAnchor
<1>5. CASE UNCHANGED auditVars
  BY <1>1, <1>5 DEF auditVars
<1>6. CASE PowerLoss
  BY <1>t, <1>6 DEF PowerLoss
<1> QED BY <1>1, <1>2, <1>3, <1>4, <1>5, <1>6 DEF AuditNext

LEMMA AnchoredStep == AuditInv /\ (AuditNext \/ UNCHANGED auditVars) => Anchored'
<1> SUFFICES ASSUME AuditInv, AuditNext \/ UNCHANGED auditVars, faults' = 0
             PROVE  /\ ~torn'
                    /\ anchor' # NoLine => Written(anchor)'
                    /\ \A a \in Anchorers :
                           anchorAt'[a] = "append" => head'[a] # NoLine /\ Written(head[a])'
  BY DEF Anchored
<1>w. faults = 0 /\ ~torn' /\ \A l : Written(l) => Written(l)'
  BY WrittenStays
<1>t. /\ chain \in Seq(Line)
      /\ anchorAt \in [Anchorers -> {"idle", "head", "append"}]
      /\ head \in [Anchorers -> Line \cup {NoLine}]
      /\ anchor # NoLine => Written(anchor)
      /\ \A a \in Anchorers : anchorAt[a] = "append" => head[a] # NoLine /\ Written(head[a])
  BY <1>w DEF AuditInv, AuditTyped, Anchored
<1>1. ASSUME UNCHANGED anchorVars
      PROVE  /\ anchor' # NoLine => Written(anchor)'
             /\ \A a \in Anchorers :
                    anchorAt'[a] = "append" => head'[a] # NoLine /\ Written(head[a])'
  BY <1>t, <1>w, <1>1 DEF anchorVars, Written
<1>2. ASSUME NEW b \in Anchorers, ReadAnchors(b) \/ ReadHead(b) \/ AppendAnchor(b)
      PROVE  /\ anchor' # NoLine => Written(anchor)'
             /\ \A a \in Anchorers :
                    anchorAt'[a] = "append" => head'[a] # NoLine /\ Written(head[a])'
  <2>1. chain' = chain
    BY <1>2 DEF ReadAnchors, ReadHead, AppendAnchor
  <2>2. CASE ReadAnchors(b)
    BY <1>t, <2>1, <2>2 DEF ReadAnchors, AnchorTo, Written
  <2>3. CASE AppendAnchor(b)
    BY <1>t, <2>1, <2>3 DEF AppendAnchor, AnchorTo, Written
  <2>4. CASE ReadHead(b)
    <3>1. LastRecord(chain) # NoLine => Written(LastRecord(chain))
      BY <1>t DEF LastRecord, Last, Written
    <3>2. \/ /\ LastRecord(chain) # NoLine
             /\ head' = [head EXCEPT ![b] = LastRecord(chain)]
             /\ anchorAt' = [anchorAt EXCEPT ![b] = "append"]
          \/ UNCHANGED head /\ anchorAt' = [anchorAt EXCEPT ![b] = "idle"]
      BY <2>4 DEF ReadHead, AnchorTo
    <3>3. anchor' = anchor
      BY <2>4 DEF ReadHead
    <3>4. \A l : Written(l)' <=> Written(l)
      BY <2>1 DEF Written
    <3>5. anchor' # NoLine => Written(anchor)'
      BY <1>t, <3>3, <2>1 DEF Written
    <3>6. ASSUME NEW a \in Anchorers, anchorAt'[a] = "append"
          PROVE  head'[a] # NoLine /\ Written(head[a])'
      <4>1. head'[a] # NoLine /\ Written(head'[a])
        BY <1>t, <3>1, <3>2, <3>6
      <4> QED BY <2>1, <4>1 DEF Written
    <3> QED BY <3>5, <3>6
  <2> QED BY <1>2, <2>2, <2>3, <2>4
<1>3. ASSUME NEW w \in Writers,
             \/ StartAppend(w) \/ LockStream(w) \/ ReadTail(w)
             \/ WriteRecord(w) \/ WriteCutShort(w) \/ AppendFails(w)
      PROVE  UNCHANGED anchorVars
  BY <1>3 DEF StartAppend, LockStream, ReadTail, WriteRecord, WriteCutShort, AppendFails, Unlock
<1>4. ~PowerLoss
  <2>1. faults \in Nat
    BY DEF AuditInv, AuditTyped
  <2> QED BY <2>1 DEF PowerLoss
<1>5. CASE UNCHANGED auditVars
  BY <1>w, <1>1, <1>5 DEF auditVars
<1> QED BY <1>w, <1>1, <1>2, <1>3, <1>4, <1>5 DEF AuditNext

LEMMA AuditInvStep == AuditInv /\ (AuditNext \/ UNCHANGED auditVars) => AuditInv'
<1> SUFFICES ASSUME AuditInv, AuditNext \/ UNCHANGED auditVars PROVE AuditInv'
  OBVIOUS
<1>1. /\ chain' \in Seq(Line) /\ torn' \in BOOLEAN /\ faults' \in Nat
      /\ Chained' /\ Undamaged' /\ TailIsRead' /\ Anchored'
  BY ChainStep, TailStep, AnchoredStep
<1>t. /\ made \in Nat /\ flock \subseteq Writers
      /\ writerAt \in [Writers -> {"idle", "lock", "read", "write"}]
      /\ from \in [Writers -> Line \cup {NoLine}]
      /\ anchor \in Line \cup {NoLine}
      /\ anchorAt \in [Anchorers -> {"idle", "head", "append"}]
      /\ head \in [Anchorers -> Line \cup {NoLine}]
  BY DEF AuditInv, AuditTyped
<1> DEFINE typed ==
      /\ made \in Nat /\ flock \subseteq Writers
      /\ writerAt \in [Writers -> {"idle", "lock", "read", "write"}]
      /\ from \in [Writers -> Line \cup {NoLine}]
      /\ anchor \in Line \cup {NoLine}
      /\ anchorAt \in [Anchorers -> {"idle", "head", "append"}]
      /\ head \in [Anchorers -> Line \cup {NoLine}]
<1>r. LastRecord(chain) \in Line \cup {NoLine}
  <2>1. chain \in Seq(Line)
    BY DEF AuditInv, AuditTyped
  <2>2. chain # << >> => Last(chain) \in Line
    BY <2>1 DEF Last
  <2> QED BY <2>2 DEF LastRecord
<1>2. ASSUME UNCHANGED auditVars PROVE typed'
  BY <1>t, <1>2 DEF auditVars, writeVars, anchorVars
<1>3. ASSUME NEW w \in Writers, StartAppend(w) \/ LockStream(w) \/ ReadTail(w) PROVE typed'
  BY <1>t, <1>r, <1>3 DEF StartAppend, LockStream, ReadTail, WriterTo, anchorVars
<1>4. ASSUME NEW w \in Writers, WriteRecord(w) \/ WriteCutShort(w) \/ AppendFails(w)
      PROVE  typed'
  BY <1>t, <1>4 DEF WriteRecord, WriteCutShort, AppendFails, Unlock, WriterTo, anchorVars
<1>5. ASSUME NEW a \in Anchorers, ReadAnchors(a) \/ ReadHead(a) \/ AppendAnchor(a)
      PROVE  typed'
  BY <1>t, <1>r, <1>5 DEF ReadAnchors, ReadHead, AppendAnchor, AnchorTo, writeVars
<1>6. ASSUME PowerLoss PROVE typed'
  BY <1>t, <1>6 DEF PowerLoss
<1>7. typed'
  BY <1>2, <1>3, <1>4, <1>5, <1>6 DEF AuditNext
<1> QED BY <1>1, <1>7 DEF AuditInv, AuditTyped

\* A set of numbers that is not empty has a least one.
LEMMA HasMin ==
    ASSUME NEW S, S \subseteq Nat, S # {}
    PROVE  Min(S) \in S /\ \A y \in S : Min(S) <= y
<1>1. \E x \in S : \A y \in S : ~(<<y, x>> \in OpToRel(<, Nat))
  BY NatLessThanWellFounded, WFMin
<1>2. \E x \in S : \A y \in S : x <= y
  <2>1. \A x, y \in Nat : y < x => <<y, x>> \in OpToRel(<, Nat)
    BY DEF OpToRel
  <2>2. PICK x \in S : \A y \in S : ~(<<y, x>> \in OpToRel(<, Nat))
    BY <1>1
  <2>3. \A y \in S : x <= y
    <3> TAKE y \in S
    <3>1. x \in Nat /\ y \in Nat
      OBVIOUS
    <3>2. ~(y < x)
      BY <2>1, <2>2, <3>1
    <3> QED BY <3>1, <3>2
  <2> QED BY <2>3
<1> QED BY <1>2 DEF Min

LEMMA EvidenceFollows == AuditInv => EvidenceIsTrue
<1> SUFFICES ASSUME AuditInv PROVE EvidenceIsTrue
  OBVIOUS
<1>t. /\ chain \in Seq(Line) /\ Len(chain) \in Nat /\ Chained /\ Undamaged /\ Anchored
      /\ anchor \in Line \cup {NoLine}
  BY DEF AuditInv, AuditTyped
<1> DEFINE damaged == {i \in 1 .. Len(chain) : ~Parses(chain[i])}
           broken == {i \in 1 .. Len(chain) : ~FollowsUp(i)}
<1>1. damaged \subseteq broken
  BY DEF FollowsUp
<1>2. \A i \in broken : \E j \in damaged : j <= i
  BY <1>t DEF Chained, Readable
<1>3. FirstBroken = IF damaged = {} THEN 0 ELSE Min(damaged)
  <2>1. FirstBroken = IF broken = {} THEN 0 ELSE Min(broken)
    BY DEF FirstBroken
  <2>2. damaged \subseteq Nat /\ broken \subseteq Nat
    BY <1>t
  <2> HIDE DEF damaged, broken
  <2>3. CASE damaged = {}
    BY <1>2, <2>1, <2>3
  <2>4. CASE damaged # {}
    <3>1. broken # {}
      BY <1>1, <2>4
    <3>2. Min(damaged) \in damaged /\ \A y \in damaged : Min(damaged) <= y
      BY <2>2, <2>4, HasMin
    <3>3. Min(broken) \in broken /\ \A y \in broken : Min(broken) <= y
      BY <2>2, <3>1, HasMin
    <3>4. Min(broken) <= Min(damaged)
      BY <1>1, <3>2, <3>3
    <3>5. Min(damaged) <= Min(broken)
      <4>1. PICK j \in damaged : j <= Min(broken)
        BY <1>2, <3>3
      <4>2. Min(damaged) <= j
        BY <3>2, <4>1
      <4>3. j \in Nat /\ Min(damaged) \in Nat /\ Min(broken) \in Nat
        BY <2>2, <3>2, <3>3
      <4> QED BY <4>1, <4>2, <4>3
    <3>6. Min(broken) = Min(damaged)
      <4>1. Min(damaged) \in Nat /\ Min(broken) \in Nat
        BY <2>2, <3>2, <3>3
      <4> QED BY <3>4, <3>5, <4>1
    <3> QED BY <2>1, <2>4, <3>1, <3>6
  <2> QED BY <2>3, <2>4
<1>4. ~torn => damaged = {}
  BY <1>t DEF Undamaged, Parses
<1>5. faults = 0 => AnchorVerdict = "none"
  <2> SUFFICES ASSUME faults = 0 PROVE AnchorVerdict = "none"
    OBVIOUS
  <2> DEFINE at == {i \in 1 .. Len(chain) : Parses(chain[i]) /\ chain[i].seq = anchor.seq}
  <2>1. CASE anchor = NoLine
    BY <2>1 DEF AnchorVerdict
  <2>2. CASE anchor # NoLine
    <3>1. \A i \in 1 .. Len(chain) : Parses(chain[i]) /\ chain[i].seq = i - 1
      BY <1>t, <1>4 DEF Anchored, Chained, Readable, FollowsUp
    <3>2. PICK k \in 1 .. Len(chain) : chain[k] = anchor
      BY <1>t, <2>2 DEF Anchored, Written
    <3>3. at = {k}
      BY <1>t, <3>1, <3>2
    <3>4. at \subseteq Nat /\ at # {}
      BY <1>t, <3>3
    <3>5. Min(at) = k
      <4> HIDE DEF at
      <4> QED BY <3>3, <3>4, HasMin
    <3>6. AnchorVerdict = IF chain[Min(at)].hash = anchor.hash THEN "none" ELSE "mismatch"
      BY <2>2, <3>4 DEF AnchorVerdict
    <3> QED BY <3>2, <3>5, <3>6
  <2> QED BY <2>1, <2>2
<1> QED BY <1>3, <1>4, <1>5 DEF EvidenceIsTrue

LEMMA AuditInvInit == AuditInit => AuditInv
<1> SUFFICES ASSUME AuditInit PROVE AuditInv
  OBVIOUS
<1>1. chain = << >> /\ Len(chain) = 0
  BY DEF AuditInit
<1>2. AuditTyped
  <2>1. chain \in Seq(Line) /\ made \in Nat /\ faults \in Nat /\ flock \subseteq Writers
    BY <1>1 DEF AuditInit
  <2>2. torn \in BOOLEAN
    BY DEF AuditInit
  <2>3. /\ writerAt \in [Writers -> {"idle", "lock", "read", "write"}]
        /\ from \in [Writers -> Line \cup {NoLine}]
        /\ anchor \in Line \cup {NoLine}
        /\ anchorAt \in [Anchorers -> {"idle", "head", "append"}]
        /\ head \in [Anchorers -> Line \cup {NoLine}]
    BY DEF AuditInit
  <2> QED BY <2>1, <2>2, <2>3 DEF AuditTyped
<1>3. TailIsRead /\ Anchored
  BY DEF AuditInit, TailIsRead, Anchored
<1>4. Chained /\ Undamaged
  BY <1>1 DEF Chained, Undamaged
<1> QED BY <1>2, <1>3, <1>4 DEF AuditInv

\* The audit chain: verification points at the first line that a write cut short
\* has damaged and at nothing else, and an anchor accuses a stream only after such
\* a write or a loss of power (AuditTrail.append, verify_chain and the anchor
\* pass), however many writers and anchor passes there are.
THEOREM EvidenceIsTrueHolds == ServicesSpec => []EvidenceIsTrue
<1>1. ServicesInit => AuditInv
  BY AuditInvInit DEF ServicesInit
<1>2. AuditInv /\ [ServicesNext]_servicesVars => AuditInv'
  BY PartSteps, AuditInvStep
<1>3. AuditInv => EvidenceIsTrue
  BY EvidenceFollows
<1> QED BY <1>1, <1>2, <1>3, PTL DEF ServicesSpec
-----------------------------------------------------------------------------
\* The detached grades.

Verdicts == [of : Graded, round : Nat]
GradeRecords == [status : {"todo", "in_progress", "interrupted", "tests_passed", "failed"},
            agent : Nat, grading : DOMAIN wrappers \cup {NoGrade}]
Siblings(s) == {x \in Graded : PlanOf[x] = PlanOf[s]}

\* The grade i measures round n of s, or has measured it and its result stands.
Measures(i, s, n) ==
    IF Live(i) THEN wrappers[i] = [of |-> s, round |-> n]
    ELSE result[KeyOf[s]] = [of |-> s, round |-> n]

GradeTyped ==
    /\ manifest \in [Graded -> GradeRecords] /\ work \in [Graded -> Nat]
    /\ wrappers \in Seq(Verdicts \cup {NoGrade})
    /\ result \in [{KeyOf[s] : s \in Graded} -> Verdicts \cup {NoGrade}]
    /\ DOMAIN pollAt = Callers
    /\ excused \subseteq Graded
    /\ basis \in [Graded -> Verdicts \cup {NoGrade}]

\* What the manifest records of a story is of its present work, and a grade is
\* recorded only while the story is in progress.
RecordTrue(s) ==
    s \notin excused =>
        /\ manifest[s].agent = work[s]
        /\ manifest[s].grading # NoGrade =>
            /\ manifest[s].status = "in_progress"
            /\ Measures(manifest[s].grading, s, work[s])

\* What a poll has read is a story in progress with no grade; the grade it has
\* started, or the verdict it holds, is of the work it has read.
PollTrue(a) ==
    pollAt[a] # Idle =>
        LET p == pollAt[a] s == p.story r == p.seen[s] IN
        /\ p.at \in {"started", "graded"} /\ s \in Graded
        /\ p.seen \in [Siblings(s) -> GradeRecords]
        /\ r.status = "in_progress" /\ r.grading = NoGrade
        /\ p.at = "started" =>
            /\ p.grade \in DOMAIN wrappers
            /\ s \notin excused => Measures(p.grade, s, r.agent)
        /\ p.at = "graded" =>
            /\ p.verdict \in Verdicts \cup {NoGrade}
            /\ s \notin excused => p.verdict \in {NoGrade, [of |-> s, round |-> r.agent]}

GradeInv ==
    /\ GradeTyped
    /\ \A s \in Graded : RecordTrue(s) /\ basis[s] \in {NoGrade, [of |-> s, round |-> work[s]]}
    /\ \A a \in Callers : PollTrue(a)

\* The manifest of a plan written back, with s as r.
LEMMA WrittenBack ==
    ASSUME manifest \in [Graded -> GradeRecords], NEW a, NEW s \in Graded, NEW r \in GradeRecords,
           pollAt[a].seen \in [Siblings(s) -> GradeRecords], SavesPlan(a, s, r)
    PROVE  /\ manifest' \in [Graded -> GradeRecords]
           /\ manifest'[s] = r
           /\ \A x \in Graded \ {s} : x \notin excused' => manifest'[x] = manifest[x]
           /\ s \notin excused' => manifest[s] = pollAt[a].seen[s]
           /\ excused \subseteq excused' /\ (excused \subseteq Graded => excused' \subseteq Graded)
<1> DEFINE seen == pollAt[a].seen
<1>1. manifest' = [x \in Graded |->
                     IF x = s THEN r ELSE IF x \in DOMAIN seen THEN seen[x] ELSE manifest[x]]
  BY DEF SavesPlan
<1>2. DOMAIN seen = Siblings(s)
  OBVIOUS
<1>3. s \in Siblings(s) /\ Siblings(s) \subseteq Graded
  BY DEF Siblings
<1>4. excused' = excused \cup {x \in Siblings(s) : manifest[x] # seen[x]}
  BY <1>2 DEF SavesPlan
<1> HIDE DEF seen
<1>5. seen \in [Siblings(s) -> GradeRecords]
  BY DEF seen
<1> QED BY <1>1, <1>2, <1>3, <1>4, <1>5 DEF seen

\* A poll is not at rest where it has work in hand.
LEMMA NotIdle == ASSUME NEW a, pollAt[a].at \in {"started", "graded"} PROVE pollAt[a] # Idle
BY DEF Idle

LEMMA GradeInvStep == GradeInv /\ (GradeNext \/ UNCHANGED gradeVars) => GradeInv'
<1> SUFFICES ASSUME GradeInv, GradeNext \/ UNCHANGED gradeVars PROVE GradeInv'
  OBVIOUS
<1>t. /\ manifest \in [Graded -> GradeRecords] /\ work \in [Graded -> Nat]
      /\ wrappers \in Seq(Verdicts \cup {NoGrade})
      /\ result \in [{KeyOf[s] : s \in Graded} -> Verdicts \cup {NoGrade}]
      /\ DOMAIN pollAt = Callers
      /\ excused \subseteq Graded
      /\ basis \in [Graded -> Verdicts \cup {NoGrade}]
  BY DEF GradeInv, GradeTyped
<1>r. \A s \in Graded : RecordTrue(s) /\ basis[s] \in {NoGrade, [of |-> s, round |-> work[s]]}
  BY DEF GradeInv
<1>p. \A a \in Callers : PollTrue(a)
  BY DEF GradeInv
<1>k. \A s \in Graded : KeyOf[s] \in DOMAIN result
  BY <1>t
<1>0. CASE UNCHANGED gradeVars
  BY <1>t, <1>r, <1>p, <1>0 DEF gradeVars, GradeInv, GradeTyped, RecordTrue, PollTrue, Measures,
                                Live, GradeRecords
<1>1. ASSUME NEW s \in Graded, SendOut(s) PROVE GradeInv'
  <2>1. /\ work' = [work EXCEPT ![s] = @ + 1]
        /\ manifest' = [manifest EXCEPT ![s] = [@ EXCEPT !.status = "in_progress", !.agent = work'[s]]]
        /\ excused' \subseteq excused
        /\ basis' = [basis EXCEPT ![s] = NoGrade]
        /\ UNCHANGED <<hung, wrappers, result, pollAt, kills>>
        /\ manifest[s].status # "in_progress"
    BY <1>t, <1>1 DEF SendOut, GradeRecords
  <2>2. s \notin excused' /\ s \in excused =>
            manifest[s].grading = NoGrade /\ \A a \in Callers : pollAt[a] = Idle
    BY <1>1 DEF SendOut
  <2>3. excused' = excused \/ excused' = excused \ {s}
    BY <1>1 DEF SendOut
  <2>4. GradeTyped'
    <3>1. work' \in [Graded -> Nat] /\ work'[s] \in Nat
      BY <1>t, <2>1
    <3>2. manifest' \in [Graded -> GradeRecords']
      <4>1. manifest[s] \in GradeRecords /\ GradeRecords' = GradeRecords
        BY <1>t, <2>1 DEF GradeRecords
      <4>2. [manifest[s] EXCEPT !.status = "in_progress", !.agent = work'[s]] \in GradeRecords
        BY <3>1, <4>1 DEF GradeRecords
      <4> QED BY <1>t, <2>1, <4>1, <4>2
    <3>3. basis' \in [Graded -> Verdicts \cup {NoGrade}]
      BY <1>t, <2>1
    <3> QED BY <1>t, <2>1, <3>1, <3>2, <3>3 DEF GradeTyped
  <2>5. ASSUME NEW x \in Graded PROVE RecordTrue(x)'
    <3>1. CASE x = s
      <4>1. s \notin excused => manifest[s].grading = NoGrade
        BY <1>r, <2>1 DEF RecordTrue
      <4>2. s \notin excused' => manifest[s].grading = NoGrade
        BY <2>2, <4>1
      <4>3. manifest'[s].grading = manifest[s].grading /\ manifest'[s].agent = work'[s]
        BY <1>t, <2>1 DEF GradeRecords
      <4> QED BY <3>1, <4>2, <4>3 DEF RecordTrue
    <3>2. CASE x # s
      <4>1. manifest'[x] = manifest[x] /\ work'[x] = work[x] /\ (x \in excused' <=> x \in excused)
        BY <1>t, <2>1, <2>3, <3>2
      <4> QED BY <1>r, <2>1, <4>1 DEF RecordTrue, Measures, Live
    <3> QED BY <3>1, <3>2
  <2>6. ASSUME NEW x \in Graded PROVE basis'[x] \in {NoGrade, [of |-> x, round |-> work'[x]]}
    BY <1>t, <1>r, <2>1
  <2>7. ASSUME NEW a \in Callers PROVE PollTrue(a)'
    <3>1. CASE pollAt[a] = Idle
      BY <2>1, <3>1 DEF PollTrue
    <3>2. CASE pollAt[a] # Idle
      <4>1. excused' = excused
        BY <2>2, <2>3, <3>2
      <4> QED BY <1>p, <2>1, <4>1 DEF PollTrue, Measures, Live, GradeRecords
    <3> QED BY <3>1, <3>2
  <2> QED BY <2>4, <2>5, <2>6, <2>7 DEF GradeInv
<1>2. ASSUME NEW s \in Graded, AgentExits(s) PROVE GradeInv'
  BY <1>t, <1>r, <1>p, <1>2 DEF AgentExits, GradeInv, GradeTyped, RecordTrue, PollTrue, Measures,
                                Live, GradeRecords
<1>3. ASSUME NEW s \in Graded, StopStory(s) PROVE GradeInv'
  <2>1. /\ manifest' = [manifest EXCEPT ![s] = [@ EXCEPT !.status = "interrupted"]]
        /\ excused \subseteq excused' /\ excused' \subseteq Graded
        /\ manifest[s].grading # NoGrade => s \in excused'
        /\ UNCHANGED <<work, wrappers, result, pollAt, basis>>
    BY <1>t, <1>3 DEF StopStory
  <2>2. GradeTyped'
    BY <1>t, <2>1 DEF GradeTyped, GradeRecords
  <2>3. ASSUME NEW x \in Graded PROVE RecordTrue(x)'
    <3>1. CASE x = s
      <4>1. manifest'[s].grading = manifest[s].grading /\ manifest'[s].agent = manifest[s].agent
        BY <1>t, <2>1 DEF GradeRecords
      <4> QED BY <1>r, <2>1, <3>1, <4>1 DEF RecordTrue
    <3>2. CASE x # s
      <4>1. manifest'[x] = manifest[x]
        BY <1>t, <2>1, <3>2
      <4> QED BY <1>r, <2>1, <4>1 DEF RecordTrue, Measures, Live
    <3> QED BY <3>1, <3>2
  <2>4. ASSUME NEW a \in Callers PROVE PollTrue(a)'
    BY <1>p, <2>1 DEF PollTrue, Measures, Live, GradeRecords
  <2> QED BY <1>r, <2>1, <2>2, <2>3, <2>4 DEF GradeInv
<1>4. ASSUME NEW i \in DOMAIN wrappers, WrapperEnds(i) PROVE GradeInv'
  <2>1. wrappers[i] # NoGrade /\ wrappers[i] \in Verdicts /\ wrappers[i].of \in Graded
    <3>1. wrappers[i] # NoGrade
      BY <1>4 DEF WrapperEnds, Live
    <3>2. wrappers[i] \in Verdicts
      BY <1>t, <3>1
    <3> QED BY <3>1, <3>2 DEF Verdicts
  <2>2. /\ wrappers' = [wrappers EXCEPT ![i] = NoGrade]
        /\ result' = [result EXCEPT ![KeyOf[wrappers[i].of]] = wrappers[i]]
        /\ excused' = excused \cup Replaced(i)
        /\ UNCHANGED <<manifest, work, pollAt, basis>>
    BY <1>4 DEF WrapperEnds
  <2>3. /\ DOMAIN wrappers' = DOMAIN wrappers
        /\ wrappers' \in Seq(Verdicts \cup {NoGrade})
        /\ wrappers'[i] = NoGrade
        /\ \A j \in DOMAIN wrappers : j # i => wrappers'[j] = wrappers[j]
    BY <1>t, <2>2
  <2>4. /\ result' \in [{KeyOf[s] : s \in Graded} -> Verdicts \cup {NoGrade}]
        /\ result'[KeyOf[wrappers[i].of]] = wrappers[i]
        /\ \A x \in Graded : KeyOf[x] # KeyOf[wrappers[i].of] => result'[KeyOf[x]] = result[KeyOf[x]]
    BY <1>t, <1>k, <2>1, <2>2
  <2>5. ASSUME NEW x \in Graded, NEW j \in DOMAIN wrappers, NEW n, Measures(j, x, n),
               KeyOf[x] = KeyOf[wrappers[i].of] => j = i
        PROVE  Measures(j, x, n)'
    <3>1. CASE j = i
      BY <2>1, <2>3, <2>4, <2>5, <3>1 DEF Measures, Live
    <3>2. CASE j # i
      BY <2>3, <2>4, <2>5, <3>2 DEF Measures, Live
    <3> QED BY <3>1, <3>2
  <2>6. GradeTyped'
    BY <1>t, <2>2, <2>3, <2>4 DEF GradeTyped, Replaced, GradeRecords
  <2>7. ASSUME NEW x \in Graded PROVE RecordTrue(x)'
    <3>1. manifest[x].grading \in DOMAIN wrappers \cup {NoGrade}
      BY <1>t DEF GradeRecords
    <3>2. KeyOf[x] = KeyOf[wrappers[i].of] /\ manifest[x].grading \notin {NoGrade, i}
              => x \in excused'
      BY <2>2 DEF Replaced
    <3>3. x \notin excused' /\ manifest[x].grading # NoGrade
              => Measures(manifest[x].grading, x, work[x])'
      BY <1>r, <2>2, <2>5, <3>1, <3>2 DEF RecordTrue
    <3> QED BY <1>r, <2>2, <3>3 DEF RecordTrue, Measures, Live
  <2>8. ASSUME NEW a \in Callers PROVE PollTrue(a)'
    <3> SUFFICES ASSUME pollAt[a] # Idle PROVE PollTrue(a)'
      BY <2>2 DEF PollTrue
    <3>1. PICK p : p = pollAt[a]
      OBVIOUS
    <3>2. PICK s \in Graded : s = p.story
      BY <1>p, <3>1 DEF PollTrue
    <3>3. p.at = "started" /\ KeyOf[s] = KeyOf[wrappers[i].of] /\ p.grade # i => s \in excused'
      BY <2>2, <3>1, <3>2 DEF Replaced
    <3>4. p.at = "started" /\ s \notin excused' => Measures(p.grade, s, p.seen[s].agent)'
      <4>1. p.at = "started" /\ s \notin excused'
                => p.grade \in DOMAIN wrappers /\ Measures(p.grade, s, p.seen[s].agent)
        BY <1>p, <2>2, <3>1, <3>2 DEF PollTrue
      <4>2. ASSUME p.at = "started", s \notin excused'
            PROVE  Measures(p.grade, s, p.seen[s].agent)'
        BY <2>5, <3>3, <4>1, <4>2
      <4> QED BY <4>2
    <3>5. pollAt'[a] = p /\ excused \subseteq excused'
      BY <2>2, <3>1
    <3> QED BY <1>p, <2>3, <3>1, <3>2, <3>4, <3>5 DEF PollTrue, GradeRecords, Measures, Live
  <2> QED BY <1>r, <2>2, <2>6, <2>7, <2>8 DEF GradeInv
<1>5. ASSUME NEW i \in DOMAIN wrappers, WrapperFails(i) PROVE GradeInv'
  <2>1. wrappers[i] # NoGrade /\ wrappers[i] \in Verdicts /\ wrappers[i].of \in Graded
    <3>1. wrappers[i] # NoGrade
      BY <1>5 DEF WrapperFails, Live
    <3>2. wrappers[i] \in Verdicts
      BY <1>t, <3>1
    <3> QED BY <3>1, <3>2 DEF Verdicts
  <2>2. /\ wrappers' = wrappers \/ wrappers' = [wrappers EXCEPT ![i] = NoGrade]
        /\ excused' = excused \cup {wrappers[i].of}
        /\ UNCHANGED <<manifest, work, result, pollAt, basis>>
    BY <1>5 DEF WrapperFails
  <2>3. /\ DOMAIN wrappers' = DOMAIN wrappers
        /\ wrappers' \in Seq(Verdicts \cup {NoGrade})
        /\ \A j \in DOMAIN wrappers : j # i => wrappers'[j] = wrappers[j]
    <3>1. CASE wrappers' = wrappers
      BY <1>t, <3>1
    <3>2. CASE wrappers' = [wrappers EXCEPT ![i] = NoGrade]
      BY <1>t, <3>2
    <3> QED BY <2>2, <3>1, <3>2
  <2>4. ASSUME NEW x \in Graded, NEW j \in DOMAIN wrappers, NEW n, Measures(j, x, n),
               x # wrappers[i].of
        PROVE  Measures(j, x, n)'
    BY <2>1, <2>2, <2>3, <2>4 DEF Measures, Live
  <2>5. GradeTyped'
    BY <1>t, <2>1, <2>2, <2>3 DEF GradeTyped, GradeRecords
  <2>6. ASSUME NEW x \in Graded PROVE RecordTrue(x)'
    <3>1. manifest[x].grading \in DOMAIN wrappers \cup {NoGrade}
      BY <1>t DEF GradeRecords
    <3>2. x \notin excused' /\ manifest[x].grading # NoGrade
              => Measures(manifest[x].grading, x, work[x])'
      BY <1>r, <2>2, <2>4, <3>1 DEF RecordTrue
    <3> QED BY <1>r, <2>2, <3>2 DEF RecordTrue, Measures, Live
  <2>7. ASSUME NEW a \in Callers PROVE PollTrue(a)'
    <3> SUFFICES ASSUME pollAt[a] # Idle PROVE PollTrue(a)'
      BY <2>2 DEF PollTrue
    <3>1. PICK p : p = pollAt[a]
      OBVIOUS
    <3>2. PICK s \in Graded : s = p.story
      BY <1>p, <3>1 DEF PollTrue
    <3>3. p.at = "started" /\ s \notin excused' => Measures(p.grade, s, p.seen[s].agent)'
      <4>1. p.at = "started" /\ s \notin excused'
                => p.grade \in DOMAIN wrappers /\ Measures(p.grade, s, p.seen[s].agent)
        BY <1>p, <2>2, <3>1, <3>2 DEF PollTrue
      <4>2. ASSUME p.at = "started", s \notin excused'
            PROVE  Measures(p.grade, s, p.seen[s].agent)'
        BY <2>2, <2>4, <4>1, <4>2
      <4> QED BY <4>2
    <3>4. pollAt'[a] = p /\ excused \subseteq excused'
      BY <2>2, <3>1
    <3> QED BY <1>p, <2>3, <3>1, <3>2, <3>3, <3>4 DEF PollTrue, GradeRecords, Measures, Live
  <2> QED BY <1>r, <2>2, <2>5, <2>6, <2>7 DEF GradeInv
\* What a poll that begins has read.
<1>g. ASSUME NEW s \in Graded, NEW a, CanPoll(a, s)
      PROVE  /\ PlanOfIn(s, manifest) \in [Siblings(s) -> GradeRecords]
             /\ s \in Siblings(s) /\ PlanOfIn(s, manifest)[s] = manifest[s]
             /\ manifest[s].status = "in_progress" /\ pollAt[a] = Idle
  BY <1>t, <1>g DEF CanPoll, PlanOfIn, Siblings
<1>6. ASSUME NEW a \in Callers, NEW s \in Graded, StartGrade(a, s) PROVE GradeInv'
  <2> DEFINE new == [of |-> s, round |-> work[s]]
  <2>i. PICK i : i = Len(wrappers')
    OBVIOUS
  <2> DEFINE poll == [at |-> "started", story |-> s, seen |-> PlanOfIn(s, manifest), grade |-> i]
  <2>f. /\ poll.at = "started" /\ poll.story = s /\ poll.seen = PlanOfIn(s, manifest)
        /\ poll.grade = i /\ poll # Idle
    BY DEF Idle
  <2> HIDE DEF poll
  <2>1. /\ CanPoll(a, s) /\ manifest[s].grading = NoGrade
        /\ wrappers' = Append(wrappers, new)
        /\ pollAt' = [pollAt EXCEPT ![a] = poll]
        /\ UNCHANGED <<manifest, work, result, excused, basis>>
    BY <1>6, <2>i DEF StartGrade, poll
  <2>2. new \in Verdicts /\ new # NoGrade
    BY <1>t, GradeAssumption DEF Verdicts
  <2>3. /\ wrappers' \in Seq(Verdicts \cup {NoGrade})
        /\ i \in DOMAIN wrappers' /\ wrappers'[i] = new
        /\ DOMAIN wrappers \subseteq DOMAIN wrappers'
        /\ \A j \in DOMAIN wrappers : wrappers'[j] = wrappers[j]
    <3> HIDE DEF new
    <3> QED BY <1>t, <2>i, <2>1, <2>2
  <2>4. ASSUME NEW x \in Graded, NEW j \in DOMAIN wrappers, NEW n, Measures(j, x, n)
        PROVE  Measures(j, x, n)'
    BY <2>1, <2>3, <2>4 DEF Measures, Live
  <2>5. GradeTyped'
    <3>1. GradeRecords \subseteq GradeRecords'
      BY <2>3 DEF GradeRecords
    <3> QED BY <1>t, <2>1, <2>3, <3>1 DEF GradeTyped
  <2>6. ASSUME NEW x \in Graded PROVE RecordTrue(x)'
    <3>1. manifest[x].grading \in DOMAIN wrappers \cup {NoGrade}
      BY <1>t DEF GradeRecords
    <3>2. x \notin excused' /\ manifest[x].grading # NoGrade
              => Measures(manifest[x].grading, x, work[x])'
      BY <1>r, <2>1, <2>4, <3>1 DEF RecordTrue
    <3> QED BY <1>r, <2>1, <3>2 DEF RecordTrue, Measures, Live
  <2>7. ASSUME NEW b \in Callers PROVE PollTrue(b)'
    <3>0. GradeRecords \subseteq GradeRecords'
      BY <2>3 DEF GradeRecords
    <3>1. CASE b = a
      <4>1. pollAt'[a] = poll
        BY <1>t, <2>1
      <4>2. poll.seen \in [Siblings(s) -> GradeRecords] /\ poll.seen[s] = manifest[s]
            /\ manifest[s].status = "in_progress"
        BY <1>g, <2>1, <2>f
      <4>3. s \notin excused => manifest[s].agent = work[s]
        BY <1>r DEF RecordTrue
      <4>4. wrappers'[i] = [of |-> s, round |-> work[s]] /\ wrappers'[i] # NoGrade
        BY <2>2, <2>3
      <4>5. PICK n : n = manifest[s].agent
        OBVIOUS
      <4>6. s \notin excused' => Measures(i, s, n)'
        BY <2>1, <4>3, <4>4, <4>5 DEF Measures, Live
      <4>7. poll.seen \in [Siblings(s) -> GradeRecords'] /\ poll.seen[s] = manifest[s]
        BY <3>0, <4>2
      <4>8. manifest[s].grading = NoGrade /\ manifest[s].status = "in_progress" /\ i \in DOMAIN wrappers'
        BY <2>1, <2>3, <4>2
      <4>9. PICK q : q = poll
        OBVIOUS
      <4>10. /\ pollAt'[a] = q /\ q # Idle /\ q.at = "started" /\ q.story = s /\ q.grade = i
             /\ q.seen \in [Siblings(s) -> GradeRecords'] /\ q.seen[s] = manifest[s]
        BY <2>f, <4>1, <4>7, <4>9
      <4>11. pollAt'[b] # Idle /\ pollAt'[b].story = s
        BY <3>1, <4>10
      <4>12. s \notin excused' => Measures(q.grade, s, q.seen[s].agent)'
        BY <4>5, <4>6, <4>10 DEF Measures, Live
      <4> QED BY <3>1, <4>8, <4>10, <4>11, <4>12 DEF PollTrue, Siblings, Measures, Live
    <3>2. CASE b # a /\ pollAt[b] # Idle
      <4>1. PICK p : p = pollAt[b]
        OBVIOUS
      <4>2. PICK x \in Graded : x = p.story
        BY <1>p, <3>2, <4>1 DEF PollTrue
      <4>3. p.at = "started" /\ x \notin excused'
                => Measures(p.grade, x, p.seen[x].agent)'
        <5>1. p.at = "started" /\ x \notin excused'
                  => p.grade \in DOMAIN wrappers /\ Measures(p.grade, x, p.seen[x].agent)
          BY <1>p, <2>1, <3>2, <4>1, <4>2 DEF PollTrue
        <5>2. ASSUME p.at = "started", x \notin excused'
              PROVE  Measures(p.grade, x, p.seen[x].agent)'
          BY <2>4, <5>1, <5>2
        <5> QED BY <5>2
      <4>4. pollAt'[b] = p /\ excused' = excused
        BY <1>t, <2>1, <3>2, <4>1
      <4>5. /\ p.at \in {"started", "graded"} /\ p.seen \in [Siblings(x) -> GradeRecords]
            /\ p.seen[x].status = "in_progress" /\ p.seen[x].grading = NoGrade
            /\ p.at = "started" => p.grade \in DOMAIN wrappers
            /\ p.at = "graded" =>
                /\ p.verdict \in Verdicts \cup {NoGrade}
                /\ x \notin excused => p.verdict \in {NoGrade, [of |-> x, round |-> p.seen[x].agent]}
        BY <1>p, <3>2, <4>1, <4>2 DEF PollTrue
      <4>6. p.seen \in [Siblings(x) -> GradeRecords']
        BY <3>0, <4>5
      <4>7. p.at = "started" => p.grade \in DOMAIN wrappers'
        BY <2>3, <4>5
      <4> QED BY <3>2, <4>1, <4>2, <4>3, <4>4, <4>5, <4>6, <4>7
              DEF PollTrue, Siblings, Measures, Live
    <3>3. CASE b # a /\ pollAt[b] = Idle
      BY <1>t, <2>1, <3>3 DEF PollTrue
    <3> QED BY <3>1, <3>2, <3>3
  <2> QED BY <1>r, <2>1, <2>5, <2>6, <2>7 DEF GradeInv
\* One poll moves and nothing of the wrappers.
<1>m. ASSUME NEW a \in Callers, UNCHANGED <<wrappers, work, result>>, excused \subseteq excused',
             \E p : pollAt' = [pollAt EXCEPT ![a] = p],
             NEW b \in Callers \ {a}
      PROVE  PollTrue(b)'
  <2>1. pollAt'[b] = pollAt[b]
    BY <1>t, <1>m
  <2> QED BY <1>p, <1>m, <2>1 DEF PollTrue, Measures, Live, GradeRecords
<1>7. ASSUME NEW a \in Callers, NEW s \in Graded, GradeInline(a, s) PROVE GradeInv'
  <2> DEFINE given == [of |-> s, round |-> work[s]]
             poll == [at |-> "graded", story |-> s, seen |-> PlanOfIn(s, manifest),
                      verdict |-> given]
  <2>f. /\ poll.at = "graded" /\ poll.story = s /\ poll.seen = PlanOfIn(s, manifest)
        /\ poll.verdict = given /\ poll # Idle
    BY DEF Idle
  <2> HIDE DEF poll
  <2>1. /\ CanPoll(a, s) /\ manifest[s].grading = NoGrade
        /\ pollAt' = [pollAt EXCEPT ![a] = poll]
        /\ UNCHANGED <<manifest, work, wrappers, result, excused, basis>>
    BY <1>7 DEF GradeInline, poll
  <2>2. given \in Verdicts
    BY <1>t DEF Verdicts
  <2>3. s \notin excused => manifest[s].agent = work[s]
    BY <1>r DEF RecordTrue
  <2>4. poll.seen \in [Siblings(s) -> GradeRecords] /\ poll.seen[s] = manifest[s]
        /\ manifest[s].status = "in_progress"
    BY <1>g, <2>1, <2>f
  <2>5. pollAt'[a] = poll
    BY <1>t, <2>1
  <2>6. PollTrue(a)'
    <3>1. PICK q : q = poll
      OBVIOUS
    <3>2. /\ pollAt'[a] = q /\ q # Idle /\ q.at = "graded" /\ q.story = s
          /\ q.seen \in [Siblings(s) -> GradeRecords] /\ q.seen[s] = manifest[s]
          /\ q.verdict = given
      BY <2>f, <2>4, <2>5, <3>1
    <3>3. s \notin excused' => q.verdict = [of |-> s, round |-> q.seen[s].agent]
      BY <2>1, <2>3, <3>2
    <3>4. GradeRecords' = GradeRecords
      BY <2>1 DEF GradeRecords
    <3> HIDE DEF given
    <3> QED BY <2>1, <2>2, <2>4, <3>2, <3>3, <3>4 DEF PollTrue, Siblings
  <2>7. GradeTyped'
    BY <1>t, <2>1 DEF GradeTyped, GradeRecords
  <2>8. ASSUME NEW x \in Graded PROVE RecordTrue(x)'
    BY <1>r, <2>1 DEF RecordTrue, Measures, Live
  <2> QED BY <1>r, <1>m, <2>1, <2>6, <2>7, <2>8 DEF GradeInv
<1>8. ASSUME NEW a \in Callers, NEW s \in Graded, Collect(a, s) PROVE GradeInv'
  <2> DEFINE poll == [at |-> "graded", story |-> s, seen |-> PlanOfIn(s, manifest'),
                      verdict |-> result[KeyOf[s]]]
  <2>f. /\ poll.at = "graded" /\ poll.story = s /\ poll.seen = PlanOfIn(s, manifest')
        /\ poll.verdict = result[KeyOf[s]] /\ poll # Idle
    BY DEF Idle
  <2> HIDE DEF poll
  <2>1. /\ CanPoll(a, s) /\ manifest[s].grading # NoGrade /\ ~Live(manifest[s].grading)
        /\ manifest' = [manifest EXCEPT ![s] = [@ EXCEPT !.grading = NoGrade]]
        /\ pollAt' = [pollAt EXCEPT ![a] = poll]
        /\ UNCHANGED <<work, wrappers, result, excused, basis>>
    BY <1>8 DEF Collect, Collected, poll
  <2>2. result[KeyOf[s]] \in Verdicts \cup {NoGrade}
    BY <1>t
  <2>3. s \notin excused =>
            manifest[s].agent = work[s] /\ result[KeyOf[s]] = [of |-> s, round |-> work[s]]
    BY <1>r, <2>1 DEF RecordTrue, Measures
  <2>4. /\ manifest' \in [Graded -> GradeRecords]
        /\ manifest'[s].grading = NoGrade /\ manifest'[s].status = "in_progress"
        /\ manifest'[s].agent = manifest[s].agent
        /\ \A x \in Graded \ {s} : manifest'[x] = manifest[x]
    <3>1. manifest[s] \in GradeRecords /\ manifest[s].status = "in_progress"
      BY <1>g, <1>t, <2>1
    <3>2. PICK r : r = [manifest[s] EXCEPT !.grading = NoGrade]
      OBVIOUS
    <3>3. /\ r \in GradeRecords /\ r.grading = NoGrade /\ r.status = "in_progress"
          /\ r.agent = manifest[s].agent
      BY <3>1, <3>2 DEF GradeRecords
    <3>4. manifest' = [manifest EXCEPT ![s] = r]
      BY <2>1, <3>2
    <3> QED BY <1>t, <3>3, <3>4
  <2>5. poll.seen \in [Siblings(s) -> GradeRecords] /\ poll.seen[s] = manifest'[s]
    BY <2>f, <2>4 DEF PlanOfIn, Siblings
  <2>6. pollAt'[a] = poll
    BY <1>t, <2>1
  <2>7. PollTrue(a)'
    <3>1. PICK q : q = poll
      OBVIOUS
    <3>2. /\ pollAt'[a] = q /\ q # Idle /\ q.at = "graded" /\ q.story = s
          /\ q.seen \in [Siblings(s) -> GradeRecords] /\ q.seen[s] = manifest'[s]
          /\ q.verdict = result[KeyOf[s]]
      BY <2>f, <2>5, <2>6, <3>1
    <3>3. s \notin excused' => q.verdict = [of |-> s, round |-> q.seen[s].agent]
      BY <2>1, <2>3, <2>4, <3>2
    <3>4. GradeRecords' = GradeRecords
      BY <2>1 DEF GradeRecords
    <3>5. q.verdict \in Verdicts \cup {NoGrade}
      BY <2>2, <3>2
    <3>6. /\ q.seen \in [Siblings(s) -> GradeRecords']
          /\ q.seen[s].status = "in_progress" /\ q.seen[s].grading = NoGrade
      BY <2>4, <3>2, <3>4
    <3> QED BY <3>2, <3>3, <3>5, <3>6 DEF PollTrue, Siblings
  <2>8. GradeTyped'
    BY <1>t, <2>1, <2>4 DEF GradeTyped, GradeRecords
  <2>9. ASSUME NEW x \in Graded PROVE RecordTrue(x)'
    BY <1>r, <2>1, <2>4 DEF RecordTrue, Measures, Live
  <2> QED BY <1>r, <1>m, <2>1, <2>7, <2>8, <2>9 DEF GradeInv
\* A poll writes back the manifest it has read.
<1>w. ASSUME NEW a \in Callers, NEW s \in Graded, NEW r \in GradeRecords, pollAt[a] # Idle,
             s = pollAt[a].story, SavesPlan(a, s, r), UNCHANGED <<work, wrappers, result>>,
             pollAt' = [pollAt EXCEPT ![a] = Idle],
             r.agent = pollAt[a].seen[s].agent,
             r.grading # NoGrade =>
                /\ r.status = "in_progress"
                /\ s \notin excused => Measures(r.grading, s, r.agent)
      PROVE  /\ manifest' \in [Graded -> GradeRecords] /\ excused' \subseteq Graded
             /\ s \notin excused' => r.agent = work[s] /\ s \notin excused
             /\ \A x \in Graded : RecordTrue(x)'
             /\ \A b \in Callers : PollTrue(b)'
  <2>1. pollAt[a].seen \in [Siblings(s) -> GradeRecords]
    BY <1>p, <1>w DEF PollTrue
  <2>2. /\ manifest' \in [Graded -> GradeRecords]
        /\ manifest'[s] = r
        /\ \A x \in Graded \ {s} : x \notin excused' => manifest'[x] = manifest[x]
        /\ s \notin excused' => manifest[s] = pollAt[a].seen[s]
        /\ excused \subseteq excused' /\ excused' \subseteq Graded
    BY <1>t, <1>w, <2>1, WrittenBack
  <2>3. s \notin excused' => r.agent = work[s] /\ s \notin excused
    BY <1>r, <1>w, <2>2 DEF RecordTrue
  <2>4. RecordTrue(s)'
    BY <1>w, <2>2, <2>3 DEF RecordTrue, Measures, Live
  <2>5. ASSUME NEW x \in Graded \ {s} PROVE RecordTrue(x)'
    BY <1>r, <1>w, <2>2 DEF RecordTrue, Measures, Live
  <2>6. PollTrue(a)'
    BY <1>t, <1>w DEF PollTrue
  <2> QED BY <1>m, <1>w, <2>2, <2>3, <2>4, <2>5, <2>6
<1>9. ASSUME NEW a \in Callers, RecordGrade(a) PROVE GradeInv'
  <2>1. PICK s : s = pollAt[a].story
    OBVIOUS
  <2>2. PICK r : r = [pollAt[a].seen[s] EXCEPT !.grading = pollAt[a].grade]
    OBVIOUS
  <2>3. pollAt[a].at = "started" /\ pollAt[a] # Idle
    BY <1>9, NotIdle DEF RecordGrade
  <2>4. /\ SavesPlan(a, s, r) /\ pollAt' = [pollAt EXCEPT ![a] = Idle]
        /\ UNCHANGED <<work, wrappers, result, basis>>
    BY <1>9, <2>1, <2>2 DEF RecordGrade
  <2>5. /\ s \in Graded /\ s \in Siblings(s)
        /\ pollAt[a].seen \in [Siblings(s) -> GradeRecords]
        /\ pollAt[a].seen[s].status = "in_progress"
        /\ pollAt[a].grade \in DOMAIN wrappers
        /\ s \notin excused => Measures(pollAt[a].grade, s, pollAt[a].seen[s].agent)
    BY <1>p, <2>1, <2>3 DEF PollTrue, Siblings
  <2>6. /\ r \in GradeRecords /\ r.agent = pollAt[a].seen[s].agent /\ r.grading = pollAt[a].grade
        /\ r.status = "in_progress"
    <3>1. pollAt[a].seen[s] \in GradeRecords
      BY <2>5
    <3> QED BY <2>2, <2>5, <3>1 DEF GradeRecords
  <2>7. s \notin excused => Measures(r.grading, s, r.agent)
    BY <2>5, <2>6
  <2>8. /\ manifest' \in [Graded -> GradeRecords] /\ excused' \subseteq Graded
        /\ \A x \in Graded : RecordTrue(x)'
        /\ \A b \in Callers : PollTrue(b)'
    BY <1>w, <2>1, <2>3, <2>4, <2>5, <2>6, <2>7
  <2>9. GradeTyped'
    BY <1>t, <2>4, <2>8 DEF GradeTyped, GradeRecords
  <2> QED BY <1>r, <2>4, <2>8, <2>9 DEF GradeInv
<1>10. ASSUME NEW a \in Callers, Settle(a) PROVE GradeInv'
  <2>1. PICK s : s = pollAt[a].story
    OBVIOUS
  <2>2. PICK status \in {"failed", "tests_passed"} :
            SavesPlan(a, s, [pollAt[a].seen[s] EXCEPT !.status = status])
    BY <1>10, <2>1 DEF Settle
  <2>3. PICK r : r = [pollAt[a].seen[s] EXCEPT !.status = status]
    OBVIOUS
  <2>4. pollAt[a].at = "graded" /\ pollAt[a] # Idle
    BY <1>10, NotIdle DEF Settle
  <2>5. /\ SavesPlan(a, s, r) /\ pollAt' = [pollAt EXCEPT ![a] = Idle]
        /\ UNCHANGED <<work, wrappers, result>>
        /\ basis' = [basis EXCEPT ![s] = IF s \in excused' THEN NoGrade ELSE pollAt[a].verdict]
    BY <1>10, <2>1, <2>2, <2>3 DEF Settle
  <2>6. /\ s \in Graded /\ s \in Siblings(s)
        /\ pollAt[a].seen \in [Siblings(s) -> GradeRecords]
        /\ pollAt[a].seen[s].grading = NoGrade
        /\ pollAt[a].verdict \in Verdicts \cup {NoGrade}
        /\ s \notin excused
              => pollAt[a].verdict \in {NoGrade, [of |-> s, round |-> pollAt[a].seen[s].agent]}
    BY <1>p, <2>1, <2>4 DEF PollTrue, Siblings
  <2>7. r \in GradeRecords /\ r.agent = pollAt[a].seen[s].agent /\ r.grading = NoGrade
    <3>1. pollAt[a].seen[s] \in GradeRecords
      BY <2>6
    <3> QED BY <2>3, <2>6, <3>1 DEF GradeRecords
  <2>8. /\ manifest' \in [Graded -> GradeRecords] /\ excused' \subseteq Graded
        /\ s \notin excused' => r.agent = work[s] /\ s \notin excused
        /\ \A x \in Graded : RecordTrue(x)'
        /\ \A b \in Callers : PollTrue(b)'
    BY <1>w, <2>1, <2>4, <2>5, <2>6, <2>7
  <2>9. /\ basis' \in [Graded -> Verdicts \cup {NoGrade}]
        /\ \A x \in Graded : basis'[x] \in {NoGrade, [of |-> x, round |-> work'[x]]}
    <3>1. s \notin excused' => pollAt[a].verdict \in {NoGrade, [of |-> s, round |-> work[s]]}
      BY <2>6, <2>7, <2>8
    <3> QED BY <1>r, <1>t, <2>5, <2>6, <3>1
  <2>10. GradeTyped'
    BY <1>t, <2>5, <2>8, <2>9 DEF GradeTyped, GradeRecords
  <2> QED BY <2>8, <2>9, <2>10 DEF GradeInv
<1>11. ASSUME NEW a \in Callers, PollerDies(a) PROVE GradeInv'
  <2>1. /\ pollAt' = [pollAt EXCEPT ![a] = Idle]
        /\ UNCHANGED <<manifest, work, wrappers, result, excused, basis>>
    BY <1>11 DEF PollerDies
  <2>2. PollTrue(a)'
    BY <1>t, <2>1 DEF PollTrue
  <2>3. GradeTyped'
    BY <1>t, <2>1 DEF GradeTyped, GradeRecords
  <2>4. ASSUME NEW x \in Graded PROVE RecordTrue(x)'
    BY <1>r, <2>1 DEF RecordTrue, Measures, Live
  <2> QED BY <1>r, <1>m, <2>1, <2>2, <2>3, <2>4 DEF GradeInv
<1>12. ASSUME NEW a \in Callers, NEW s \in Graded, LookOnly(a, s) PROVE UNCHANGED gradeVars
  BY <1>12 DEF LookOnly
<1> QED BY <1>0, <1>1, <1>2, <1>3, <1>4, <1>5, <1>6, <1>7, <1>8, <1>9, <1>10, <1>11, <1>12
        DEF GradeNext, PollStep

LEMMA GradeInvInit == GradeInit => GradeInv
<1> SUFFICES ASSUME GradeInit PROVE GradeInv
  OBVIOUS
<1>1. /\ manifest = [s \in Graded |-> [status |-> "todo", agent |-> 0, grading |-> NoGrade]]
      /\ work = [s \in Graded |-> 0] /\ wrappers = << >>
      /\ result = [k \in {KeyOf[s] : s \in Graded} |-> NoGrade]
      /\ pollAt = [a \in Callers |-> Idle]
      /\ excused = {} /\ basis = [s \in Graded |-> NoGrade]
  BY DEF GradeInit
<1>2. GradeTyped
  <2>1. manifest \in [Graded -> GradeRecords]
    BY <1>1 DEF GradeRecords
  <2>2. wrappers \in Seq(Verdicts \cup {NoGrade})
    BY <1>1
  <2>3. work \in [Graded -> Nat] /\ basis \in [Graded -> Verdicts \cup {NoGrade}]
    BY <1>1
  <2>4. result \in [{KeyOf[s] : s \in Graded} -> Verdicts \cup {NoGrade}]
    BY <1>1
  <2> QED BY <1>1, <2>1, <2>2, <2>3, <2>4 DEF GradeTyped
<1>3. \A s \in Graded : RecordTrue(s) /\ basis[s] = NoGrade
  BY <1>1 DEF RecordTrue
<1>4. \A a \in Callers : PollTrue(a)
  BY <1>1 DEF PollTrue
<1> QED BY <1>2, <1>3, <1>4 DEF GradeInv

LEMMA GradeFollows == GradeInv => GradeIsOwn
BY DEF GradeInv, GradeIsOwn

\* The detached grade: a story is settled on a verdict on its own present work,
\* whoever polls and wherever a wrapper dies, but for the exceptions GradeIsOwn
\* names (_detached_grade_lifecycle).
THEOREM GradeIsOwnHolds == ServicesSpec => []GradeIsOwn
<1>1. ServicesInit => GradeInv
  BY GradeInvInit DEF ServicesInit
<1>2. GradeInv /\ [ServicesNext]_servicesVars => GradeInv'
  BY PartSteps, GradeInvStep
<1>3. GradeInv => GradeIsOwn
  BY GradeFollows
<1> QED BY <1>1, <1>2, <1>3, PTL DEF ServicesSpec
-----------------------------------------------------------------------------
\* The triage sweep.

\* The triage sweep: it takes no grade back, rules on a story no oftener than the
\* cap says, creates one story above the ceiling at most, and replaces none it has
\* created unless an operator forgot what was tried (run_triage_sweep).
THEOREM TriageKeepsItsLimitsHolds == ServicesSpec => []TriageKeepsItsLimits
<1>1. ServicesInit => TriageInv
  BY TriageInvInit DEF ServicesInit
<1>2. TriageInv /\ [ServicesNext]_servicesVars => TriageInv'
  BY PartSteps, TriageInvStep
<1>3. TriageInv => TriageKeepsItsLimits
  BY TriageFollows
<1> QED BY <1>1, <1>2, <1>3, PTL DEF ServicesSpec
-----------------------------------------------------------------------------
\* The outbox among the services is the outbox on its own: what is proved of
\* SafeSpec (a message is lost, sent again or overtaken only as
\* NotificationOutboxProofs says) holds of the daemon's behaviors.
THEOREM OutboxImplements == ServicesSpec => SafeSpec
<1>1. ServicesInit => Init
  BY DEF ServicesInit
<1>2. [ServicesNext]_servicesVars => [Next]_vars
  BY PartSteps
<1> QED BY <1>1, <1>2, PTL DEF ServicesSpec, SafeSpec
-----------------------------------------------------------------------------
\* The types of the services.

\* Types of the scan: it writes and dies as often as it may.
ScanTyped == ScanInv /\ written <= MaxMarkers /\ deaths \in 0..MaxDeaths

LEMMA ScanTypedStep == ScanTyped /\ (ScanNext \/ UNCHANGED scanVars) => ScanTyped'
<1> SUFFICES ASSUME ScanTyped, ScanNext \/ UNCHANGED scanVars PROVE ScanTyped'
  OBVIOUS
<1>1. ScanInv'
  BY ScanInvStep DEF ScanTyped
<1>2. written \in Nat /\ written <= MaxMarkers /\ MaxMarkers \in Nat
  BY ScanAssumption DEF ScanTyped, ScanInv
<1>3. \/ UNCHANGED <<written, deaths>>
      \/ written < MaxMarkers /\ written' = written + 1 /\ UNCHANGED deaths
      \/ deaths < MaxDeaths /\ deaths' = deaths + 1 /\ UNCHANGED written
  BY DEF ScanNext, scanVars, AgentFinishes, RequestWake, StartPass, Claim, Publish, PublishFails,
         ListWakes, TakeWake, PassOnWake, WakeFails, SchedulerDies
<1>4. written' <= MaxMarkers /\ deaths' \in 0..MaxDeaths
  BY <1>2, <1>3, ScanAssumption DEF ScanTyped
<1> QED BY <1>1, <1>4 DEF ScanTyped

LEMMA ScanTypes == ScanTyped => ScanTypeOK
<1> SUFFICES ASSUME ScanTyped PROVE ScanTypeOK
  OBVIOUS
<1>1. Claims \in Nat
  BY ScanAssumption, FS_Subset, FS_CardinalityType DEF Claims
<1>2. /\ published \in Nat /\ dropped \in Nat /\ written \in Nat /\ MaxMarkers \in Nat
      /\ written = published + dropped + (IF marker THEN 1 ELSE 0) + Claims
      /\ written <= MaxMarkers
  BY ScanAssumption DEF ScanTyped, ScanInv
<1>3. published \in 0..MaxMarkers /\ dropped \in 0..MaxMarkers /\ written \in 0..MaxMarkers
  BY <1>1, <1>2
<1> QED BY <1>3 DEF ScanTyped, ScanInv, ScanTypeOK, Places
-----------------------------------------------------------------------------
ConsumerTyped ==
    /\ ConsumerInv
    /\ handled \subseteq Events /\ limit \in Limits \cup {BrokerLimit} /\ restarts \in 0..MaxRestarts

LEMMA ConsumerTypedStep ==
    ConsumerTyped /\ (ConsumerNext \/ UNCHANGED consumerVars) => ConsumerTyped'
<1> SUFFICES ASSUME ConsumerTyped, ConsumerNext \/ UNCHANGED consumerVars PROVE ConsumerTyped'
  OBVIOUS
<1>1. ConsumerInv'
  BY ConsumerInvStep DEF ConsumerTyped
<1>2. loop = "handle" => Current \in Events
  BY DEF ConsumerTyped, ConsumerInv, Current
<1>3. \/ UNCHANGED <<handled, limit, restarts>>
      \/ loop = "handle" /\ handled' = handled \cup {Current} /\ UNCHANGED <<limit, restarts>>
      \/ limit' \in Limits /\ restarts < MaxRestarts /\ restarts' = restarts + 1 /\ UNCHANGED handled
  BY DEF ConsumerNext, LoopStep, consumerVars, brokerVars, outcomeVars, configVars, Arrives,
         AckWaitEnds, StartConsumer, Fetch, FetchFails, EndPause, HandlersReturn, HandlerRaises,
         DeadLetter, Ack, Nak, NextMessage, Restart
<1>4. restarts' \in 0..MaxRestarts
  BY <1>3, ConsumerAssumption DEF ConsumerTyped
<1>5. handled' \subseteq Events /\ limit' \in Limits \cup {BrokerLimit}
  BY <1>2, <1>3 DEF ConsumerTyped
<1> QED BY <1>1, <1>4, <1>5 DEF ConsumerTyped

LEMMA ConsumerTypes == ConsumerTyped => ConsumerTypeOK
BY DEF ConsumerTyped, ConsumerInv, ConsumerTypeOK
-----------------------------------------------------------------------------
\* The scheduler's loop.

\* How far the streak may have grown where the loop is.
DaemonTyped ==
    /\ loopAt \in {"down", "boot", "tick", "scan", "due", "reconcile", "checks"}
    /\ worker \in [PhaseWorkers -> {"free", "joined", "abandoned", "leaked"}]
    /\ planLock \in PhaseWorkers \cup {Nobody}
    /\ streak \in Nat /\ atStart \in Nat
    /\ loopAt \in {"down", "boot"} => streak = 0
    /\ Threshold > 0 =>
        /\ atStart <= Threshold
        /\ loopAt = "tick" => streak <= Threshold
        /\ loopAt = "scan" => streak <= atStart
        /\ loopAt \in {"due", "reconcile"} => streak <= atStart + 1
        /\ loopAt = "checks" => streak <= atStart + 2

LEMMA DaemonTypedStep == DaemonTyped /\ (DaemonNext \/ UNCHANGED daemonVars) => DaemonTyped'
<1> SUFFICES ASSUME DaemonTyped, DaemonNext \/ UNCHANGED daemonVars PROVE DaemonTyped'
  OBVIOUS
<1> USE LoopAssumption DEF DaemonTyped
<1>1. CASE UNCHANGED daemonVars
  BY <1>1 DEF daemonVars
<1>2. ASSUME NEW w \in PhaseWorkers, Boot(w) \/ StartScan(w) \/ StartReconcile(w)
      PROVE  DaemonTyped'
  BY <1>2 DEF Boot, StartScan, StartReconcile, StartWorker
<1>3. CASE EndBoot \/ EndScan \/ EndReconcile
  <2>1. /\ worker' \in [PhaseWorkers -> {"free", "joined", "abandoned", "leaked"}]
        /\ streak' \in {streak, streak + 1}
        /\ UNCHANGED <<planLock, atStart>>
    BY <1>3 DEF EndBoot, EndScan, EndReconcile, JoinReturns, JoinTimesOut, Joined
  <2>2. \/ loopAt = "boot" /\ loopAt' = "tick"
        \/ loopAt = "scan" /\ loopAt' \in {"due", "checks"}
        \/ loopAt = "reconcile" /\ loopAt' = "checks"
    BY <1>3 DEF EndBoot, EndScan, EndReconcile
  <2> QED BY <2>1, <2>2
<1>4. CASE Checks
  <2>1. CASE Exit
    BY <2>1 DEF Exit
  <2>2. ASSUME NEW s, s = IF Abandoned = {} /\ streak = atStart THEN 0 ELSE streak,
               NextTick(s), ~(Threshold > 0 /\ s >= Threshold)
        PROVE  DaemonTyped'
    <3>1. s \in Nat
      BY <2>2
    <3> QED BY <2>2, <3>1 DEF NextTick
  <2> QED BY <1>4, <2>1, <2>2 DEF Checks
<1>5. ASSUME NEW w \in PhaseWorkers,
             TakePlanLock(w) \/ GivePlanLock(w) \/ WorkerReturns(w) \/ GracePasses(w)
      PROVE  DaemonTyped'
  BY <1>5 DEF TakePlanLock, GivePlanLock, WorkerReturns, GracePasses
<1> QED BY <1>1, <1>2, <1>3, <1>4, <1>5 DEF DaemonNext, LoopMoves

LEMMA DaemonTypes == DaemonTyped => DaemonTypeOK
BY LoopAssumption DEF DaemonTyped, DaemonTypeOK
-----------------------------------------------------------------------------
\* The usage gate.

LEMMA GateTypedStep == GateTypeOK /\ (GateNext \/ UNCHANGED gateVars) => GateTypeOK'
<1> SUFFICES ASSUME GateTypeOK, GateNext \/ UNCHANGED gateVars PROVE GateTypeOK'
  OBVIOUS
<1> USE GateAssumption DEF GateTypeOK
<1>1. CASE UNCHANGED gateVars
  BY <1>1 DEF gateVars
<1>2. CASE CostMoves
  BY <1>2 DEF CostMoves, pollVars
<1>3. CASE TimePasses
  <2>1. \A s \in UsageState \cup {NoState} :
            Aged(s) \in UsageState \cup {NoState} /\ BlindLong(s) \in UsageState \cup {NoState}
    BY DEF Aged, BlindLong, UsageState
  <2>2. CASE MeasurementAges
    BY <2>1, <2>2 DEF MeasurementAges
  <2>3. CASE BlindnessLasts
    BY <2>1, <2>3 DEF BlindnessLasts
  <2> QED BY <1>3, <2>2, <2>3 DEF TimePasses
<1>4. ASSUME NEW p \in Pollers, Probe(p) PROVE GateTypeOK'
  <2>1. Measured(prev[p]) \in UsageState
    BY DEF Measured, Gate, UsageState
  <2>2. prev[p] # NoState => Unparsed(prev[p]) \in UsageState
    <3> SUFFICES ASSUME NEW s \in UsageState, s = prev[p] PROVE Unparsed(s) \in UsageState
      OBVIOUS
    <3>1. s.measured = "lately" => Unparsed(s) = s
      BY DEF Unparsed
    <3>2. PICK b \in {"no", "short", "long"}, c \in BOOLEAN :
              s.measured # "lately" => Unparsed(s) = [s EXCEPT !.blind = b, !.paused = c]
      <4>1. (IF s.blind = "no" THEN "short" ELSE s.blind) \in {"no", "short", "long"}
        BY DEF UsageState
      <4> QED BY <4>1 DEF Unparsed
    <3> QED BY <3>1, <3>2 DEF UsageState
  <2>3. ASSUME NEW s \in UsageState, WriteState(p, s), UNCHANGED <<cost, told, heard, crossed, upsets>>
        PROVE  GateTypeOK'
    <3>1. s.paused \in BOOLEAN
      BY DEF UsageState
    <3> QED BY <2>3, <3>1 DEF WriteState, PollTo
  <2> QED BY <1>4, <2>1, <2>2, <2>3 DEF Probe, PollTo
<1>5. ASSUME NEW p \in Pollers, StartPoll(p) \/ Compare(p) \/ Persist(p) PROVE GateTypeOK'
  BY <1>5 DEF StartPoll, Compare, Persist, PollTo
<1>6. ASSUME NEW p \in Pollers, Notify(p) PROVE GateTypeOK'
  BY <1>6 DEF Notify, PollTo
<1>7. ASSUME NEW p \in Pollers, AgentHitsCap(p) \/ PollEnds(p) PROVE GateTypeOK'
  <2>1. CASE AgentHitsCap(p)
    BY <2>1 DEF AgentHitsCap, PollTo, Upset
  <2>2. CASE PollEnds(p)
    <3>1. crossed' \in BOOLEAN
      BY <2>2 DEF PollEnds
    <3> QED BY <2>2, <3>1 DEF PollEnds, PollTo, Upset
  <2> QED BY <1>7, <2>1, <2>2
<1> QED BY <1>1, <1>2, <1>3, <1>4, <1>5, <1>6, <1>7 DEF GateNext, Polls
-----------------------------------------------------------------------------
\* The audit chain and the detached grade.

\* The writers that are about to make a record.
Appending == {w \in Writers : writerAt[w] # "idle"}

AuditCounted ==
    /\ AuditInv /\ made + Cardinality(Appending) <= MaxAppends
    /\ faults \in 0..MaxFaults

LEMMA AuditCountedStep == AuditCounted /\ (AuditNext \/ UNCHANGED auditVars) => AuditCounted'
<1> SUFFICES ASSUME AuditCounted, AuditNext \/ UNCHANGED auditVars PROVE AuditCounted'
  OBVIOUS
<1>1. AuditInv'
  BY AuditInvStep DEF AuditCounted
<1>2. PICK n : n = Cardinality(Appending)
  OBVIOUS
<1>3. /\ IsFiniteSet(Appending) /\ n \in Nat
      /\ {made, faults, MaxAppends, MaxFaults} \subseteq Nat
      /\ writerAt \in [Writers -> {"idle", "lock", "read", "write"}]
      /\ made + n <= MaxAppends /\ faults <= MaxFaults
  BY <1>2, AuditAssumption, FS_Subset, FS_CardinalityType
     DEF Appending, AuditCounted, AuditInv, AuditTyped
<1>4. faults' \in 0..MaxFaults
  <2>1. faults' = faults \/ (faults < MaxFaults /\ faults' = faults + 1)
    BY DEF AuditNext, auditVars, writeVars, anchorVars, StartAppend, LockStream, ReadTail,
           WriteRecord, WriteCutShort, AppendFails, Unlock, ReadAnchors, ReadHead, AppendAnchor,
           PowerLoss
  <2> QED BY <1>3, <2>1
<1>5. ASSUME made' = made, Appending' = Appending PROVE made' + Cardinality(Appending') <= MaxAppends
  BY <1>2, <1>3, <1>5
<1>6. ASSUME NEW w \in Writers, StartAppend(w)
      PROVE  made' + Cardinality(Appending') <= MaxAppends
  <2>1. /\ w \notin Appending /\ Appending' = Appending \cup {w} /\ made' = made
        /\ made + n < MaxAppends
    BY <1>2, <1>3, <1>6 DEF StartAppend, WriterTo, Appending
  <2>2. Cardinality(Appending') = n + 1
    BY <1>2, <1>3, <2>1, FS_AddElement
  <2> QED BY <1>3, <2>1, <2>2
<1>7. ASSUME NEW w \in Writers, LockStream(w) \/ ReadTail(w)
      PROVE  made' + Cardinality(Appending') <= MaxAppends
  BY <1>3, <1>5, <1>7 DEF LockStream, ReadTail, WriterTo, Appending
<1>8. ASSUME NEW w \in Writers, WriteRecord(w) \/ WriteCutShort(w) \/ AppendFails(w)
      PROVE  made' + Cardinality(Appending') <= MaxAppends
  <2>1. made' = made + 1 /\ writerAt[w] # "idle" /\ writerAt' = [writerAt EXCEPT ![w] = "idle"]
    BY <1>8 DEF WriteRecord, WriteCutShort, AppendFails, Unlock, WriterTo
  <2>2. w \in Appending /\ Appending' = Appending \ {w}
    BY <1>3, <2>1 DEF Appending
  <2>3. Cardinality(Appending') = n - 1
    BY <1>2, <1>3, <2>2, FS_RemoveElement
  <2> QED BY <1>3, <2>1, <2>3
<1>9. ASSUME PowerLoss PROVE made' + Cardinality(Appending') <= MaxAppends
  <2>1. made' = made /\ Appending' = {}
    BY <1>9 DEF PowerLoss, Appending
  <2>2. Cardinality(Appending') = 0
    BY <2>1, FS_EmptySet
  <2> QED BY <1>3, <2>1, <2>2
<1>10. ASSUME UNCHANGED auditVars \/ \E a \in Anchorers : ReadAnchors(a) \/ ReadHead(a) \/ AppendAnchor(a)
       PROVE  made' + Cardinality(Appending') <= MaxAppends
  BY <1>5, <1>10 DEF auditVars, writeVars, ReadAnchors, ReadHead, AppendAnchor, Appending
<1> QED BY <1>1, <1>4, <1>6, <1>7, <1>8, <1>9, <1>10 DEF AuditNext, AuditCounted

LEMMA AuditCountedInit == AuditInit => AuditCounted
<1> SUFFICES ASSUME AuditInit PROVE AuditCounted
  OBVIOUS
<1>1. Appending = {}
  BY DEF AuditInit, Appending
<1>2. Cardinality(Appending) = 0 /\ made = 0 /\ faults = 0
  BY <1>1, FS_EmptySet DEF AuditInit
<1> QED BY <1>2, AuditInvInit, AuditAssumption DEF AuditCounted

LEMMA AuditTypes == AuditCounted => AuditTypeOK
<1> SUFFICES ASSUME AuditCounted PROVE AuditTypeOK
  OBVIOUS
<1>1. Cardinality(Appending) \in Nat
  BY AuditAssumption, FS_Subset, FS_CardinalityType DEF Appending
<1>2. made \in 0..MaxAppends
  BY <1>1, AuditAssumption DEF AuditCounted, AuditInv, AuditTyped
<1>3. \A i \in 1..Len(chain) : chain[i] \in Line
  BY DEF AuditCounted, AuditInv, AuditTyped
<1> QED BY <1>2, <1>3 DEF AuditCounted, AuditInv, AuditTyped, AuditTypeOK

\* No record of a story, also one a poller holds, is of work not yet begun.
GradeBounded ==
    /\ GradeInv
    /\ \A s \in Graded : work[s] <= MaxRounds[s] /\ manifest[s].agent <= work[s]
    /\ \A a \in Callers : pollAt[a] # Idle =>
            \A x \in DOMAIN pollAt[a].seen : pollAt[a].seen[x].agent <= work[x]
    /\ agents \subseteq Graded /\ hung \subseteq DOMAIN wrappers /\ kills \in 0..MaxKills

LEMMA GradeBoundedStep == GradeBounded /\ (GradeNext \/ UNCHANGED gradeVars) => GradeBounded'
<1> SUFFICES ASSUME GradeBounded, GradeNext \/ UNCHANGED gradeVars PROVE GradeBounded'
  OBVIOUS
<1>t. /\ manifest \in [Graded -> GradeRecords] /\ work \in [Graded -> Nat]
      /\ wrappers \in Seq(Verdicts \cup {NoGrade}) /\ DOMAIN pollAt = Callers
      /\ \A s \in Graded : MaxRounds[s] \in Nat
      /\ kills \in 0..MaxKills /\ MaxKills \in Nat
  BY GradeAssumption DEF GradeBounded, GradeInv, GradeTyped
<1>g. GradeInv'
  BY GradeInvStep DEF GradeBounded
<1>s. ASSUME NEW a \in Callers, pollAt[a] # Idle
      PROVE  /\ pollAt[a].story \in Graded
             /\ pollAt[a].seen \in [Siblings(pollAt[a].story) -> GradeRecords]
             /\ pollAt[a].story \in Siblings(pollAt[a].story)
             /\ Siblings(pollAt[a].story) \subseteq Graded
             /\ \A x \in DOMAIN pollAt[a].seen : pollAt[a].seen[x].agent <= work[x]
  BY <1>s DEF GradeBounded, GradeInv, PollTrue, Siblings
<1>m. \A s \in Graded : /\ manifest[s].agent \in Nat /\ manifest[s].agent <= work[s]
                        /\ work[s] <= MaxRounds[s]
  BY <1>t DEF GradeBounded, GradeRecords
\* The history and the rest.
<1>1. agents' \subseteq Graded
  BY DEF GradeNext, PollStep, gradeVars, SendOut, AgentExits, StopStory, WrapperEnds, WrapperFails,
         LookOnly, StartGrade, RecordGrade, GradeInline, Collect, Settle, PollerDies, GradeBounded
<1>2. hung' \subseteq DOMAIN wrappers'
  <2>1. CASE UNCHANGED <<hung, wrappers>>
    BY <2>1 DEF GradeBounded
  <2>2. ASSUME NEW i \in DOMAIN wrappers, WrapperEnds(i) \/ WrapperFails(i)
        PROVE  hung' \subseteq DOMAIN wrappers'
    <3>1. DOMAIN wrappers' = DOMAIN wrappers
      BY <1>t, <2>2 DEF WrapperEnds, WrapperFails
    <3> QED BY <2>2, <3>1 DEF WrapperEnds, WrapperFails, GradeBounded
  <2>3. ASSUME NEW a \in Callers, NEW s \in Graded, StartGrade(a, s)
        PROVE  hung' \subseteq DOMAIN wrappers'
    <3>1. DOMAIN wrappers \subseteq DOMAIN wrappers'
      BY <1>t, <2>3 DEF StartGrade
    <3> QED BY <2>3, <3>1 DEF StartGrade, GradeBounded
  <2> QED BY <2>1, <2>2, <2>3
          DEF GradeNext, PollStep, gradeVars, SendOut, AgentExits, StopStory, LookOnly,
              RecordGrade, GradeInline, Collect, Settle, PollerDies
<1>3. kills' \in 0..MaxKills
  <2>1. kills' = kills \/ (kills < MaxKills /\ kills' = kills + 1)
    BY DEF GradeNext, PollStep, gradeVars, SendOut, AgentExits, StopStory, WrapperEnds,
           WrapperFails, LookOnly, StartGrade, RecordGrade, GradeInline, Collect, Settle, PollerDies
  <2> QED BY <1>t, <2>1
\* The work and the records.
<1> DEFINE KeepsRounds ==
        /\ \A s \in Graded : work'[s] <= MaxRounds[s] /\ manifest'[s].agent <= work'[s]
        /\ \A a \in Callers : pollAt'[a] # Idle =>
                \A x \in DOMAIN pollAt'[a].seen : pollAt'[a].seen[x].agent <= work'[x]
<1>4. ASSUME NEW s \in Graded, SendOut(s) PROVE KeepsRounds
  <2>1. /\ work' = [work EXCEPT ![s] = @ + 1] /\ work[s] < MaxRounds[s]
        /\ manifest' = [manifest EXCEPT ![s] = [@ EXCEPT !.status = "in_progress", !.agent = work'[s]]]
        /\ pollAt' = pollAt
    BY <1>t, <1>4 DEF SendOut, GradeRecords
  <2>2. \A x \in Graded : work'[x] \in Nat /\ work[x] <= work'[x] /\ work'[x] <= MaxRounds[x]
    BY <1>t, <1>m, <2>1
  <2>3. manifest'[s].agent = work'[s] /\ \A x \in Graded \ {s} : manifest'[x] = manifest[x]
    BY <1>t, <2>1 DEF GradeRecords
  <2>4. \A x \in Graded : manifest'[x].agent <= work'[x]
    BY <1>t, <1>m, <2>2, <2>3
  <2>5. ASSUME NEW a \in Callers, pollAt[a] # Idle, NEW x \in DOMAIN pollAt[a].seen
        PROVE  pollAt[a].seen[x].agent <= work'[x]
    <3>1. x \in Graded /\ pollAt[a].seen[x].agent \in Nat /\ pollAt[a].seen[x].agent <= work[x]
      BY <1>s, <2>5 DEF GradeRecords
    <3> QED BY <1>t, <2>2, <3>1
  <2> QED BY <2>1, <2>2, <2>4, <2>5
<1>5. ASSUME UNCHANGED <<work, pollAt>>, \A s \in Graded : manifest'[s].agent = manifest[s].agent
      PROVE  KeepsRounds
  BY <1>m, <1>s, <1>5
<1>6. ASSUME NEW s \in Graded, StopStory(s) PROVE KeepsRounds
  <2>1. \A x \in Graded : manifest'[x].agent = manifest[x].agent
    BY <1>t, <1>6 DEF StopStory, GradeRecords
  <2> QED BY <1>5, <1>6, <2>1 DEF StopStory
\* A poll that starts has read the manifest as it is.
<1>7. ASSUME NEW a \in Callers, NEW s \in Graded,
             StartGrade(a, s) \/ GradeInline(a, s) \/ Collect(a, s)
      PROVE  KeepsRounds
  <2>1. \A x \in Graded : manifest'[x].agent = manifest[x].agent
    <3>1. CASE Collect(a, s)
      <4>1. manifest' = [manifest EXCEPT ![s] = Collected(manifest[s])]
        BY <3>1 DEF Collect
      <4>2. Collected(manifest[s]).agent = manifest[s].agent
        BY <1>t DEF Collected, GradeRecords
      <4> QED BY <1>t, <4>1, <4>2
    <3> QED BY <1>7, <3>1 DEF StartGrade, GradeInline
  <2>2. work' = work /\ DOMAIN pollAt' = Callers /\ \A b \in Callers \ {a} : pollAt'[b] = pollAt[b]
    BY <1>t, <1>7 DEF StartGrade, GradeInline, Collect
  <2>3. pollAt'[a].seen = [x \in Siblings(s) |-> manifest'[x]]
    <3>1. CASE StartGrade(a, s)
      BY <1>t, <3>1 DEF StartGrade, PlanOfIn, Siblings
    <3>2. CASE GradeInline(a, s)
      BY <1>t, <3>2 DEF GradeInline, PlanOfIn, Siblings
    <3>3. CASE Collect(a, s)
      BY <1>t, <3>3 DEF Collect, PlanOfIn, Siblings
    <3> QED BY <1>7, <3>1, <3>2, <3>3
  <2>4. \A x \in DOMAIN pollAt'[a].seen : pollAt'[a].seen[x].agent <= work[x]
    BY <1>m, <2>1, <2>3 DEF Siblings
  <2> QED BY <1>m, <1>s, <2>1, <2>2, <2>4
\* One that ends writes back what it has read, with the agents it has seen.
<1>8. ASSUME NEW a \in Callers, RecordGrade(a) \/ Settle(a) PROVE KeepsRounds
  <2>1. PICK p : p = pollAt[a]
    OBVIOUS
  <2>2. PICK s \in Graded : s = p.story
    BY <1>8, <1>s, <2>1, NotIdle DEF RecordGrade, Settle
  <2>3. /\ pollAt[a] # Idle /\ work' = work /\ DOMAIN pollAt' = Callers
        /\ pollAt'[a] = Idle /\ \A b \in Callers \ {a} : pollAt'[b] = pollAt[b]
    BY <1>t, <1>8, NotIdle DEF RecordGrade, Settle
  <2>4. /\ s \in Siblings(s) /\ Siblings(s) \subseteq Graded
        /\ p.seen \in [Siblings(s) -> GradeRecords]
        /\ \A x \in Siblings(s) : p.seen[x].agent <= work[x]
    BY <1>s, <2>1, <2>2, <2>3
  <2>5. PICK r : r.agent = p.seen[s].agent /\ SavesPlan(a, s, r)
    <3>1. CASE RecordGrade(a)
      <4>1. SavesPlan(a, s, [p.seen[s] EXCEPT !.grading = p.grade])
        BY <2>1, <2>2, <3>1 DEF RecordGrade
      <4>2. [p.seen[s] EXCEPT !.grading = p.grade].agent = p.seen[s].agent
        BY <2>4 DEF GradeRecords
      <4> QED BY <4>1, <4>2
    <3>2. CASE Settle(a)
      <4>1. PICK status \in {"failed", "tests_passed"} :
                SavesPlan(a, s, [p.seen[s] EXCEPT !.status = status])
        BY <2>1, <2>2, <3>2 DEF Settle
      <4>2. [p.seen[s] EXCEPT !.status = status].agent = p.seen[s].agent
        BY <2>4 DEF GradeRecords
      <4> QED BY <4>1, <4>2
    <3> QED BY <1>8, <3>1, <3>2
  <2>6. \A x \in Graded :
            manifest'[x] = IF x = s THEN r ELSE IF x \in Siblings(s) THEN p.seen[x] ELSE manifest[x]
    BY <2>1, <2>4, <2>5 DEF SavesPlan
  <2>7. \A x \in Graded : manifest'[x].agent <= work[x]
    BY <1>m, <2>4, <2>5, <2>6
  <2> QED BY <1>m, <1>s, <2>3, <2>7
<1>9. ASSUME NEW a \in Callers, PollerDies(a) PROVE KeepsRounds
  <2>1. /\ UNCHANGED <<work, manifest>> /\ DOMAIN pollAt' = Callers
        /\ pollAt'[a] = Idle /\ \A b \in Callers \ {a} : pollAt'[b] = pollAt[b]
    BY <1>t, <1>9 DEF PollerDies
  <2> QED BY <1>m, <1>s, <2>1
<1>10. CASE \/ UNCHANGED gradeVars
            \/ \E s \in Graded : AgentExits(s) \/ \E a \in Callers : LookOnly(a, s)
            \/ \E i \in DOMAIN wrappers : WrapperEnds(i) \/ WrapperFails(i)
  <2>1. UNCHANGED <<manifest, work, pollAt>>
    BY <1>10 DEF gradeVars, AgentExits, LookOnly, WrapperEnds, WrapperFails
  <2>2. KeepsRounds
    BY <1>5, <2>1
  <2> QED BY <1>g, <1>1, <1>2, <1>3, <2>2 DEF GradeBounded
<1>11. ASSUME KeepsRounds PROVE GradeBounded'
  BY <1>g, <1>1, <1>2, <1>3, <1>11 DEF GradeBounded
<1> HIDE DEF KeepsRounds
<1> QED BY <1>4, <1>6, <1>7, <1>8, <1>9, <1>10, <1>11 DEF GradeNext, PollStep

LEMMA GradeBoundedInit == GradeInit => GradeBounded
<1> SUFFICES ASSUME GradeInit PROVE GradeBounded
  OBVIOUS
<1>1. GradeInv
  BY GradeInvInit
<1>2. \A s \in Graded : work[s] = 0 /\ manifest[s].agent = 0 /\ MaxRounds[s] \in Nat
  BY GradeAssumption DEF GradeInit
<1>3. \A a \in Callers : pollAt[a] = Idle
  BY DEF GradeInit
<1>4. agents = {} /\ hung = {} /\ kills = 0 /\ MaxKills \in Nat
  BY GradeAssumption DEF GradeInit
<1> QED BY <1>1, <1>2, <1>3, <1>4 DEF GradeBounded

LEMMA GradeTypes == GradeBounded => GradeTypeOK
<1> SUFFICES ASSUME GradeBounded PROVE GradeTypeOK
  OBVIOUS
<1>1. /\ GradeTyped /\ \A a \in Callers : PollTrue(a)
  BY DEF GradeBounded, GradeInv
<1>2. \A s \in Graded : work[s] \in 0 .. MaxRounds[s] /\ manifest[s].agent <= work[s]
  BY <1>1, GradeAssumption DEF GradeBounded, GradeTyped
<1>3. \A a \in Callers : pollAt[a].at \in {"idle", "started", "graded"}
  BY <1>1 DEF PollTrue, Idle
<1>4. manifest \in [Graded -> GradeRecords]
  BY <1>1 DEF GradeTyped
<1>5. \A k \in DOMAIN result : result[k] \in Verdicts \cup {NoGrade}
  BY <1>1 DEF GradeTyped
<1> QED BY <1>1, <1>2, <1>3, <1>4, <1>5 DEF GradeBounded, GradeTyped, GradeTypeOK, GradeRecords, Verdicts
-----------------------------------------------------------------------------
\* Every service is well typed and keeps to its bounds: an agent's rounds, a
\* story's budgets, a plan's texts, a streak and what became of an event or a
\* message (the parts of ServicesTypeOK).
THEOREM ServicesTypeOKHolds == ServicesSpec => []ServicesTypeOK
<1> DEFINE Inv == /\ ScanTyped /\ ConsumerTyped /\ DaemonTyped /\ GateTypeOK /\ AuditCounted
                  /\ StoreInv /\ TriageBounded /\ GradeBounded /\ RegistryBounded
<1>1. ServicesInit => Inv
  <2> SUFFICES ASSUME ServicesInit PROVE Inv
    OBVIOUS
  <2>1. ScanTyped
    BY ScanInvInit, ScanAssumption DEF ServicesInit, ScanInit, ScanTyped
  <2>2. ConsumerTyped
    BY ConsumerInvInit, ConsumerAssumption DEF ServicesInit, ConsumerInit, ConsumerTyped
  <2>3. DaemonTyped
    BY LoopAssumption DEF ServicesInit, DaemonInit, DaemonTyped
  <2>4. GateTypeOK
    <3>1. /\ cost = "unparseable" /\ usage = NoState /\ upsets = 0
          /\ told = FALSE /\ heard = FALSE /\ crossed = FALSE
      BY DEF ServicesInit, GateInit
    <3>2. told \in BOOLEAN /\ heard \in BOOLEAN /\ crossed \in BOOLEAN
      BY <3>1
    <3>3. /\ pollerAt \in [Pollers -> {"idle", "probe", "announce", "notify", "persist"}]
          /\ prev \in [Pollers -> UsageState \cup {NoState}]
          /\ verdict \in [Pollers -> BOOLEAN]
      BY DEF ServicesInit, GateInit
    <3>4. upsets \in 0..MaxUpsets
      BY <3>1, GateAssumption
    <3> QED BY <3>1, <3>2, <3>3, <3>4 DEF GateTypeOK
  <2>5. AuditCounted /\ TriageBounded /\ GradeBounded /\ RegistryBounded
    BY AuditCountedInit, TriageBoundedInit, GradeBoundedInit, RegistryBoundedInit DEF ServicesInit
  <2> QED BY <2>1, <2>2, <2>3, <2>4, <2>5, StoreInvInit DEF ServicesInit
<1>2. Inv /\ [ServicesNext]_servicesVars => Inv'
  <2> SUFFICES ASSUME Inv, [ServicesNext]_servicesVars PROVE Inv'
    OBVIOUS
  <2>1. ScanTyped' /\ ConsumerTyped'
    BY PartSteps, ScanTypedStep, ConsumerTypedStep
  <2>2. DaemonTyped' /\ GateTypeOK'
    BY PartSteps, DaemonTypedStep, GateTypedStep
  <2>3. AuditCounted' /\ StoreInv'
    BY PartSteps, AuditCountedStep, StoreInvStep
  <2>4. TriageBounded' /\ GradeBounded'
    BY PartSteps, TriageBoundedStep, GradeBoundedStep
  <2>5. RegistryBounded'
    BY PartSteps, RegistryBoundedStep
  <2> QED BY <2>1, <2>2, <2>3, <2>4, <2>5
<1>3. Inv /\ TypeOK => ServicesTypeOK
  <2> SUFFICES ASSUME Inv, TypeOK PROVE ServicesTypeOK
    OBVIOUS
  <2>1. ScanTypeOK /\ ConsumerTypeOK /\ DaemonTypeOK /\ AuditTypeOK
    BY ScanTypes, ConsumerTypes, DaemonTypes, AuditTypes
  <2>2. TriageTypeOK /\ GradeTypeOK /\ RegistryTypeOK
    BY TriageTypes, GradeTypes, RegistryTypes
  <2>3. StoreTypeOK
    BY DEF StoreInv
  <2> QED BY <2>1, <2>2, <2>3 DEF ServicesTypeOK
<1>4. ServicesSpec => []TypeOK
  BY OutboxImplements, OutboxTypeHolds, PTL
<1> HIDE DEF Inv
<1> QED BY <1>1, <1>2, <1>3, <1>4, PTL DEF ServicesSpec
=============================================================================
