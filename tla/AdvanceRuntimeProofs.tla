------------------------ MODULE AdvanceRuntimeProofs -------------------------
(***************************************************************************)
(* Proofs about AdvanceQueue and AdvanceRuntime for any plans, any number  *)
(* of workers and any number of upsets: the queue keeps its invariant and  *)
(* its order and implements the safety part of AdvanceDemand; the runtime  *)
(* behaves as its queue, at most one child advances a plan, the pipes stay *)
(* in step, and stop() leaves no child but a late one.                     *)
(***************************************************************************)
EXTENDS AdvanceRuntime, SequenceTheorems, TLAPS
-----------------------------------------------------------------------------
\* The queue.

Distinct(s) == \A i, j \in 1..Len(s) : s[i] = s[j] => i = j

\* Appending adds one element at the end and disturbs nothing before it.
LEMMA AppendFacts ==
    ASSUME NEW S, NEW s \in Seq(S), NEW e \in S
    PROVE  /\ Append(s, e) \in Seq(S)
           /\ ToSet(Append(s, e)) = ToSet(s) \cup {e}
           /\ IsPrefix(s, Append(s, e))
           /\ Distinct(s) /\ e \notin ToSet(s) => Distinct(Append(s, e))
<1> DEFINE t == Append(s, e)
<1>1. /\ t \in Seq(S) /\ Len(t) = Len(s) + 1 /\ Len(s) \in Nat
      /\ \A i \in 1..Len(s) : t[i] = s[i]
      /\ t[Len(s) + 1] = e
      /\ DOMAIN t = 1..Len(t) /\ DOMAIN s = 1..Len(s)
  BY AppendProperties, LenProperties
<1>2. ToSet(t) = ToSet(s) \cup {e}
  BY <1>1 DEF ToSet
<1>3. IsPrefix(s, t)
  <2>1. SubSeq(t, 1, Len(s)) \in Seq(S) /\ SubSeq(s, 1, Len(s)) = s
    BY <1>1, SubSeqFull
  <2>2. Len(SubSeq(t, 1, Len(s))) = Len(s)
    BY <1>1, SubSeqProperties, ElementOfSeq
  <2>3. \A i \in 1..Len(s) : SubSeq(t, 1, Len(s))[i] = s[i]
    BY <1>1
  <2>4. SubSeq(t, 1, Len(s)) = s
    BY <2>1, <2>2, <2>3, SeqEqual
  <2> QED BY <1>1, <2>1, <2>4 DEF IsPrefix
<1>4. Distinct(s) /\ e \notin ToSet(s) => Distinct(t)
  BY <1>1 DEF Distinct, ToSet
<1> QED BY <1>1, <1>2, <1>3, <1>4

\* Taking the head of a sequence without duplicates removes exactly it.
LEMMA TailFacts ==
    ASSUME NEW S, NEW s \in Seq(S), s # << >>, Distinct(s)
    PROVE  /\ Tail(s) \in Seq(S)
           /\ Head(s) \in ToSet(s)
           /\ ToSet(Tail(s)) = ToSet(s) \ {Head(s)}
           /\ Distinct(Tail(s))
<1>1. /\ Tail(s) \in Seq(S) /\ Len(s) \in Nat \ {0} /\ Len(Tail(s)) = Len(s) - 1
      /\ \A i \in 1..Len(Tail(s)) : Tail(s)[i] = s[i + 1]
      /\ Head(s) = s[1]
      /\ DOMAIN s = 1..Len(s) /\ DOMAIN Tail(s) = 1..Len(Tail(s))
  BY HeadTailProperties, LenProperties, EmptySeq
<1>2. Head(s) \in ToSet(s) /\ Distinct(Tail(s))
  BY <1>1 DEF Distinct, ToSet
<1>3. \A x \in ToSet(Tail(s)) : x \in ToSet(s) \ {Head(s)}
  BY <1>1 DEF Distinct, ToSet
<1>4. ASSUME NEW x \in ToSet(s) \ {Head(s)} PROVE x \in ToSet(Tail(s))
  <2>1. PICK i \in 1..Len(s) : x = s[i]
    BY <1>1 DEF ToSet
  <2>2. i # 1 /\ i - 1 \in 1..Len(Tail(s)) /\ Tail(s)[i - 1] = s[i]
    BY <1>1, <2>1
  <2> QED BY <1>1, <2>1, <2>2 DEF ToSet
<1> QED BY <1>1, <1>2, <1>3, <1>4

-----------------------------------------------------------------------------
LEMMA QueueInvInit == QueueInit => QueueInv
<1> SUFFICES ASSUME QueueInit PROVE QueueInv
  OBVIOUS
<1>1. queue \in Seq(Plans) /\ Len(queue) = 0
  BY EmptySeq DEF QueueInit
<1>2. ToSet(queue) = {}
  BY EmptySeq DEF QueueInit, ToSet
<1>3. NoDuplicates
  BY <1>1 DEF NoDuplicates
<1>4. QueueTypeOK
  BY <1>1 DEF QueueInit, QueueTypeOK
<1>5. QueuedNotInFlight /\ DirtyInFlight
  BY <1>2 DEF QueueInit, QueuedNotInFlight, DirtyInFlight, Queued
<1> QED BY <1>3, <1>4, <1>5 DEF QueueInv

LEMMA RequestKeepsInv ==
    ASSUME QueueInv, NEW p \in Plans, Request(p) PROVE QueueInv'
<1>1. CASE p \in inFlight
  BY <1>1 DEF Request, QueueInv, QueueTypeOK, NoDuplicates, QueuedNotInFlight,
              DirtyInFlight, Queued
<1>2. CASE p \notin inFlight
  <2>1. /\ queue' = Append(queue, p)
        /\ p \notin ToSet(queue) /\ UNCHANGED <<inFlight, dirty, closed>>
    BY <1>2 DEF Request, Queued
  <2>2. queue \in Seq(Plans) /\ Distinct(queue)
    BY DEF QueueInv, QueueTypeOK, NoDuplicates, Distinct
  <2>3. queue' \in Seq(Plans) /\ ToSet(queue') = ToSet(queue) \cup {p} /\ Distinct(queue')
    BY <2>1, <2>2, AppendFacts
  <2> QED BY <1>2, <2>1, <2>3 DEF QueueInv, QueueTypeOK, NoDuplicates, Distinct,
                                  QueuedNotInFlight, DirtyInFlight, Queued
<1> QED BY <1>1, <1>2

LEMMA TakeKeepsInv ==
    ASSUME QueueInv, NEW p \in Plans, Take(p) PROVE QueueInv'
<1>1. /\ queue # << >> /\ p = Head(queue) /\ queue' = Tail(queue)
      /\ inFlight' = inFlight \cup {p} /\ UNCHANGED <<dirty, closed>>
  BY DEF Take
<1>2. queue \in Seq(Plans) /\ Distinct(queue)
  BY DEF QueueInv, QueueTypeOK, NoDuplicates, Distinct
<1>3. queue' \in Seq(Plans) /\ ToSet(queue') = ToSet(queue) \ {p} /\ Distinct(queue')
  BY <1>1, <1>2, TailFacts
<1> QED BY <1>1, <1>3 DEF QueueInv, QueueTypeOK, NoDuplicates, Distinct,
                          QueuedNotInFlight, DirtyInFlight, Queued

LEMMA FinishKeepsInv ==
    ASSUME QueueInv, NEW p \in Plans, Finish(p) PROVE QueueInv'
<1>1. /\ p \in inFlight /\ inFlight' = inFlight \ {p}
      /\ dirty' = dirty \ {p} /\ UNCHANGED closed
  BY DEF Finish
<1>2. CASE p \notin dirty
  BY <1>1, <1>2 DEF Finish, QueueInv, QueueTypeOK, NoDuplicates, QueuedNotInFlight,
                    DirtyInFlight, Queued
<1>3. CASE p \in dirty
  <2>1. queue' = Append(queue, p)
    BY <1>3 DEF Finish
  <2>2. queue \in Seq(Plans) /\ Distinct(queue) /\ p \notin ToSet(queue)
    BY <1>1 DEF QueueInv, QueueTypeOK, NoDuplicates, Distinct, QueuedNotInFlight, Queued
  <2>3. queue' \in Seq(Plans) /\ ToSet(queue') = ToSet(queue) \cup {p} /\ Distinct(queue')
    BY <2>1, <2>2, AppendFacts
  <2> QED BY <1>1, <2>3 DEF QueueInv, QueueTypeOK, NoDuplicates, Distinct,
                            QueuedNotInFlight, DirtyInFlight, Queued
<1> QED BY <1>2, <1>3

LEMMA QueueInvNext == QueueInv /\ [QueueNext]_queueVars => QueueInv'
<1> SUFFICES ASSUME QueueInv, [QueueNext]_queueVars PROVE QueueInv'
  OBVIOUS
<1>1. CASE Close
  BY <1>1 DEF Close, QueueInv, QueueTypeOK, NoDuplicates, QueuedNotInFlight,
              DirtyInFlight, Queued
<1>2. CASE \E p \in Plans : Request(p) \/ Take(p) \/ Finish(p)
  BY <1>2, RequestKeepsInv, TakeKeepsInv, FinishKeepsInv
<1>3. CASE UNCHANGED queueVars
  BY <1>3 DEF queueVars, QueueInv, QueueTypeOK, NoDuplicates, QueuedNotInFlight,
              DirtyInFlight, Queued
<1> QED BY <1>1, <1>2, <1>3 DEF QueueNext

\* The coalescing bookkeeping of the queue is sound: one queue entry per plan,
\* never both waiting and in flight, a dirty mark only on a plan in flight.
THEOREM QueueSafe == QueueSpec => []QueueInv
BY QueueInvInit, QueueInvNext, PTL DEF QueueSpec

-----------------------------------------------------------------------------
LEMMA QueueStepKeepsOrder ==
    QueueInv /\ [QueueNext]_queueVars =>
        [\/ IsPrefix(queue, queue')
         \/ queue # << >> /\ queue' = Tail(queue)]_queueVars
<1> SUFFICES ASSUME QueueInv, QueueNext
             PROVE  IsPrefix(queue, queue') \/ (queue # << >> /\ queue' = Tail(queue))
  BY DEF queueVars
<1>1. queue \in Seq(Plans)
  BY DEF QueueInv, QueueTypeOK
<1>2. queue' = queue => IsPrefix(queue, queue')
  BY <1>1, LenProperties DEF IsPrefix
<1>3. ASSUME NEW p \in Plans, queue' = Append(queue, p) PROVE IsPrefix(queue, queue')
  BY <1>1, <1>3, AppendFacts
<1>4. CASE Close
  BY <1>2, <1>4 DEF Close
<1>5. ASSUME NEW p \in Plans, Request(p) PROVE IsPrefix(queue, queue')
  BY <1>2, <1>3, <1>5 DEF Request
<1>6. ASSUME NEW p \in Plans, Take(p) PROVE queue # << >> /\ queue' = Tail(queue)
  BY <1>6 DEF Take
<1>7. ASSUME NEW p \in Plans, Finish(p) PROVE IsPrefix(queue, queue')
  BY <1>2, <1>3, <1>7 DEF Finish
<1> QED BY <1>4, <1>5, <1>6, <1>7 DEF QueueNext

\* Plans are served in the order they were queued; a plan re-queued by
\* finish() goes behind those already waiting.
THEOREM QueueOrdered == QueueSpec => NoOvertaking
BY QueueSafe, QueueStepKeepsOrder, PTL DEF QueueSpec, NoOvertaking

-----------------------------------------------------------------------------
LEMMA DemandInit == QueueInit => Demand!Init
BY EmptySeq DEF QueueInit, Demand!Init, Queued, ToSet

LEMMA DemandStep ==
    QueueInv /\ [QueueNext]_queueVars => [Demand!Next]_(Demand!vars)
<1> SUFFICES ASSUME QueueInv, [QueueNext]_queueVars
             PROVE  [Demand!Next]_(Demand!vars)
  OBVIOUS
<1> USE DEF Queued
<1>1. queue \in Seq(Plans) /\ Distinct(queue)
  BY DEF QueueInv, QueueTypeOK, NoDuplicates, Distinct
<1>2. CASE Close
  BY <1>2 DEF Close, Demand!Next, Demand!Shut
<1>3. ASSUME NEW p \in Plans, Request(p) PROVE Demand!Want(p)
  <2>1. CASE p \in inFlight
    BY <1>3, <2>1 DEF Request, Demand!Want
  <2>2. CASE p \notin inFlight
    <3>1. ToSet(queue') = ToSet(queue) \cup {p}
      BY <1>1, <1>3, <2>2, AppendFacts DEF Request
    <3> QED BY <1>3, <2>2, <3>1 DEF Request, Demand!Want
  <2> QED BY <2>1, <2>2
<1>4. ASSUME NEW p \in Plans, Take(p) PROVE Demand!Start(p)
  <2>1. p \in ToSet(queue) /\ ToSet(queue') = ToSet(queue) \ {p}
    BY <1>1, <1>4, TailFacts DEF Take
  <2>2. p \notin inFlight /\ p \notin dirty
    BY <2>1 DEF QueueInv, QueuedNotInFlight, DirtyInFlight
  <2> QED BY <1>4, <2>1, <2>2 DEF Take, Demand!Start
<1>5. ASSUME NEW p \in Plans, Finish(p) PROVE Demand!End(p)
  <2>1. CASE p \in dirty
    <3>1. ToSet(queue') = ToSet(queue) \cup {p}
      BY <1>1, <1>5, <2>1, AppendFacts DEF Finish
    <3> QED BY <1>5, <2>1, <3>1 DEF Finish, Demand!End
  <2>2. CASE p \notin dirty
    BY <1>5, <2>2 DEF Finish, Demand!End
  <2> QED BY <2>1, <2>2
<1>6. CASE UNCHANGED queueVars
  BY <1>6 DEF queueVars, Demand!vars
<1> QED BY <1>2, <1>3, <1>4, <1>5, <1>6 DEF QueueNext, Demand!Next

\* The queue implements the promise: whatever the interleaving, no accepted
\* request is lost and no plan is started while it runs.
THEOREM QueueImplementsDemand == QueueSpec => Demand!SafeSpec
BY QueueSafe, DemandInit, DemandStep, PTL DEF QueueSpec, Demand!SafeSpec
-----------------------------------------------------------------------------
\* The runtime.

\* Threads between take() and finish(): each holds a plan that is in flight.
Holding(w) == pc[w] \in {"took", "send", "reading", "finish"}

HoldsInFlight == \A w \in Workers : Holding(w) => job[w] \in inFlight

JobsDistinct ==
    \A v, w \in Workers : Holding(v) /\ Holding(w) /\ job[v] = job[w] => v = w

\* A busy child works on the plan its thread waits for, and has not answered.
BusyOnTheJob ==
    \A w \in Workers : child[w] = "busy" =>
        pc[w] = "reading" /\ work[w] = job[w] /\ reply[w] = NoPlan

\* OneAdvancePerPlan is not inductive: it needs that a busy child's plan is its
\* thread's, that a thread's plan is in flight, and that the queue hands out no
\* plan in flight.
RuntimeInv ==
    /\ QueueInv
    /\ TypeOK
    /\ HoldsInFlight
    /\ JobsDistinct
    /\ BusyOnTheJob
    /\ ReplyIsForTheJob
-----------------------------------------------------------------------------
LEMMA RuntimeQueueStep == QueueInv /\ [Next]_vars => [QueueNext]_queueVars
<1> SUFFICES ASSUME QueueInv, [Next]_vars PROVE [QueueNext]_queueVars
  OBVIOUS
<1>1. CASE StopStep
  BY <1>1 DEF StopStep, StopUnhooks, StopSets, StopCloses, StopLists,
      StopClosesInputs, StopTerminates, StopReturns, QueueNext
<1>2. ASSUME NEW p \in Plans, WakeEvent(p) \/ Sweep(p) \/ Expire(p)
      PROVE  [QueueNext]_queueVars
  BY <1>2 DEF WakeEvent, Sweep, Expire, QueueNext
<1>3. ASSUME NEW w \in Workers, WorkerStep(w) PROVE [QueueNext]_queueVars
  <2>1. CASE TakePlan(w)
    BY <2>1 DEF TakePlan, QueueNext
  <2>2. CASE FinishPlan(w)
    <3>1. Finish(job[w]) /\ job[w] \in Plans
      BY <2>2 DEF FinishPlan, Finish, QueueInv, QueueTypeOK
    <3> QED BY <3>1 DEF QueueNext
  <2> QED BY <1>3, <2>1, <2>2 DEF WorkerStep, CheckStopping, TakeNothing, ReapDead,
                  Reuse, Spawn, Send, ReadReply, ReadEof
<1>4. ASSUME NEW w \in Workers,
             WorkerUpset(w) \/ ChildAnswers(w) \/ ChildExits(w) \/ ChildCrashes(w)
      PROVE  UNCHANGED queueVars
  BY <1>4 DEF WorkerUpset, SpawnFails, ReadGarbage, ReadTimeout, ChildAnswers,
      ChildExits, ChildCrashes
<1>5. CASE UNCHANGED vars
  BY <1>5 DEF vars
<1> QED BY <1>1, <1>2, <1>3, <1>4, <1>5 DEF Next

LEMMA TypeOKNext == TypeOK /\ QueueTypeOK' /\ [Next]_vars => TypeOK'
<1> SUFFICES ASSUME TypeOK, QueueTypeOK', [Next]_vars PROVE TypeOK'
  OBVIOUS
<1> USE RuntimeAssumption DEF TypeOK
<1>1. CASE StopStep
  <2>1. CASE StopUnhooks \/ StopSets \/ StopCloses \/ StopReturns
    BY <2>1 DEF StopUnhooks, StopSets, StopCloses, StopReturns, poolVars
  <2>2. CASE StopLists
    BY <2>2 DEF StopLists, poolVars
  <2>3. CASE StopClosesInputs
    BY <2>3 DEF StopClosesInputs
  <2>4. CASE StopTerminates
    BY <2>4 DEF StopTerminates
  <2> QED BY <1>1, <2>1, <2>2, <2>3, <2>4 DEF StopStep
<1>2. ASSUME NEW p \in Plans, WakeEvent(p) \/ Sweep(p) \/ Expire(p) PROVE TypeOK'
  BY <1>2 DEF WakeEvent, Sweep, Expire, poolVars, stopVars
<1>3. ASSUME NEW w \in Workers, WorkerStep(w) PROVE TypeOK'
  <2> USE DEF Goto, KeepChild, stopVars
  <2>1. CASE CheckStopping(w)
    BY <2>1 DEF CheckStopping, Discard
  <2>2. CASE TakePlan(w)
    BY <2>2 DEF TakePlan
  <2>3. CASE TakeNothing(w) \/ Reuse(w)
    BY <2>3 DEF TakeNothing, Reuse
  <2>4. CASE ReapDead(w)
    BY <2>4 DEF ReapDead, Discard
  <2>5. CASE Spawn(w)
    BY <2>5 DEF Spawn
  <2>6. CASE Send(w)
    BY <2>6 DEF Send, Discard
  <2>7. CASE ReadReply(w)
    BY <2>7 DEF ReadReply
  <2>8. CASE ReadEof(w)
    BY <2>8 DEF ReadEof, Discard
  <2>9. CASE FinishPlan(w)
    BY <2>9 DEF FinishPlan, Finish, QueueTypeOK
  <2> QED BY <1>3, <2>1, <2>2, <2>3, <2>4, <2>5, <2>6, <2>7, <2>8, <2>9 DEF WorkerStep
<1>4. ASSUME NEW w \in Workers, WorkerUpset(w) PROVE TypeOK'
  <2> USE DEF Goto, Upset, stopVars
  <2>1. CASE SpawnFails(w)
    BY <2>1 DEF SpawnFails, KeepChild
  <2>2. CASE ReadGarbage(w)
    BY <2>2 DEF ReadGarbage, Discard
  <2>3. CASE ReadTimeout(w)
    BY <2>3 DEF ReadTimeout, Discard
  <2> QED BY <1>4, <2>1, <2>2, <2>3 DEF WorkerUpset
<1>5. ASSUME NEW w \in Workers, ChildAnswers(w) \/ ChildExits(w) \/ ChildCrashes(w)
      PROVE  TypeOK'
  BY <1>5 DEF ChildAnswers, ChildExits, ChildCrashes, Upset, stopVars
<1>6. CASE UNCHANGED vars
  BY <1>6 DEF vars, poolVars, stopVars
<1> HIDE DEF TypeOK
<1> QED BY <1>1, <1>2, <1>3, <1>4, <1>5, <1>6 DEF Next

LEMMA RuntimeInvInit == Init => RuntimeInv
<1> SUFFICES ASSUME Init PROVE RuntimeInv
  OBVIOUS
<1>1. QueueInv
  BY QueueInvInit DEF Init
<1>2. TypeOK
  BY <1>1, RuntimeAssumption DEF Init, TypeOK, QueueInv
<1> QED BY <1>1, <1>2 DEF Init, RuntimeInv, HoldsInFlight, JobsDistinct, Holding,
            BusyOnTheJob, ReplyIsForTheJob

\* Steps that leave the threads and what is in flight alone, or only take from
\* a child: no new busy child, no new line.
LEMMA CalmStep ==
    ASSUME RuntimeInv, QueueInv', TypeOK',
           UNCHANGED <<pc, job>>, inFlight' = inFlight,
           \A w \in Workers : child'[w] = "busy" =>
               child[w] = "busy" /\ work'[w] = work[w] /\ reply'[w] = reply[w],
           \A w \in Workers : reply'[w] # NoPlan => reply'[w] = reply[w]
    PROVE  RuntimeInv'
BY DEF RuntimeInv, HoldsInFlight, JobsDistinct, Holding, BusyOnTheJob, ReplyIsForTheJob

\* Steps of thread w that leave every other thread and child alone and keep its
\* plan, and end with no busy child and no line of its own.
LEMMA QuietThreadStep ==
    ASSUME RuntimeInv, QueueInv', TypeOK', NEW w \in Workers,
           UNCHANGED job, inFlight' = inFlight,
           \A v \in Workers \ {w} :
               /\ pc'[v] = pc[v] /\ child'[v] = child[v]
               /\ work'[v] = work[v] /\ reply'[v] = reply[v],
           Holding(w)' => Holding(w),
           child'[w] # "busy", reply'[w] = NoPlan
    PROVE  RuntimeInv'
BY DEF RuntimeInv, HoldsInFlight, JobsDistinct, Holding, BusyOnTheJob, ReplyIsForTheJob

LEMMA RuntimeInvNext == RuntimeInv /\ [Next]_vars => RuntimeInv'
<1> SUFFICES ASSUME RuntimeInv, [Next]_vars PROVE RuntimeInv'
  OBVIOUS
<1>q. QueueInv'
  BY RuntimeQueueStep, QueueInvNext DEF RuntimeInv
<1>t. TypeOK'
  BY <1>q, TypeOKNext DEF RuntimeInv, QueueInv
<1>j. /\ DOMAIN pc = Workers /\ DOMAIN job = Workers /\ DOMAIN child = Workers
      /\ DOMAIN work = Workers /\ DOMAIN reply = Workers
  BY DEF RuntimeInv, TypeOK
<1> DEFINE Busy(w) == pc[w] = "reading" /\ work[w] = job[w] /\ reply[w] = NoPlan
<1>b. \A w \in Workers : /\ child[w] = "busy" => Busy(w)
                         /\ pc[w] # "reading" => child[w] # "busy" /\ reply[w] = NoPlan
  BY DEF RuntimeInv, BusyOnTheJob, ReplyIsForTheJob
<1>1. CASE StopStep
  <2>1. CASE StopUnhooks \/ StopSets \/ StopCloses \/ StopLists \/ StopClosesInputs \/ StopReturns
    BY <2>1, <1>q, <1>t, CalmStep DEF StopUnhooks, StopSets, StopCloses, StopLists,
       StopClosesInputs, StopReturns, Close, poolVars, queueVars
  <2>2. CASE StopTerminates
    BY <2>2, <1>q, <1>t, CalmStep DEF StopTerminates, queueVars
  <2> QED BY <1>1, <2>1, <2>2 DEF StopStep
<1>2. ASSUME NEW p \in Plans, WakeEvent(p) \/ Sweep(p) \/ Expire(p) PROVE RuntimeInv'
  BY <1>2, <1>q, <1>t, CalmStep DEF WakeEvent, Sweep, Expire, Request, poolVars, queueVars
<1>3. ASSUME NEW w \in Workers, WorkerStep(w) PROVE RuntimeInv'
  <2> USE DEF Goto, KeepChild
  <2>1. CASE CheckStopping(w) \/ TakeNothing(w) \/ Reuse(w) \/ ReapDead(w) \/ ReadEof(w) \/ Spawn(w)
    <3>1. /\ UNCHANGED job /\ inFlight' = inFlight
          /\ \A v \in Workers \ {w} : /\ pc'[v] = pc[v] /\ child'[v] = child[v]
                                      /\ work'[v] = work[v] /\ reply'[v] = reply[v]
      BY <2>1, <1>j DEF CheckStopping, TakeNothing, Reuse, ReapDead, ReadEof, Spawn,
         Discard, queueVars
    <3>2. Holding(w)' => Holding(w)
      BY <2>1, <1>j DEF CheckStopping, TakeNothing, Reuse, ReapDead, ReadEof, Spawn, Holding
    <3>3. child'[w] # "busy" /\ reply'[w] = NoPlan
      BY <2>1, <1>j, <1>b DEF CheckStopping, TakeNothing, Reuse, ReapDead, ReadEof, Spawn,
         Discard
    <3> QED BY <3>1, <3>2, <3>3, <1>q, <1>t, QuietThreadStep
  <2>2. CASE TakePlan(w)
    <3>1. PICK p \in Plans : Take(p) /\ job' = [job EXCEPT ![w] = p]
      BY <2>2 DEF TakePlan
    <3>2. /\ inFlight' = inFlight \cup {p} /\ p \notin inFlight
      BY <3>1, TailFacts DEF Take, RuntimeInv, QueueInv, QueueTypeOK, NoDuplicates, Distinct,
                  QueuedNotInFlight, Queued
    <3>3. /\ pc' = [pc EXCEPT ![w] = "took"] /\ UNCHANGED <<child, work, reply>>
          /\ pc[w] = "taking"
      BY <2>2 DEF TakePlan
    <3>4. HoldsInFlight' /\ JobsDistinct'
      BY <3>1, <3>2, <3>3, <1>j DEF RuntimeInv, HoldsInFlight, JobsDistinct, Holding
    <3>5. BusyOnTheJob' /\ ReplyIsForTheJob'
      BY <3>1, <3>3, <1>j, <1>b DEF RuntimeInv, BusyOnTheJob, ReplyIsForTheJob
    <3> QED BY <3>4, <3>5, <1>q, <1>t DEF RuntimeInv
  <2>3. CASE Send(w)
    <3>1. /\ UNCHANGED job /\ inFlight' = inFlight /\ pc[w] = "send" /\ Holding(w)
          /\ \A v \in Workers \ {w} : /\ pc'[v] = pc[v] /\ child'[v] = child[v]
                                      /\ work'[v] = work[v] /\ reply'[v] = reply[v]
      BY <2>3, <1>j DEF Send, Discard, queueVars, Holding
    <3>2. reply'[w] = NoPlan
      BY <2>3, <3>1, <1>j, <1>b DEF Send, Discard
    <3>3. child'[w] = "busy" => pc'[w] = "reading" /\ work'[w] = job'[w]
      BY <2>3, <3>1, <1>j, <1>b DEF Send, Discard
    <3>4. HoldsInFlight' /\ JobsDistinct'
      BY <3>1 DEF RuntimeInv, HoldsInFlight, JobsDistinct, Holding
    <3>5. BusyOnTheJob' /\ ReplyIsForTheJob'
      BY <3>1, <3>2, <3>3 DEF RuntimeInv, BusyOnTheJob, ReplyIsForTheJob
    <3> QED BY <3>4, <3>5, <1>q, <1>t DEF RuntimeInv
  <2>4. CASE ReadReply(w)
    <3>1. /\ UNCHANGED job /\ inFlight' = inFlight
          /\ \A v \in Workers \ {w} : /\ pc'[v] = pc[v] /\ child'[v] = child[v]
                                      /\ work'[v] = work[v] /\ reply'[v] = reply[v]
      BY <2>4, <1>j DEF ReadReply, queueVars
    <3>2. Holding(w) /\ child'[w] # "busy" /\ reply'[w] = NoPlan
      BY <2>4, <1>j, <1>b DEF ReadReply, Holding
    <3> QED BY <3>1, <3>2, <1>q, <1>t, QuietThreadStep
  <2>5. CASE FinishPlan(w)
    <3>1. /\ inFlight' = inFlight \ {job[w]} /\ job' = [job EXCEPT ![w] = NoPlan]
          /\ pc' = [pc EXCEPT ![w] = "loop"] /\ UNCHANGED <<child, work, reply>>
          /\ pc[w] = "finish"
      BY <2>5 DEF FinishPlan, Finish
    <3>2. HoldsInFlight' /\ JobsDistinct'
      BY <3>1, <1>j DEF RuntimeInv, HoldsInFlight, JobsDistinct, Holding
    <3>3. BusyOnTheJob' /\ ReplyIsForTheJob'
      BY <3>1, <1>j, <1>b DEF RuntimeInv, BusyOnTheJob, ReplyIsForTheJob
    <3> QED BY <3>2, <3>3, <1>q, <1>t DEF RuntimeInv
  <2> QED BY <1>3, <2>1, <2>2, <2>3, <2>4, <2>5 DEF WorkerStep
<1>4. ASSUME NEW w \in Workers, WorkerUpset(w) PROVE RuntimeInv'
  <2>1. /\ UNCHANGED job /\ inFlight' = inFlight
        /\ \A v \in Workers \ {w} : /\ pc'[v] = pc[v] /\ child'[v] = child[v]
                                    /\ work'[v] = work[v] /\ reply'[v] = reply[v]
    BY <1>4, <1>j DEF WorkerUpset, SpawnFails, ReadGarbage, ReadTimeout, Discard, Goto,
       KeepChild, queueVars
  <2>2. Holding(w)
    BY <1>4 DEF WorkerUpset, SpawnFails, ReadGarbage, ReadTimeout, Holding
  <2>3. child'[w] # "busy" /\ reply'[w] = NoPlan
    BY <1>4, <1>j, <1>b DEF WorkerUpset, SpawnFails, ReadGarbage, ReadTimeout, Discard, KeepChild
  <2> QED BY <2>1, <2>2, <2>3, <1>q, <1>t, QuietThreadStep
<1>5. ASSUME NEW w \in Workers, ChildAnswers(w) PROVE RuntimeInv'
  <2>1. /\ UNCHANGED <<pc, job>> /\ inFlight' = inFlight
        /\ \A v \in Workers \ {w} : /\ child'[v] = child[v] /\ work'[v] = work[v]
                                    /\ reply'[v] = reply[v]
        /\ child'[w] # "busy" /\ reply'[w] = work[w] /\ child[w] = "busy"
    BY <1>5, <1>j DEF ChildAnswers, queueVars
  <2>2. HoldsInFlight' /\ JobsDistinct'
    BY <2>1 DEF RuntimeInv, HoldsInFlight, JobsDistinct, Holding
  <2>3. BusyOnTheJob' /\ ReplyIsForTheJob'
    BY <2>1, <1>b DEF RuntimeInv, BusyOnTheJob, ReplyIsForTheJob
  <2> QED BY <2>2, <2>3, <1>q, <1>t DEF RuntimeInv
<1>6. ASSUME NEW w \in Workers, ChildExits(w) \/ ChildCrashes(w) PROVE RuntimeInv'
  <2>1. /\ UNCHANGED <<pc, job, reply>> /\ inFlight' = inFlight
        /\ child' = [child EXCEPT ![w] = "dead"]
        /\ \A v \in Workers \ {w} : work'[v] = work[v]
    BY <1>6, <1>j DEF ChildExits, ChildCrashes, queueVars
  <2> QED BY <2>1, <1>j, <1>q, <1>t, CalmStep
<1>7. CASE UNCHANGED vars
  BY <1>7, <1>q, <1>t, CalmStep DEF vars, poolVars, queueVars
<1> QED BY <1>1, <1>2, <1>3, <1>4, <1>5, <1>6, <1>7 DEF Next

LEMMA RuntimeInvHolds == SafeSpec => []RuntimeInv
BY RuntimeInvInit, RuntimeInvNext, PTL DEF SafeSpec

\* The runtime's state stays well typed, and its queue bookkeeping sound.
THEOREM RuntimeTypeCorrect == SafeSpec => [](TypeOK /\ QueueInv)
<1>1. RuntimeInv => TypeOK /\ QueueInv
  BY DEF RuntimeInv
<1> QED BY <1>1, RuntimeInvHolds, PTL

\* No plan is advanced by two children at once.
THEOREM RuntimeOneAdvancePerPlan == SafeSpec => []OneAdvancePerPlan
<1>1. RuntimeInv => OneAdvancePerPlan
  BY DEF RuntimeInv, OneAdvancePerPlan, BusyOnTheJob, JobsDistinct, Holding
<1> QED BY <1>1, RuntimeInvHolds, PTL

\* No result line is ever out of step with the request its thread waits on.
THEOREM RuntimeInStep == SafeSpec => []ReplyIsForTheJob
<1>1. RuntimeInv => ReplyIsForTheJob
  BY DEF RuntimeInv
<1> QED BY <1>1, RuntimeInvHolds, PTL

\* The pool is a proper client of the queue, so what is proved of the queue
\* holds of the runtime, its promise included.
THEOREM RuntimeImplementsQueue == SafeSpec => QueueSpec
<1>1. Init => QueueInit
  BY DEF Init
<1>2. RuntimeInv /\ [Next]_vars => [QueueNext]_queueVars
  BY RuntimeQueueStep DEF RuntimeInv
<1> QED BY <1>1, <1>2, RuntimeInvHolds, PTL DEF SafeSpec, QueueSpec

\* What a child that stop() does not end can be: a thread takes its child with
\* it when it ends, and stop() ends every child that its copy of _children
\* named.
StopLeavesLateChildren ==
    \A w \in Workers :
        /\ pc[w] = "exited" => child[w] = "none"
        /\ stopPc \in {"terminated", "returned"} /\ w \in listed => child[w] \in {"none", "dead"}

LEMMA StopLeavesStep == ASSUME TypeOK, StopLeavesLateChildren, [Next]_vars
                        PROVE  StopLeavesLateChildren'
<1> USE DEF TypeOK, StopLeavesLateChildren
<1>1. CASE StopTerminates
  BY <1>1 DEF StopTerminates
<1>2. CASE StopUnhooks \/ StopSets \/ StopCloses \/ StopLists \/ StopClosesInputs \/ StopReturns
  BY <1>2 DEF StopUnhooks, StopSets, StopCloses, StopLists, StopClosesInputs, StopReturns, poolVars
<1>3. ASSUME NEW w \in Workers, UNCHANGED stopVars,
             \A v \in Workers \ {w} : UNCHANGED <<pc[v], child[v]>>,
             pc'[w] = "exited" => child'[w] = "none",
             child[w] \in {"none", "dead"} => child'[w] \in {"none", "dead"}
      PROVE  StopLeavesLateChildren'
  BY <1>3 DEF stopVars
<1>4. ASSUME NEW w \in Workers, Spawn(w) PROVE StopLeavesLateChildren'
  BY <1>4 DEF Spawn, Goto
<1>5. ASSUME NEW w \in Workers, WorkerStep(w), ~Spawn(w) PROVE StopLeavesLateChildren'
  <2> USE DEF Goto, KeepChild, Discard
  <2>1. UNCHANGED stopVars /\ \A v \in Workers \ {w} : UNCHANGED <<pc[v], child[v]>>
    BY <1>5 DEF WorkerStep, CheckStopping, TakePlan, TakeNothing, ReapDead, Reuse, Send,
       ReadReply, ReadEof, FinishPlan
  <2>2. pc'[w] = "exited" => child'[w] = "none"
    BY <1>5 DEF WorkerStep, CheckStopping, TakePlan, TakeNothing, ReapDead, Reuse, Send,
       ReadReply, ReadEof, FinishPlan
  <2>3. child[w] \in {"none", "dead"} => child'[w] \in {"none", "dead"}
    BY <1>5 DEF WorkerStep, CheckStopping, TakePlan, TakeNothing, ReapDead, Reuse, Send,
       ReadReply, ReadEof, FinishPlan
  <2> QED BY <1>3, <2>1, <2>2, <2>3
<1>6. ASSUME NEW w \in Workers,
             WorkerUpset(w) \/ ChildAnswers(w) \/ ChildExits(w) \/ ChildCrashes(w)
      PROVE  StopLeavesLateChildren'
  <2> USE DEF Goto, KeepChild, Discard, WorkerUpset, SpawnFails, ReadGarbage, ReadTimeout,
              ChildAnswers, ChildExits, ChildCrashes
  <2>1. UNCHANGED stopVars /\ \A v \in Workers \ {w} : UNCHANGED <<pc[v], child[v]>>
    BY <1>6
  <2>2. pc'[w] = "exited" => child'[w] = "none"
    BY <1>6
  <2>3. child[w] \in {"none", "dead"} => child'[w] \in {"none", "dead"}
    BY <1>6
  <2> QED BY <1>3, <2>1, <2>2, <2>3
<1>7. CASE (\E p \in Plans : WakeEvent(p) \/ Sweep(p) \/ Expire(p)) \/ UNCHANGED vars
  BY <1>7 DEF WakeEvent, Sweep, Expire, vars, poolVars, stopVars
<1> QED BY <1>1, <1>2, <1>4, <1>5, <1>6, <1>7 DEF Next, StopStep

\* The docstring of stop(), as far as it goes.  A run of this project shows a
\* child that outlives stop(): no such child was in the copy of _children, and
\* its thread has not ended, so the child ends with it.
THEOREM StopLeavesLateChildrenHolds == SafeSpec => []StopLeavesLateChildren
<1>1. Init => StopLeavesLateChildren
  BY DEF Init, StopLeavesLateChildren
<1>2. RuntimeInv => TypeOK
  BY DEF RuntimeInv
<1> QED BY <1>1, <1>2, StopLeavesStep, RuntimeInvHolds, PTL DEF SafeSpec
=============================================================================
