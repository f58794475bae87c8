----------------------- MODULE NotificationOutboxProofs -----------------------
(***************************************************************************)
(* What NotificationOutbox keeps, for any records, spoolers and failures.  *)
(*                                                                         *)
(* There is no lock, so the argument is about lines: at most one worker    *)
(* drains, and OutboxInv says of each line of the file and of each line in *)
(* its hands where else that record is, whether it may have been sent, and *)
(* that the lines it kept and will merge are in the order of the file.     *)
(* While nothing was rotated under the drain, its snapshot is a prefix of  *)
(* the file; after a rotation the two have no line in common.              *)
(***************************************************************************)
EXTENDS NotificationOutbox, SequenceTheorems, TLAPS

OutboxTyped ==
    /\ file \in Seq(Records) /\ exists \in BOOLEAN /\ spooled \subseteq Records
    /\ pc \in [Spoolers \cup Workers -> {"idle", "rotate", "open", "write", "send", "rewrite"}]
    /\ \A s \in Spoolers : pc[s] \in {"idle", "rotate", "open", "write"}
    /\ \A w \in Workers : pc[w] \in {"idle", "send", "rewrite"}
    /\ rec \in [Spoolers -> Records \cup {None}]
    /\ fd \in [Spoolers -> {"none", "active", "stale"}]
    /\ todo \in [Workers -> Seq(Records)] /\ snapshot \in [Workers -> Nat]
    /\ kept \in [Workers -> Seq(Records)] /\ appended \in [Workers -> Seq(Records)]
    /\ sent \in [Records -> Nat] /\ failures \in Nat /\ moved \in BOOLEAN

\* A record is in one hand, and a hand that spools has one.
Hands ==
    /\ \A s \in Spoolers : pc[s] = "idle" <=> rec[s] = None
    /\ \A s \in Spoolers : pc[s] = "write" => fd[s] # "none"
    /\ \A s \in Spoolers : rec[s] # None => rec[s] \in spooled /\ sent[rec[s]] <= failures
    /\ \A s, t \in Spoolers : s # t /\ rec[s] = rec[t] => rec[s] = None
    /\ \A r \in Records \ spooled : sent[r] <= failures

\* What the lines of q are: records that were written.
Lines(q) == \A i \in 1..Len(q) : q[i] \in spooled /\ \A s \in Spoolers : rec[s] # q[i]

Distinct(q) == \A i, j \in 1..Len(q) : q[i] = q[j] => i = j
Apart(p, q) == \A i \in 1..Len(p), j \in 1..Len(q) : p[i] # q[j]
InOrder(q, f) ==
    \A i, j \in 1..Len(q) : i < j =>
        ~\E k, l \in 1..Len(f) : k > l /\ f[k] = q[i] /\ f[l] = q[j]
Fresh(q) == \A i \in 1..Len(q) : sent[q[i]] <= failures
SentOrExpired(r) == sent[r] > 0 \/ r \in expired

\* Where a record that a spooler was called with can be.
Accounted(r) ==
    \/ \E s \in Spoolers : rec[s] = r
    \/ \E i \in 1..Len(file) : file[i] = r
    \/ SentOrExpired(r) \/ r \in rotated \cup exposed

\* The lines of the file that the drain of w is done with.
Done(w) == IF moved THEN 0 ELSE snapshot[w] - Len(todo[w])

\* While w sends.
Sending(w) ==
    /\ appended[w] = << >>
    /\ Distinct(todo[w]) /\ Apart(kept[w], todo[w])
    /\ moved => Apart(file, todo[w]) /\ \A k \in 1..Len(file) : file[k] \in exposed
    /\ ~moved =>
        /\ snapshot[w] <= Len(file) /\ Len(todo[w]) <= snapshot[w]
        /\ \A i \in 1..Len(todo[w]) : todo[w][i] = file[Done(w) + i]
        /\ \A i \in 1..Len(kept[w]) : \E k \in 1..Done(w) : kept[w][i] = file[k]
    /\ \A k \in 1..Len(file) :
        IF k <= Done(w)
        THEN SentOrExpired(file[k]) \/ \E i \in 1..Len(kept[w]) : kept[w][i] = file[k]
        ELSE sent[file[k]] <= failures /\ \A i \in 1..Len(kept[w]) : kept[w][i] # file[k]
    /\ Fresh(todo[w])

\* When w has read the file again.
Rewrites(w) ==
    /\ todo[w] = << >>
    /\ Distinct(appended[w]) /\ Apart(kept[w], appended[w])
    /\ InOrder(kept[w] \o appended[w], file)
    /\ \A k \in 1..Len(file) :
        \/ SentOrExpired(file[k]) \/ file[k] \in exposed
        \/ \E i \in 1..Len(kept[w]) : kept[w][i] = file[k]
        \/ \E i \in 1..Len(appended[w]) : appended[w][i] = file[k]
    /\ Fresh(appended[w])

Drained(w) ==
    /\ Lines(todo[w]) /\ Lines(kept[w]) /\ Lines(appended[w])
    /\ Distinct(kept[w]) /\ InOrder(kept[w], file) /\ Fresh(kept[w])
    /\ pc[w] = "idle" => todo[w] = << >> /\ kept[w] = << >> /\ appended[w] = << >>
    /\ pc[w] = "send" => Sending(w)
    /\ pc[w] = "rewrite" => Rewrites(w)

\* At most one worker drains; the lines of a file that none drains are to be sent.
OneDrain ==
    /\ \A v, w \in Workers : pc[v] # "idle" /\ pc[w] # "idle" => v = w
    /\ ~DrainUnderWay => ~moved /\ Fresh(file)

OutboxInv ==
    /\ OutboxTyped /\ Hands /\ OneDrain
    /\ \A w \in Workers : Drained(w)
    /\ Lines(file) /\ Distinct(file)
    /\ \A r \in Records : sent[r] <= failures + 1
    /\ \A r \in spooled : Accounted(r)
-----------------------------------------------------------------------------
LEMMA JoinedLines ==
    ASSUME NEW p \in Seq(Records), NEW q \in Seq(Records)
    PROVE  /\ p \o q \in Seq(Records) /\ Len(p \o q) = Len(p) + Len(q)
           /\ \A i \in 1..Len(p) : (p \o q)[i] = p[i]
           /\ \A i \in 1..Len(q) : (p \o q)[Len(p) + i] = q[i]
           /\ \A i \in 1..Len(p \o q) :
                \/ i \in 1..Len(p) /\ (p \o q)[i] = p[i]
                \/ i - Len(p) \in 1..Len(q) /\ (p \o q)[i] = q[i - Len(p)]
OBVIOUS
-----------------------------------------------------------------------------
LEMMA TypedStep == OutboxTyped /\ Hands /\ [Next]_vars => OutboxTyped'
<1> SUFFICES ASSUME OutboxTyped, Hands, [Next]_vars PROVE OutboxTyped'
  OBVIOUS
<1> USE OutboxAssumption DEF OutboxTyped, Goto
<1>1. CASE UNCHANGED vars
  BY <1>1 DEF vars, spoolVars, drainVars, history
<1>2. ASSUME NEW s \in Spoolers, Spool(s) PROVE OutboxTyped'
  BY <1>2 DEF Spool, drainVars, history
<1>3. ASSUME NEW s \in Spoolers, Rotate(s) PROVE OutboxTyped'
  <2>1. file' \in Seq(Records) /\ exists' \in BOOLEAN
    <3>1. file' = << >> /\ exists' = FALSE
      BY <1>3 DEF Rotate
    <3>2. << >> \in Seq(Records) /\ FALSE \in BOOLEAN
      OBVIOUS
    <3> QED BY <3>1, <3>2, Zenon
  <2>3. fd' \in [Spoolers -> {"none", "active", "stale"}]
    BY <1>3 DEF Rotate, Unlinked
  <2>2. moved' \in BOOLEAN
    BY <1>3 DEF Rotate
  <2> QED BY <1>3, <2>1, <2>2, <2>3 DEF Rotate, drainVars
<1>4. ASSUME NEW s \in Spoolers, Open(s) PROVE OutboxTyped'
  BY <1>4 DEF Open, drainVars, history
<1>5. ASSUME NEW s \in Spoolers, Write(s) PROVE OutboxTyped'
  <2>1. rec[s] \in Records
    BY <1>5 DEF Write, Hands
  <2>2. file' \in Seq(Records)
    BY <1>5, <2>1 DEF Write
  <2> QED BY <1>5, <2>2 DEF Write, drainVars
<1>6. ASSUME NEW w \in Workers, StartDrain(w) PROVE OutboxTyped'
  BY <1>6 DEF StartDrain, spoolVars, history
<1>7. ASSUME NEW w \in Workers, Accept(w) \/ Reject(w) \/ Expire(w) PROVE OutboxTyped'
  <2>1. todo[w] \in Seq(Records) /\ todo[w] # << >>
    BY <1>7 DEF Accept, Reject, Expire, NextLine
  <2>2. Tail(todo[w]) \in Seq(Records) /\ Head(todo[w]) \in Records
    BY <2>1
  <2>3. todo' \in [Workers -> Seq(Records)]
    BY <1>7, <2>2 DEF Accept, Reject, Expire, NextLine
  <2>4. kept' \in [Workers -> Seq(Records)]
    <3>1. Append(kept[w], Head(todo[w])) \in Seq(Records)
      BY <2>2
    <3>2. kept' = kept \/ kept' = [kept EXCEPT ![w] = Append(kept[w], Head(todo[w]))]
      BY <1>7 DEF Accept, Reject, Expire
    <3> QED BY <3>1, <3>2
  <2>5. sent' \in [Records -> Nat]
    <3>1. sent' = sent \/ sent' = [sent EXCEPT ![Head(todo[w])] = @ + 1]
      BY <1>7 DEF Accept, Reject, Expire
    <3> QED BY <2>2, <3>1
  <2> QED BY <1>7, <2>3, <2>4, <2>5 DEF Accept, Reject, Expire, spoolVars, history
<1>8. ASSUME NEW w \in Workers, Reread(w) PROVE OutboxTyped'
  BY <1>8 DEF Reread, spoolVars, history
<1>9. ASSUME NEW w \in Workers, Forget(w)
      PROVE  /\ todo' \in [Workers -> Seq(Records)] /\ snapshot' \in [Workers -> Nat]
             /\ kept' \in [Workers -> Seq(Records)] /\ appended' \in [Workers -> Seq(Records)]
             /\ moved' \in BOOLEAN
  <2>1. /\ todo' \in [Workers -> Seq(Records)] /\ kept' \in [Workers -> Seq(Records)]
        /\ appended' \in [Workers -> Seq(Records)]
    BY <1>9 DEF Forget
  <2>2. snapshot' \in [Workers -> Nat] /\ moved' \in BOOLEAN
    BY <1>9 DEF Forget
  <2> QED BY <2>1, <2>2
<1>10. ASSUME NEW w \in Workers, Replace(w) PROVE OutboxTyped'
  <2>1. file' \in Seq(Records) /\ fd' \in [Spoolers -> {"none", "active", "stale"}]
    BY <1>10 DEF Replace, Unlinked
  <2> QED BY <1>9, <1>10, <2>1 DEF Replace
<1>11. ASSUME NEW w \in Workers, Fail(w) PROVE OutboxTyped'
  BY <1>9, <1>11 DEF Fail, spoolVars
<1> QED BY <1>1, <1>2, <1>3, <1>4, <1>5, <1>6, <1>7, <1>8, <1>10, <1>11
        DEF Next, SpoolStep, Drains
-----------------------------------------------------------------------------
\* The spoolers.

LEMMA SpoolKeeps ==
    ASSUME OutboxInv, OutboxTyped', NEW s \in Spoolers, Spool(s)
    PROVE  OutboxInv'
<1> USE OutboxAssumption
<1>1. PICK r \in Records \ spooled :
          /\ spooled' = spooled \cup {r} /\ rec' = [rec EXCEPT ![s] = r]
          /\ pc[s] = "idle" /\ pc' = [pc EXCEPT ![s] = pc'[s]] /\ pc'[s] \in {"rotate", "open"}
          /\ UNCHANGED <<file, exists, fd, rotated, todo, snapshot, kept, appended, sent,
                         expired, failures, moved, exposed>>
  BY DEF Spool, Goto, drainVars, history, OutboxInv, OutboxTyped
<1>2. ASSUME NEW q \in Seq(Records), Lines(q) PROVE Lines(q)'
  BY <1>1, <1>2 DEF Lines
<1>3. Hands'
  BY <1>1 DEF OutboxInv, OutboxTyped, Hands
<1>4. \A w \in Workers : pc'[w] = pc[w]
  BY <1>1 DEF OutboxInv, OutboxTyped
<1>5. OneDrain'
  BY <1>1, <1>4 DEF OutboxInv, OneDrain, DrainUnderWay, Fresh
<1>6. ASSUME NEW w \in Workers PROVE Drained(w)'
  <2>1. Drained(w)
    BY DEF OutboxInv
  <2>2. Lines(todo[w])' /\ Lines(kept[w])' /\ Lines(appended[w])'
    <3>1. Lines(todo[w]) /\ Lines(kept[w]) /\ Lines(appended[w])
      BY <2>1 DEF Drained
    <3> QED BY <1>1, <3>1 DEF Lines, OutboxInv, OutboxTyped
  <2>3. Sending(w) => Sending(w)'
    BY <1>1 DEF Sending, Done, Fresh, SentOrExpired
  <2>4. Rewrites(w) => Rewrites(w)'
    BY <1>1 DEF Rewrites, Fresh, SentOrExpired
  <2> QED BY <1>1, <1>4, <2>1, <2>2, <2>3, <2>4 DEF Drained, Fresh
<1>7. Lines(file)' /\ Distinct(file)'
  BY <1>1 DEF OutboxInv, OutboxTyped, Lines
<1>8. (\A x \in Records : sent[x] <= failures + 1)'
  BY <1>1 DEF OutboxInv
<1>9. ASSUME NEW x \in spooled' PROVE Accounted(x)'
  <2>1. CASE x = r
    BY <1>1, <2>1 DEF OutboxInv, OutboxTyped, Accounted
  <2>2. CASE x # r
    <3>1. x \in spooled /\ Accounted(x)
      BY <1>1, <2>2 DEF OutboxInv
    <3>2. CASE \E t \in Spoolers : rec[t] = x
      <4>1. PICK t \in Spoolers : rec[t] = x
        BY <3>2
      <4>2. x \in Records /\ rec[s] = None
        BY <1>1, <3>1 DEF OutboxInv, OutboxTyped, Hands
      <4>3. rec'[t] = x
        BY <1>1, <4>1, <4>2 DEF OutboxInv, OutboxTyped
      <4> QED BY <4>3 DEF Accounted
    <3> QED BY <1>1, <3>1, <3>2 DEF Accounted, SentOrExpired
  <2> QED BY <2>1, <2>2
<1> QED BY <1>3, <1>5, <1>6, <1>7, <1>8, <1>9 DEF OutboxInv

LEMMA RotateKeeps ==
    ASSUME OutboxInv, OutboxTyped', NEW s \in Spoolers, Rotate(s)
    PROVE  OutboxInv'
<1> USE OutboxAssumption
<1>1. /\ pc[s] = "rotate" /\ pc' = [pc EXCEPT ![s] = "open"]
      /\ rotated' = rotated \cup Range(file)
      /\ file' = << >> /\ exists' = FALSE
      /\ moved' = (moved \/ DrainUnderWay)
      /\ fd' = [t \in Spoolers |-> IF fd[t] = "active" THEN "stale" ELSE fd[t]]
      /\ UNCHANGED <<spooled, rec, todo, snapshot, kept, appended, sent, expired, failures,
                     exposed>>
  BY DEF Rotate, Goto, Unlinked, drainVars
<1>2. Hands'
  BY <1>1 DEF OutboxInv, OutboxTyped, Hands
<1>3. \A w \in Workers : pc'[w] = pc[w]
  BY <1>1 DEF OutboxInv, OutboxTyped
<1>4. OneDrain'
  <2>1. \A v, w \in Workers : pc'[v] # "idle" /\ pc'[w] # "idle" => v = w
    BY <1>3 DEF OutboxInv, OneDrain
  <2>2. DrainUnderWay' = DrainUnderWay
    BY <1>3 DEF DrainUnderWay
  <2>3. ~DrainUnderWay => ~moved'
    BY <1>1 DEF OutboxInv, OneDrain
  <2>4. Fresh(file)'
    BY <1>1 DEF Fresh
  <2> QED BY <2>1, <2>2, <2>3, <2>4 DEF OneDrain
<1>5. ASSUME NEW w \in Workers PROVE Drained(w)'
  <2>1. Drained(w)
    BY DEF OutboxInv
  <2>2. Lines(todo[w])' /\ Lines(kept[w])' /\ Lines(appended[w])'
    BY <1>1, <2>1 DEF Drained, Lines
  <2>3. ASSUME NEW q PROVE InOrder(q, file)' /\ Apart(file, q)'
    BY <1>1 DEF InOrder, Apart
  <2>4. InOrder(kept[w], file)' /\ InOrder(kept[w] \o appended[w], file)'
    BY <1>1 DEF InOrder
  <2>5. pc[w] = "send" => Sending(w)'
    <3>1. SUFFICES ASSUME pc[w] = "send", Sending(w) PROVE Sending(w)'
      BY <2>1 DEF Drained
    <3>2. moved'
      BY <1>1, <3>1 DEF DrainUnderWay
    <3>3. Apart(file, todo[w])'
      BY <1>1 DEF Apart
    <3> QED BY <1>1, <3>1, <3>2, <3>3 DEF Sending, Fresh
  <2>6. pc[w] = "rewrite" => Rewrites(w)'
    BY <1>1, <2>1, <2>4 DEF Drained, Rewrites, Fresh
  <2> QED BY <1>1, <1>3, <2>1, <2>2, <2>4, <2>5, <2>6 DEF Drained, Fresh
<1>6. Lines(file)' /\ Distinct(file)'
  BY <1>1 DEF Lines, Distinct
<1>7. (\A r \in Records : sent[r] <= failures + 1)'
  BY <1>1 DEF OutboxInv
<1>8. ASSUME NEW r \in spooled' PROVE Accounted(r)'
  <2>1. Accounted(r)
    BY <1>1 DEF OutboxInv
  <2>2. \A i \in 1..Len(file) : file[i] \in rotated'
    BY <1>1 DEF Range, OutboxInv, OutboxTyped
  <2> QED BY <1>1, <2>1, <2>2 DEF Accounted, SentOrExpired
<1> QED BY <1>2, <1>4, <1>5, <1>6, <1>7, <1>8 DEF OutboxInv

LEMMA OpenKeeps ==
    ASSUME OutboxInv, OutboxTyped', NEW s \in Spoolers, Open(s)
    PROVE  OutboxInv'
<1> USE OutboxAssumption
<1>1. /\ pc[s] = "open" /\ pc' = [pc EXCEPT ![s] = "write"]
      /\ fd' = [fd EXCEPT ![s] = "active"]
      /\ UNCHANGED <<file, spooled, rec, rotated, todo, snapshot, kept, appended, sent,
                     expired, failures, moved, exposed>>
  BY DEF Open, Goto, drainVars, history
<1>2. Hands'
  BY <1>1 DEF OutboxInv, OutboxTyped, Hands
<1>3. \A w \in Workers : pc'[w] = pc[w]
  BY <1>1 DEF OutboxInv, OutboxTyped
<1>4. OneDrain'
  BY <1>1, <1>3 DEF OutboxInv, OneDrain, DrainUnderWay, Fresh
<1>5. ASSUME NEW w \in Workers PROVE Drained(w)'
  <2>1. Drained(w)
    BY DEF OutboxInv
  <2>2. Lines(todo[w])' /\ Lines(kept[w])' /\ Lines(appended[w])'
    BY <1>1, <2>1 DEF Drained, Lines
  <2>3. Sending(w) => Sending(w)'
    BY <1>1 DEF Sending, Done, Fresh, SentOrExpired
  <2>4. Rewrites(w) => Rewrites(w)'
    BY <1>1 DEF Rewrites, Fresh, SentOrExpired
  <2> QED BY <1>1, <1>3, <2>1, <2>2, <2>3, <2>4 DEF Drained, Fresh
<1>6. Lines(file)' /\ Distinct(file)'
  BY <1>1 DEF OutboxInv, Lines
<1>7. (\A r \in Records : sent[r] <= failures + 1)'
  BY <1>1 DEF OutboxInv
<1>8. ASSUME NEW r \in spooled' PROVE Accounted(r)'
  BY <1>1 DEF OutboxInv, Accounted, SentOrExpired
<1> QED BY <1>2, <1>4, <1>5, <1>6, <1>7, <1>8 DEF OutboxInv

LEMMA WriteKeeps ==
    ASSUME OutboxInv, OutboxTyped', NEW s \in Spoolers, Write(s)
    PROVE  OutboxInv'
<1> USE OutboxAssumption
<1>1. PICK x \in Records :
        /\ pc[s] = "write" /\ x = rec[s] /\ x \in spooled /\ sent[x] <= failures
        /\ fd[s] \in {"active", "stale"}
        /\ file' = IF fd[s] = "active" THEN Append(file, x) ELSE file
        /\ exposed \subseteq exposed'
        /\ Rewriting \/ moved \/ fd[s] = "stale" => x \in exposed'
        /\ pc' = [pc EXCEPT ![s] = "idle"] /\ rec' = [rec EXCEPT ![s] = None]
        /\ fd' = [fd EXCEPT ![s] = "none"]
        /\ UNCHANGED <<spooled, rotated, todo, snapshot, kept, appended, sent, expired,
                       failures, moved>>
  BY DEF Write, Goto, drainVars, OutboxInv, OutboxTyped, Hands
<1>2. Hands'
  BY <1>1 DEF OutboxInv, OutboxTyped, Hands
<1>3. \A w \in Workers : pc'[w] = pc[w]
  BY <1>1 DEF OutboxInv, OutboxTyped
<1>4. ASSUME NEW q \in Seq(Records), Lines(q)
      PROVE  \A i \in 1..Len(q) : q[i] \in spooled' /\ q[i] # x /\ \A t \in Spoolers : rec'[t] # q[i]
  BY <1>1, <1>4 DEF Lines, OutboxInv, OutboxTyped
<1>5. /\ file \in Seq(Records)
      /\ \A i \in 1..Len(file) : file[i] # x
      /\ \A i \in 1..Len(file) : file'[i] = file[i]
      /\ Len(file') \in {Len(file), Len(file) + 1}
      /\ Len(file') = Len(file) + 1 => fd[s] = "active" /\ file'[Len(file')] = x
      /\ fd[s] = "active" => Len(file') = Len(file) + 1
  BY <1>1, <1>4 DEF OutboxInv, OutboxTyped
<1>6. OneDrain'
  BY <1>1, <1>3, <1>5 DEF OutboxInv, OneDrain, DrainUnderWay, Fresh
<1>7. ASSUME NEW q \in Seq(Records), InOrder(q, file), \A i \in 1..Len(q) : q[i] # x
      PROVE  InOrder(q, file')
  <2>1. ASSUME NEW k \in 1..Len(file'), NEW i \in 1..Len(q), file'[k] = q[i]
        PROVE  k \in 1..Len(file) /\ file[k] = q[i]
    BY <1>5, <1>7, <2>1
  <2>2. SUFFICES ASSUME NEW i \in 1..Len(q), NEW j \in 1..Len(q), i < j,
                        NEW k \in 1..Len(file'), NEW l \in 1..Len(file'),
                        k > l, file'[k] = q[i], file'[l] = q[j]
                 PROVE  FALSE
    BY DEF InOrder
  <2>3. k \in 1..Len(file) /\ file[k] = q[i] /\ l \in 1..Len(file) /\ file[l] = q[j]
    BY <2>1, <2>2
  <2> QED BY <1>7, <2>2, <2>3 DEF InOrder
<1>8. ASSUME NEW w \in Workers PROVE Drained(w)'
  <2>1. /\ Drained(w)
        /\ todo[w] \in Seq(Records) /\ kept[w] \in Seq(Records) /\ appended[w] \in Seq(Records)
        /\ snapshot[w] \in Nat
    BY DEF OutboxInv, OutboxTyped
  <2>2. /\ \A i \in 1..Len(todo[w]) : todo[w][i] # x
        /\ \A i \in 1..Len(kept[w]) : kept[w][i] # x
        /\ \A i \in 1..Len(appended[w]) : appended[w][i] # x
    BY <1>4, <2>1 DEF Drained
  <2>3. Lines(todo[w])' /\ Lines(kept[w])' /\ Lines(appended[w])'
    <3>1. Lines(todo[w]) /\ Lines(kept[w]) /\ Lines(appended[w])
      BY <2>1 DEF Drained
    <3> QED BY <1>1, <1>4, <2>1, <3>1 DEF Lines
  <2>4. InOrder(kept[w], file')
    BY <1>7, <2>1, <2>2 DEF Drained
  <2>5. ASSUME pc[w] = "send" PROVE Sending(w)'
    <3>1. Sending(w)
      BY <2>1, <2>5 DEF Drained
    <3>2. Done(w)' = Done(w) /\ Done(w) \in Nat /\ Done(w) <= Len(file)
      BY <1>1, <1>5, <2>1, <3>1 DEF Done, Sending
    <3>3. moved => Apart(file', todo[w]) /\ \A k \in 1..Len(file') : file'[k] \in exposed'
      BY <1>1, <1>5, <2>1, <2>2, <3>1 DEF Sending, Apart
    <3>4. ~moved =>
            /\ snapshot[w] <= Len(file') /\ Len(todo[w]) <= snapshot[w]
            /\ \A i \in 1..Len(todo[w]) : todo[w][i] = file'[Done(w) + i]
            /\ \A i \in 1..Len(kept[w]) : \E k \in 1..Done(w) : kept[w][i] = file'[k]
      <4> SUFFICES ASSUME ~moved PROVE
            /\ snapshot[w] <= Len(file') /\ Len(todo[w]) <= snapshot[w]
            /\ \A i \in 1..Len(todo[w]) : todo[w][i] = file'[Done(w) + i]
            /\ \A i \in 1..Len(kept[w]) : \E k \in 1..Done(w) : kept[w][i] = file'[k]
        OBVIOUS
      <4>1. /\ snapshot[w] <= Len(file') /\ Len(todo[w]) <= snapshot[w]
            /\ snapshot[w] <= Len(file) /\ Done(w) = snapshot[w] - Len(todo[w])
        BY <1>5, <2>1, <3>1 DEF Sending, Done
      <4>2. ASSUME NEW i \in 1..Len(todo[w]) PROVE todo[w][i] = file'[Done(w) + i]
        <5>1. Done(w) + i \in 1..Len(file)
          BY <1>5, <2>1, <3>2, <4>1
        <5> QED BY <1>5, <3>1, <5>1 DEF Sending
      <4>3. ASSUME NEW i \in 1..Len(kept[w]) PROVE \E k \in 1..Done(w) : kept[w][i] = file'[k]
        <5>1. PICK k \in 1..Done(w) : kept[w][i] = file[k]
          BY <3>1 DEF Sending
        <5>2. k \in 1..Len(file)
          BY <1>5, <3>2
        <5> QED BY <1>5, <5>1, <5>2
      <4> QED BY <4>1, <4>2, <4>3
    <3>5. ASSUME NEW k \in 1..Len(file')
          PROVE  IF k <= Done(w)
                 THEN SentOrExpired(file'[k]) \/ \E i \in 1..Len(kept[w]) : kept[w][i] = file'[k]
                 ELSE sent[file'[k]] <= failures /\ \A i \in 1..Len(kept[w]) : kept[w][i] # file'[k]
      BY <1>1, <1>5, <2>1, <2>2, <3>1, <3>2 DEF Sending
    <3>6. /\ Fresh(todo[w])' /\ appended'[w] = << >>
          /\ Distinct(todo[w])' /\ Apart(kept[w], todo[w])'
      BY <1>1, <3>1 DEF Sending, Fresh
    <3>7. ASSUME NEW k \in 1..Len(file')
          PROVE  IF k <= Done(w)'
                 THEN \/ sent'[file'[k]] > 0 \/ file'[k] \in expired'
                      \/ \E i \in 1..Len(kept[w]) : kept[w][i] = file'[k]
                 ELSE sent'[file'[k]] <= failures' /\ \A i \in 1..Len(kept[w]) : kept[w][i] # file'[k]
      <4>1. sent' = sent /\ failures' = failures /\ expired' = expired
        BY <1>1
      <4> QED BY <3>2, <3>5, <4>1 DEF SentOrExpired
    <3>8. todo' = todo /\ kept' = kept /\ snapshot' = snapshot /\ moved' = moved
      BY <1>1
    <3>9. moved' => Apart(file, todo[w])' /\ \A k \in 1..Len(file') : file'[k] \in exposed'
      BY <3>3, <3>8 DEF Apart
    <3>10. ~moved' =>
             /\ snapshot'[w] <= Len(file') /\ Len(todo'[w]) <= snapshot'[w]
             /\ \A i \in 1..Len(todo'[w]) : todo'[w][i] = file'[Done(w)' + i]
             /\ \A i \in 1..Len(kept'[w]) : \E k \in 1..Done(w)' : kept'[w][i] = file'[k]
      BY <3>2, <3>4, <3>8
    <3> QED BY <3>6, <3>7, <3>8, <3>9, <3>10 DEF Sending, SentOrExpired
  <2>6. ASSUME pc[w] = "rewrite" PROVE Rewrites(w)'
    <3>1. Rewrites(w)
      BY <2>1, <2>6 DEF Drained
    <3>2. Rewriting
      BY <2>6 DEF Rewriting
    <3>3. InOrder(kept[w] \o appended[w], file')
      <4>1. kept[w] \o appended[w] \in Seq(Records)
        BY <2>1
      <4>2. \A i \in 1..Len(kept[w] \o appended[w]) : (kept[w] \o appended[w])[i] # x
        <5> DEFINE u == kept[w] \o appended[w]
        <5>1. ASSUME NEW i \in 1..Len(u) PROVE u[i] # x
          <6>1. \/ i \in 1..Len(kept[w]) /\ u[i] = kept[w][i]
                \/ i - Len(kept[w]) \in 1..Len(appended[w]) /\ u[i] = appended[w][i - Len(kept[w])]
            <7>1. \A k \in 1..Len(u) :
                    \/ k \in 1..Len(kept[w]) /\ u[k] = kept[w][k]
                    \/ /\ k - Len(kept[w]) \in 1..Len(appended[w])
                       /\ u[k] = appended[w][k - Len(kept[w])]
              BY <2>1, JoinedLines
            <7> HIDE DEF u
            <7> QED BY <7>1
          <6> QED BY <2>2, <6>1
        <5> QED BY <5>1
      <4> QED BY <1>7, <3>1, <4>1, <4>2 DEF Rewrites
    <3>4. ASSUME NEW k \in 1..Len(file')
          PROVE  \/ SentOrExpired(file'[k]) \/ file'[k] \in exposed'
                 \/ \E i \in 1..Len(kept[w]) : kept[w][i] = file'[k]
                 \/ \E i \in 1..Len(appended[w]) : appended[w][i] = file'[k]
      BY <1>1, <1>5, <3>1, <3>2 DEF Rewrites
    <3> QED BY <1>1, <3>1, <3>3, <3>4 DEF Rewrites, Fresh, SentOrExpired
  <2> QED BY <1>1, <1>3, <2>1, <2>3, <2>4, <2>5, <2>6 DEF Drained, Fresh
<1>9. Lines(file)' /\ Distinct(file)'
  <2>1. Lines(file)'
    <3>1. \A i \in 1..Len(file) : file[i] \in spooled' /\ \A t \in Spoolers : rec'[t] # file[i]
      BY <1>4, <1>5 DEF OutboxInv
    <3>2. \A t \in Spoolers : rec'[t] # x
      BY <1>1 DEF OutboxInv, OutboxTyped, Hands
    <3> QED BY <1>1, <1>5, <3>1, <3>2 DEF Lines
  <2>2. Distinct(file)'
    BY <1>5 DEF OutboxInv, Distinct
  <2> QED BY <2>1, <2>2
<1>10. (\A r \in Records : sent[r] <= failures + 1)'
  BY <1>1 DEF OutboxInv
<1>11. ASSUME NEW r \in spooled' PROVE Accounted(r)'
  <2>1. CASE r = x
    BY <1>1, <1>5, <2>1 DEF Accounted
  <2>2. CASE r # x
    <3>1. Accounted(r)
      BY <1>1 DEF OutboxInv
    <3> QED BY <1>1, <1>5, <2>2, <3>1 DEF Accounted, SentOrExpired, OutboxInv, OutboxTyped
  <2> QED BY <2>1, <2>2
<1> QED BY <1>2, <1>6, <1>8, <1>9, <1>10, <1>11 DEF OutboxInv
-----------------------------------------------------------------------------
\* The drain.

\* The workers that do not move are idle.
LEMMA OthersIdle ==
    ASSUME OutboxInv, OutboxTyped', NEW w \in Workers, NEW x \in Workers \ {w},
           pc[w] # "idle" \/ ~DrainUnderWay,
           \A v \in Workers \ {w} :
                /\ pc'[v] = pc[v] /\ todo'[v] = todo[v] /\ kept'[v] = kept[v]
                /\ appended'[v] = appended[v]
    PROVE  pc'[x] = "idle" /\ Drained(x)'
<1>1. pc[x] = "idle"
  BY DEF OutboxInv, OneDrain, DrainUnderWay
<1>2. todo'[x] = << >> /\ kept'[x] = << >> /\ appended'[x] = << >> /\ pc'[x] = "idle"
  BY <1>1 DEF OutboxInv, Drained
<1>3. Len(<< >>) = 0
  OBVIOUS
<1> QED BY <1>2, <1>3 DEF Drained, Lines, Distinct, InOrder, Fresh

LEMMA StartDrainKeeps ==
    ASSUME OutboxInv, OutboxTyped', NEW w \in Workers, StartDrain(w)
    PROVE  OutboxInv'
<1> USE OutboxAssumption
<1>1. /\ ~DrainUnderWay /\ pc[w] = "idle" /\ ~moved /\ Fresh(file)
      /\ todo' = [todo EXCEPT ![w] = file]
      /\ snapshot' = [snapshot EXCEPT ![w] = Len(file)]
      /\ pc' = [pc EXCEPT ![w] = "send"]
      /\ UNCHANGED <<file, spooled, rec, fd, rotated, kept, appended, sent, expired, failures,
                     moved, exposed>>
  BY DEF StartDrain, Goto, spoolVars, history, DrainUnderWay, OutboxInv, OneDrain
<1>2. /\ todo'[w] = file /\ snapshot'[w] = Len(file) /\ pc'[w] = "send"
      /\ kept'[w] = << >> /\ appended'[w] = << >>
      /\ file \in Seq(Records)
  BY <1>1 DEF OutboxInv, OutboxTyped, Drained
<1>3. Hands'
  BY <1>1 DEF OutboxInv, OutboxTyped, Hands
<1>4. ASSUME NEW x \in Workers \ {w} PROVE pc'[x] = "idle" /\ Drained(x)'
  BY <1>1, OthersIdle DEF OutboxInv, OutboxTyped
<1>5. OneDrain'
  <2>1. DrainUnderWay'
    BY <1>2 DEF DrainUnderWay
  <2> QED BY <1>4, <2>1 DEF OneDrain
<1>6. Drained(w)'
  <2>1. Lines(todo[w])' /\ Lines(kept[w])' /\ Lines(appended[w])'
    BY <1>1, <1>2 DEF Lines, OutboxInv
  <2>2. Distinct(kept[w])' /\ InOrder(kept[w], file)' /\ Fresh(kept[w])'
    BY <1>2 DEF Distinct, InOrder, Fresh
  <2>3. Done(w)' = 0
    BY <1>1, <1>2 DEF Done
  <2>4. Fresh(todo[w])'
    BY <1>1, <1>2 DEF Fresh
  <2>5. Distinct(todo[w])' /\ Apart(kept[w], todo[w])'
    BY <1>2 DEF OutboxInv, Apart
  <2>6. /\ snapshot'[w] <= Len(file') /\ Len(todo'[w]) <= snapshot'[w]
        /\ \A i \in 1..Len(todo'[w]) : todo'[w][i] = file'[0 + i]
        /\ Len(kept'[w]) = 0
    BY <1>1, <1>2
  <2>7. \A k \in 1..Len(file') : ~(k <= 0) /\ sent'[file'[k]] <= failures'
    BY <1>1, <1>2 DEF Fresh
  <2>8. Sending(w)'
    BY <1>1, <1>2, <2>3, <2>4, <2>5, <2>6, <2>7 DEF Sending
  <2> QED BY <1>2, <2>1, <2>2, <2>8 DEF Drained
<1>7. Lines(file)' /\ Distinct(file)'
  BY <1>1 DEF OutboxInv, Lines
<1>8. (\A r \in Records : sent[r] <= failures + 1)'
  BY <1>1 DEF OutboxInv
<1>9. ASSUME NEW r \in spooled' PROVE Accounted(r)'
  BY <1>1 DEF OutboxInv, Accounted, SentOrExpired
<1> QED BY <1>3, <1>4, <1>5, <1>6, <1>7, <1>8, <1>9 DEF OutboxInv

\* The next line, whatever becomes of it, was to be sent and is nowhere else.
LEMMA NextLineIs ==
    ASSUME OutboxInv, NEW w \in Workers, pc[w] = "send", todo[w] # << >>
    PROVE  LET r == Head(todo[w]) IN
           /\ r \in Records /\ r \in spooled /\ sent[r] <= failures
           /\ \A s \in Spoolers : rec[s] # r
           /\ Tail(todo[w]) \in Seq(Records) /\ Len(todo[w]) > 0
           /\ Len(Tail(todo[w])) = Len(todo[w]) - 1
           /\ \A i \in 1..Len(Tail(todo[w])) :
                Tail(todo[w])[i] = todo[w][i + 1] /\ Tail(todo[w])[i] # r
           /\ \A i \in 1..Len(kept[w]) : kept[w][i] # r
           /\ moved => \A k \in 1..Len(file) : file[k] # r
           /\ ~moved => Done(w) + 1 \in 1..Len(file) /\ file[Done(w) + 1] = r
<1> DEFINE r == Head(todo[w])
<1>1. /\ todo[w] \in Seq(Records) /\ Sending(w) /\ Lines(todo[w]) /\ snapshot[w] \in Nat
      /\ file \in Seq(Records) /\ kept[w] \in Seq(Records)
  BY DEF OutboxInv, OutboxTyped, Drained
<1>2. /\ Len(todo[w]) \in Nat /\ Len(todo[w]) > 0
      /\ 1 \in 1..Len(todo[w]) /\ r = todo[w][1] /\ r \in Records
      /\ Tail(todo[w]) \in Seq(Records)
      /\ Len(Tail(todo[w])) = Len(todo[w]) - 1
  BY <1>1
<1>3. \A i \in 1..Len(Tail(todo[w])) : Tail(todo[w])[i] = todo[w][i + 1]
  BY <1>1, <1>2
<1>4. r \in spooled /\ \A s \in Spoolers : rec[s] # r
  BY <1>1, <1>2 DEF Lines
<1>5. sent[r] <= failures
  BY <1>1, <1>2 DEF Sending, Fresh
<1>6. ASSUME NEW i \in 1..Len(Tail(todo[w])) PROVE Tail(todo[w])[i] # r
  <2>1. i + 1 \in 1..Len(todo[w]) /\ i + 1 # 1
    BY <1>2
  <2>2. todo[w][i + 1] # todo[w][1]
    BY <1>1, <1>2, <2>1 DEF Sending, Distinct
  <2> QED BY <1>2, <1>3, <2>2
<1>7. \A i \in 1..Len(kept[w]) : kept[w][i] # r
  BY <1>1, <1>2 DEF Sending, Apart
<1>8. moved => \A k \in 1..Len(file) : file[k] # r
  BY <1>1, <1>2 DEF Sending, Apart
<1>9. ASSUME ~moved PROVE Done(w) + 1 \in 1..Len(file) /\ file[Done(w) + 1] = r
  <2>1. Done(w) + 1 \in 1..Len(file)
    BY <1>1, <1>2, <1>9 DEF Sending, Done
  <2> QED BY <1>1, <1>2, <1>9, <2>1 DEF Sending
<1> QED BY <1>2, <1>3, <1>4, <1>5, <1>6, <1>7, <1>8, <1>9

\* A line of the snapshot is sent, expired or kept.
LEMMA LineKeeps ==
    ASSUME OutboxInv, OutboxTyped', NEW w \in Workers,
           Accept(w) \/ Reject(w) \/ Expire(w)
    PROVE  OutboxInv'
<1> USE OutboxAssumption
<1>0. PICK r : r = Head(todo[w])
  OBVIOUS
<1>1. /\ pc[w] = "send" /\ todo[w] # << >> /\ todo' = [todo EXCEPT ![w] = Tail(todo[w])]
      /\ UNCHANGED <<file, spooled, rec, fd, rotated, pc, snapshot, appended, failures, moved,
                     exposed>>
  BY DEF Accept, Reject, Expire, NextLine, spoolVars, history
<1>2. \/ sent' = [sent EXCEPT ![r] = sent[r] + 1] /\ UNCHANGED <<kept, expired>>
      \/ kept' = [kept EXCEPT ![w] = Append(kept[w], r)] /\ UNCHANGED <<sent, expired>>
      \/ expired' = expired \cup {r} /\ UNCHANGED <<sent, kept>>
  BY <1>0 DEF Accept, Reject, Expire
<1>3. /\ r \in Records /\ r \in spooled /\ sent[r] <= failures
      /\ \A s \in Spoolers : rec[s] # r
      /\ Tail(todo[w]) \in Seq(Records) /\ Len(todo[w]) > 0
      /\ Len(Tail(todo[w])) = Len(todo[w]) - 1
      /\ \A i \in 1..Len(Tail(todo[w])) :
            Tail(todo[w])[i] = todo[w][i + 1] /\ Tail(todo[w])[i] # r
      /\ \A i \in 1..Len(kept[w]) : kept[w][i] # r
      /\ moved => \A k \in 1..Len(file) : file[k] # r
      /\ ~moved => Done(w) + 1 \in 1..Len(file) /\ file[Done(w) + 1] = r
  BY <1>0, <1>1, NextLineIs
<1>4. /\ Drained(w) /\ Sending(w)
      /\ todo[w] \in Seq(Records) /\ kept[w] \in Seq(Records) /\ file \in Seq(Records)
      /\ snapshot[w] \in Nat /\ Distinct(file)
      /\ sent \in [Records -> Nat] /\ failures \in Nat
  BY <1>1 DEF OutboxInv, OutboxTyped, Drained
<1>5. /\ \A x \in Records : x # r => sent'[x] = sent[x]
      /\ sent'[r] <= failures + 1
      /\ \A x \in Records : SentOrExpired(x) => SentOrExpired(x)'
  <2>1. \A x \in Records : x # r => sent'[x] = sent[x]
    BY <1>2, <1>3, <1>4
  <2>2. sent'[r] <= failures + 1 /\ sent'[r] >= sent[r]
    BY <1>2, <1>3, <1>4
  <2>3. \A x \in Records : x \in expired => x \in expired'
    BY <1>2
  <2>4. sent'[r] \in Nat /\ sent[r] \in Nat
    BY <1>2, <1>3, <1>4
  <2>5. \A x \in Records : sent[x] > 0 => sent'[x] > 0
    <3>1. sent[r] > 0 => sent'[r] > 0
      BY <2>2, <2>4
    <3> QED BY <2>1, <3>1
  <2>6. \A x \in Records : SentOrExpired(x) => SentOrExpired(x)'
    BY <2>3, <2>5 DEF SentOrExpired
  <2> QED BY <2>1, <2>2, <2>6
<1>6. Hands'
  <2>1. \A s \in Spoolers : rec[s] # None => rec[s] \in spooled /\ sent'[rec[s]] <= failures
    BY <1>3, <1>5 DEF OutboxInv, OutboxTyped, Hands
  <2>2. \A x \in Records \ spooled : sent'[x] <= failures
    BY <1>3, <1>5 DEF OutboxInv, Hands
  <2> QED BY <1>1, <2>1, <2>2 DEF OutboxInv, Hands
<1>7. ASSUME NEW x \in Workers \ {w} PROVE pc'[x] = "idle" /\ Drained(x)'
  BY <1>1, <1>2, OthersIdle DEF OutboxInv, OutboxTyped
<1>8. OneDrain'
  <2>1. DrainUnderWay'
    BY <1>1 DEF DrainUnderWay
  <2> QED BY <1>7, <2>1 DEF OneDrain
<1>9. /\ todo'[w] = Tail(todo[w]) /\ Len(todo'[w]) = Len(todo[w]) - 1
      /\ todo'[w] \in Seq(Records)
      /\ \A j \in 1..Len(todo'[w]) :
            /\ todo'[w][j] = todo[w][j + 1] /\ todo'[w][j] # r
            /\ j + 1 \in 1..Len(todo[w]) /\ todo[w][j + 1] \in Records
  <2>1. todo'[w] = Tail(todo[w])
    BY <1>1 DEF OutboxInv, OutboxTyped
  <2>2. \A j \in 1..Len(Tail(todo[w])) :
            j + 1 \in 1..Len(todo[w]) /\ todo[w][j + 1] \in Records
    BY <1>3, <1>4
  <2> QED BY <1>3, <2>1, <2>2
<1>14. /\ kept'[w] \in Seq(Records)
       /\ \A i \in 1..Len(kept[w]) : i \in 1..Len(kept'[w]) /\ kept'[w][i] = kept[w][i]
       /\ \A i \in 1..Len(kept'[w]) :
            \/ i \in 1..Len(kept[w]) /\ kept'[w][i] = kept[w][i]
            \/ i = Len(kept[w]) + 1 /\ kept'[w][i] = r /\ sent'[r] <= failures
       /\ SentOrExpired(r)' \/ \E i \in 1..Len(kept'[w]) : kept'[w][i] = r
  <2>1. kept'[w] \in Seq(Records) /\ Len(kept[w]) \in Nat
    BY <1>4 DEF OutboxTyped
  <2>2. CASE sent' = [sent EXCEPT ![r] = sent[r] + 1] /\ UNCHANGED <<kept, expired>>
    <3>1. sent'[r] > 0 /\ kept'[w] = kept[w]
      BY <1>3, <1>4, <2>2
    <3>2. SentOrExpired(r)'
      BY <3>1 DEF SentOrExpired
    <3> QED BY <2>1, <3>1, <3>2
  <2>3. CASE kept' = [kept EXCEPT ![w] = Append(kept[w], r)] /\ UNCHANGED <<sent, expired>>
    <3>1. kept'[w] = Append(kept[w], r)
      BY <2>3 DEF OutboxInv, OutboxTyped
    <3>2. /\ Len(Append(kept[w], r)) = Len(kept[w]) + 1
          /\ Append(kept[w], r)[Len(kept[w]) + 1] = r
          /\ \A i \in 1..Len(kept[w]) : Append(kept[w], r)[i] = kept[w][i]
      BY <1>3, <1>4
    <3>3. sent'[r] <= failures
      BY <1>3, <2>3
    <3> QED BY <2>1, <3>1, <3>2, <3>3
  <2>4. CASE expired' = expired \cup {r} /\ UNCHANGED <<sent, kept>>
    <3>1. kept'[w] = kept[w] /\ r \in expired'
      BY <2>4
    <3>2. SentOrExpired(r)'
      BY <3>1 DEF SentOrExpired
    <3> QED BY <2>1, <3>1, <3>2
  <2> QED BY <1>2, <2>2, <2>3, <2>4
<1>10. Drained(w)'
  <2>1. Lines(todo[w])' /\ Lines(kept[w])' /\ Lines(appended[w])'
    <3>1. Lines(todo[w]) /\ Lines(kept[w]) /\ Lines(appended[w])
      BY <1>4 DEF Drained
    <3>2. Lines(todo[w])'
      BY <1>1, <1>9, <3>1 DEF Lines
    <3>3. Lines(kept[w])'
      BY <1>1, <1>3, <1>14, <3>1 DEF Lines
    <3> QED BY <1>1, <3>1, <3>2, <3>3 DEF Lines
  <2>2. Distinct(kept[w])'
    <3>1. Distinct(kept[w])
      BY <1>4 DEF Drained
    <3>2. SUFFICES ASSUME NEW i \in 1..Len(kept'[w]), NEW j \in 1..Len(kept'[w]),
                          kept'[w][i] = kept'[w][j]
                   PROVE  i = j
      BY DEF Distinct
    <3>3. \A k \in 1..Len(kept[w]) : kept[w][k] # r
      BY <1>3
    <3>4. \/ /\ i \in 1..Len(kept[w]) /\ j \in 1..Len(kept[w])
             /\ kept[w][i] = kept[w][j]
          \/ i = j
      BY <1>14, <3>2, <3>3
    <3> QED BY <3>1, <3>4 DEF Distinct
  <2>3. Fresh(kept[w])'
    <3>1. Fresh(kept[w])
      BY <1>4 DEF Drained
    <3>2. ASSUME NEW i \in 1..Len(kept'[w]) PROVE sent'[kept'[w][i]] <= failures
      <4>1. CASE i \in 1..Len(kept[w])
        <5>1. kept'[w][i] = kept[w][i]
          BY <1>14, <4>1
        <5>2. kept[w][i] # r
          BY <1>3, <4>1
        <5>3. kept[w][i] \in Records
          BY <1>4, <4>1
        <5> QED BY <1>5, <3>1, <4>1, <5>1, <5>2, <5>3 DEF Fresh
      <4>2. CASE i \notin 1..Len(kept[w])
        BY <1>14, <4>2
      <4> QED BY <4>1, <4>2
    <3> QED BY <1>1, <3>2 DEF Fresh
  <2>4. InOrder(kept[w], file)'
    <3>1. ASSUME NEW i \in 1..Len(kept'[w]), NEW j \in 1..Len(kept'[w]), i < j,
                 NEW k \in 1..Len(file), NEW l \in 1..Len(file), k > l,
                 file[k] = kept'[w][i], file[l] = kept'[w][j]
          PROVE  FALSE
      <4>1. i \in 1..Len(kept[w]) /\ kept'[w][i] = kept[w][i]
        <5>1. Len(kept[w]) \in Nat
          BY <1>4
        <5>2. j \in 1..Len(kept[w]) \/ j = Len(kept[w]) + 1
          BY <1>14
        <5>3. i # Len(kept[w]) + 1
          BY <3>1, <5>1, <5>2
        <5> QED BY <1>14, <5>3
      <4>2. CASE j \in 1..Len(kept[w])
        <5>1. kept'[w][j] = kept[w][j] /\ InOrder(kept[w], file)
          BY <1>4, <1>14, <4>2 DEF Drained
        <5> QED BY <3>1, <4>1, <4>2, <5>1 DEF InOrder
      <4>3. CASE j \notin 1..Len(kept[w])
        <5>1. file[l] = r
          BY <1>14, <3>1, <4>3
        <5>2. ~moved /\ Done(w) + 1 \in 1..Len(file) /\ file[Done(w) + 1] = r
          BY <1>3, <5>1
        <5>3. l = Done(w) + 1
          BY <1>4, <5>1, <5>2 DEF Distinct
        <5>4. Done(w) \in Nat
          <6>1. Done(w) = snapshot[w] - Len(todo[w])
            BY <5>2 DEF Done
          <6>2. Len(todo[w]) <= snapshot[w]
            BY <1>4, <5>2 DEF Sending
          <6>3. Len(todo[w]) \in Nat /\ snapshot[w] \in Nat
            BY <1>4
          <6> QED BY <6>1, <6>2, <6>3
        <5>5. k > Done(w)
          BY <1>4, <3>1, <5>3, <5>4
        <5>6. \A m \in 1..Len(kept[w]) : kept[w][m] # file[k]
          <6>1. ~(k <= Done(w))
            BY <5>4, <5>5
          <6> QED BY <1>4, <6>1 DEF Sending
        <5> QED BY <3>1, <4>1, <5>6
      <4> QED BY <4>2, <4>3
    <3> QED BY <1>1, <3>1 DEF InOrder
  <2>5. Sending(w)'
    <3>1. Distinct(todo[w])'
      <4>1. Distinct(todo[w])
        BY <1>4 DEF Sending
      <4>2. ASSUME NEW i \in 1..Len(todo'[w]), NEW j \in 1..Len(todo'[w]),
                   todo'[w][i] = todo'[w][j]
            PROVE  i = j
        <5>1. i + 1 = j + 1
          BY <1>9, <4>1, <4>2 DEF Distinct
        <5> QED BY <5>1
      <4> QED BY <4>2 DEF Distinct
    <3>2. Apart(kept[w], todo[w])'
      <4>1. ASSUME NEW i \in 1..Len(kept'[w]), NEW j \in 1..Len(todo'[w])
            PROVE  kept'[w][i] # todo'[w][j]
        <5>1. todo'[w][j] = todo[w][j + 1] /\ todo'[w][j] # r /\ j + 1 \in 1..Len(todo[w])
          BY <1>9
        <5>2. \A m \in 1..Len(kept[w]) : kept[w][m] # todo[w][j + 1]
          BY <1>4, <5>1 DEF Sending, Apart
        <5> QED BY <1>14, <5>1, <5>2
      <4> QED BY <4>1 DEF Apart
    <3>3. Fresh(todo[w])'
      <4>1. ASSUME NEW j \in 1..Len(todo'[w]) PROVE sent'[todo'[w][j]] <= failures
        <5>1. /\ todo'[w][j] = todo[w][j + 1] /\ todo'[w][j] # r
              /\ j + 1 \in 1..Len(todo[w]) /\ todo[w][j + 1] \in Records
          BY <1>9
        <5>2. sent[todo[w][j + 1]] <= failures
          BY <1>4, <5>1 DEF Sending, Fresh
        <5> QED BY <1>5, <5>1, <5>2
      <4> QED BY <1>1, <4>1 DEF Fresh
    <3>4. CASE moved
      <4>1. Done(w)' = 0 /\ Done(w) = 0
        BY <1>1, <3>4 DEF Done
      <4>2. Apart(file, todo[w])'
        <5>1. \A j \in 1..Len(todo'[w]) :
                  todo'[w][j] = todo[w][j + 1] /\ j + 1 \in 1..Len(todo[w])
          BY <1>9
        <5> QED BY <1>1, <1>4, <3>4, <5>1 DEF Sending, Apart
      <4>3. ASSUME NEW k \in 1..Len(file)
            PROVE  /\ sent'[file[k]] <= failures
                   /\ \A i \in 1..Len(kept'[w]) : kept'[w][i] # file[k]
        <5>1. file[k] # r /\ file[k] \in Records
          BY <1>3, <1>4, <3>4
        <5>2. ~(k <= Done(w))
          BY <4>1
        <5>3. /\ sent[file[k]] <= failures
              /\ \A i \in 1..Len(kept[w]) : kept[w][i] # file[k]
          BY <1>4, <5>2 DEF Sending
        <5> QED BY <1>5, <1>14, <5>1, <5>3
      <4>4. (\A k \in 1..Len(file) : file[k] \in exposed)'
        BY <1>1, <1>4, <3>4 DEF Sending
      <4>5. appended'[w] = << >> /\ moved'
        BY <1>1, <1>4, <3>4 DEF Sending
      <4>6. \A k \in 1..Len(file) : ~(k <= 0)
        BY <1>4
      <4> QED BY <1>1, <3>1, <3>2, <3>3, <4>1, <4>2, <4>3, <4>4, <4>5, <4>6 DEF Sending
    <3>5. CASE ~moved
      <4>1. /\ Done(w) = snapshot[w] - Len(todo[w]) /\ Done(w)' = Done(w) + 1
            /\ Done(w) \in Nat /\ Done(w) + 1 \in 1..Len(file) /\ file[Done(w) + 1] = r
            /\ snapshot[w] <= Len(file) /\ Len(todo[w]) <= snapshot[w]
        <5>1. /\ Done(w) = snapshot[w] - Len(todo[w])
              /\ Done(w)' = snapshot[w] - Len(todo'[w])
              /\ Len(todo[w]) \in Nat
          BY <1>1, <1>4, <3>5 DEF Done
        <5>2. snapshot[w] <= Len(file) /\ Len(todo[w]) <= snapshot[w]
          BY <1>4, <3>5 DEF Sending
        <5>3. Done(w) + 1 \in 1..Len(file) /\ file[Done(w) + 1] = r
          BY <1>3, <3>5
        <5>4. Len(todo'[w]) = Len(todo[w]) - 1
          BY <1>9
        <5>5. Done(w) \in Nat /\ Done(w)' = Done(w) + 1
          <6>1. Len(todo[w]) \in Nat /\ snapshot[w] \in Nat /\ Len(todo[w]) <= snapshot[w]
            BY <1>4, <5>1, <5>2
          <6> QED BY <5>1, <5>4, <6>1
        <5> QED BY <5>1, <5>2, <5>3, <5>5
      <4>2. ASSUME NEW i \in 1..Len(todo'[w]) PROVE todo'[w][i] = file[Done(w) + 1 + i]
        <5>1. todo'[w][i] = todo[w][i + 1] /\ i + 1 \in 1..Len(todo[w])
          BY <1>9
        <5>2. Done(w) + (i + 1) = Done(w) + 1 + i
          BY <1>9, <4>1
        <5> QED BY <1>4, <3>5, <5>1, <5>2 DEF Sending
      <4>3. ASSUME NEW i \in 1..Len(kept'[w])
            PROVE  \E k \in 1..Done(w) + 1 : kept'[w][i] = file[k]
        <5>1. CASE i \in 1..Len(kept[w])
          <6>1. PICK k \in 1..Done(w) : kept[w][i] = file[k]
            BY <1>4, <3>5, <5>1 DEF Sending
          <6> QED BY <1>14, <4>1, <5>1, <6>1
        <5>2. CASE i \notin 1..Len(kept[w])
          <6>1. kept'[w][i] = file[Done(w) + 1] /\ Done(w) + 1 \in 1..Done(w) + 1
            BY <1>14, <4>1, <5>2
          <6> QED BY <6>1
        <5> QED BY <5>1, <5>2
      <4>4. ASSUME NEW k \in 1..Len(file)
            PROVE  IF k <= Done(w) + 1
                   THEN SentOrExpired(file[k])' \/ \E i \in 1..Len(kept'[w]) : kept'[w][i] = file[k]
                   ELSE sent'[file[k]] <= failures /\ \A i \in 1..Len(kept'[w]) : kept'[w][i] # file[k]
        <5>1. CASE k <= Done(w)
          <6>1. SentOrExpired(file[k]) \/ \E i \in 1..Len(kept[w]) : kept[w][i] = file[k]
            BY <1>4, <5>1 DEF Sending
          <6>2. SentOrExpired(file[k])' \/ \E i \in 1..Len(kept'[w]) : kept'[w][i] = file[k]
            <7>1. PICK x \in Records : x = file[k]
              BY <1>4
            <7>2. SentOrExpired(x) => SentOrExpired(x)'
              BY <1>5
            <7>3. file'[k] = x
              BY <1>1, <7>1
            <7> QED BY <1>14, <6>1, <7>1, <7>2, <7>3 DEF SentOrExpired
          <6> QED BY <4>1, <5>1, <6>2
        <5>2. CASE k = Done(w) + 1
          <6>1. SentOrExpired(r)' \/ \E i \in 1..Len(kept'[w]) : kept'[w][i] = r
            BY <1>14
          <6>2. file[k] = r
            BY <4>1, <5>2
          <6>3. k <= Done(w) + 1
            BY <4>1, <5>2
          <6>4. SentOrExpired(file[k])' <=> SentOrExpired(r)'
            BY <1>1, <6>2 DEF SentOrExpired
          <6> QED BY <6>1, <6>2, <6>3, <6>4
        <5>3. CASE ~(k <= Done(w)) /\ k # Done(w) + 1
          <6>1. /\ sent[file[k]] <= failures
                /\ \A i \in 1..Len(kept[w]) : kept[w][i] # file[k]
            BY <1>4, <5>3 DEF Sending
          <6>2. file[k] # r /\ file[k] \in Records
            BY <1>4, <4>1, <5>3 DEF Distinct
          <6>3. /\ sent'[file[k]] <= failures
                /\ \A i \in 1..Len(kept'[w]) : kept'[w][i] # file[k]
            BY <1>5, <1>14, <6>1, <6>2
          <6> QED BY <4>1, <5>3, <6>3
        <5> QED BY <5>1, <5>2, <5>3
      <4>5. snapshot[w] <= Len(file) /\ Len(todo'[w]) <= snapshot[w]
        BY <1>3, <1>4, <1>9, <4>1
      <4>6. appended'[w] = << >> /\ ~moved'
        BY <1>1, <1>4, <3>5 DEF Sending
      <4> QED BY <1>1, <3>1, <3>2, <3>3, <4>1, <4>2, <4>3, <4>4, <4>5, <4>6 DEF Sending
    <3> QED BY <3>4, <3>5
  <2> QED BY <1>1, <2>1, <2>2, <2>3, <2>4, <2>5 DEF Drained
<1>11. Lines(file)' /\ Distinct(file)'
  BY <1>1 DEF OutboxInv, Lines
<1>12. (\A x \in Records : sent[x] <= failures + 1)'
  BY <1>1, <1>5 DEF OutboxInv
<1>13. ASSUME NEW x \in spooled' PROVE Accounted(x)'
  BY <1>1, <1>5 DEF OutboxInv, OutboxTyped, Accounted
<1> QED BY <1>6, <1>7, <1>8, <1>10, <1>11, <1>12, <1>13 DEF OutboxInv

LEMMA RereadKeeps ==
    ASSUME OutboxInv, OutboxTyped', NEW w \in Workers, Reread(w)
    PROVE  OutboxInv'
<1> USE OutboxAssumption
<1>1. /\ pc[w] = "send" /\ todo[w] = << >>
      /\ appended' = [appended EXCEPT ![w] = SubSeq(file, snapshot[w] + 1, Len(file))]
      /\ pc' = [pc EXCEPT ![w] = "rewrite"]
      /\ UNCHANGED <<file, spooled, rec, fd, rotated, todo, snapshot, kept, sent, expired,
                     failures, moved, exposed>>
  BY DEF Reread, Goto, spoolVars, history
<1>2. /\ Drained(w) /\ Sending(w) /\ Lines(file) /\ Distinct(file)
      /\ kept[w] \in Seq(Records) /\ file \in Seq(Records) /\ snapshot[w] \in Nat
  BY <1>1 DEF OutboxInv, OutboxTyped, Drained
<1>3. PICK n \in Nat : n = snapshot[w]
  BY <1>2
<1>4. PICK more : more = SubSeq(file, n + 1, Len(file))
  OBVIOUS
<1>5. /\ more \in Seq(Records) /\ appended'[w] = more
      /\ \A i \in 1..Len(more) : n + i \in 1..Len(file) /\ more[i] = file[n + i]
      /\ \A k \in 1..Len(file) : k > n => k - n \in 1..Len(more) /\ more[k - n] = file[k]
  <2>1. /\ more \in Seq(Records)
        /\ Len(more) = IF n + 1 <= Len(file) THEN Len(file) - (n + 1) + 1 ELSE 0
        /\ \A i \in 1..Len(file) - (n + 1) + 1 : more[i] = file[n + 1 + i - 1]
    <3>1. \A i \in n + 1..Len(file) : file[i] \in Records
      BY <1>2
    <3> QED BY <1>2, <1>4, <3>1, SubSeqProperties
  <2>2. Len(more) = IF n + 1 <= Len(file) THEN Len(file) - n ELSE 0
    BY <1>2, <2>1
  <2>3. ASSUME NEW i \in 1..Len(more) PROVE more[i] = file[n + i]
    <3>1. i \in 1..Len(file) - (n + 1) + 1 /\ n + 1 + i - 1 = n + i
      BY <1>2, <2>2
    <3> QED BY <2>1, <3>1
  <2>4. appended'[w] = more
    BY <1>1, <1>3, <1>4 DEF OutboxInv, OutboxTyped
  <2>5. \A i \in 1..Len(more) : n + i \in 1..Len(file)
    BY <1>2, <1>3, <2>2
  <2>6. \A k \in 1..Len(file) : k > n => k - n \in 1..Len(more)
    BY <1>2, <1>3, <2>2
  <2>7. ASSUME NEW k \in 1..Len(file), k > n PROVE more[k - n] = file[k]
    <3>1. more[k - n] = file[n + (k - n)]
      BY <2>3, <2>6, <2>7
    <3>2. n + (k - n) = k
      BY <1>2, <1>3
    <3> QED BY <3>1, <3>2
  <2> QED BY <2>1, <2>3, <2>4, <2>5, <2>6, <2>7
<1>6. /\ moved => Done(w) = 0
      /\ ~moved => Done(w) = n /\ n <= Len(file)
  BY <1>1, <1>2, <1>3 DEF Sending, Done
\* What it keeps and what it merges.
<1>7. ASSUME NEW k \in 1..Len(file), k > n
      PROVE  sent[file[k]] <= failures /\ \A i \in 1..Len(kept[w]) : kept[w][i] # file[k]
  <2>1. ~(k <= Done(w))
    BY <1>6, <1>7
  <2> QED BY <1>2, <2>1 DEF Sending
<1>8. ASSUME NEW i \in 1..Len(kept[w]), NEW k \in 1..Len(file), kept[w][i] = file[k]
      PROVE  k <= n
  BY <1>2, <1>3, <1>7, <1>8
<1>9. Hands'
  BY <1>1 DEF OutboxInv, OutboxTyped, Hands
<1>10. ASSUME NEW x \in Workers \ {w} PROVE pc'[x] = "idle" /\ Drained(x)'
  BY <1>1, OthersIdle DEF OutboxInv, OutboxTyped
<1>11. pc'[w] = "rewrite" /\ todo'[w] = << >> /\ kept'[w] = kept[w]
  BY <1>1 DEF OutboxInv, OutboxTyped
<1>12. OneDrain'
  <2>1. DrainUnderWay'
    BY <1>11 DEF DrainUnderWay
  <2> QED BY <1>10, <2>1 DEF OneDrain
<1>13. Drained(w)'
  <2>1. Lines(todo[w])' /\ Lines(kept[w])' /\ Lines(appended[w])'
    <3>1. Lines(todo[w]) /\ Lines(kept[w])
      BY <1>2 DEF Drained
    <3>2. \A i \in 1..Len(more) :
              more[i] \in spooled /\ \A s \in Spoolers : rec[s] # more[i]
      BY <1>2, <1>5, SMTT(20) DEF Lines
    <3>3. Lines(appended[w])'
      BY <1>1, <1>5, <3>2 DEF Lines
    <3> QED BY <1>1, <3>1, <3>3 DEF Lines
  <2>2. Distinct(kept[w])' /\ InOrder(kept[w], file)' /\ Fresh(kept[w])'
    BY <1>1, <1>2 DEF Drained, Fresh
  <2>3. Distinct(more) /\ Apart(kept[w], more)
    <3>1. ASSUME NEW i \in 1..Len(more), NEW j \in 1..Len(more), more[i] = more[j]
          PROVE  i = j
      <4>1. n + i = n + j
        BY <1>2, <1>5, <3>1 DEF Distinct
      <4> QED BY <4>1
    <3>2. ASSUME NEW i \in 1..Len(kept[w]), NEW j \in 1..Len(more)
          PROVE  kept[w][i] # more[j]
      <4>1. n + j > n
        OBVIOUS
      <4> QED BY <1>5, <1>7, <4>1
    <3> QED BY <3>1, <3>2 DEF Distinct, Apart
  <2>4. InOrder(kept[w] \o more, file)
    <3> DEFINE u == kept[w] \o more
    <3>1. ASSUME NEW i \in 1..Len(u), NEW j \in 1..Len(u), i < j,
                 NEW k \in 1..Len(file), NEW l \in 1..Len(file), k > l,
                 file[k] = u[i], file[l] = u[j]
          PROVE  FALSE
      <4>0. Len(kept[w]) \in Nat /\ Len(more) \in Nat
        BY <1>2, <1>5
      <4>1. /\ \/ i \in 1..Len(kept[w]) /\ u[i] = kept[w][i]
               \/ i - Len(kept[w]) \in 1..Len(more) /\ u[i] = more[i - Len(kept[w])]
            /\ \/ j \in 1..Len(kept[w]) /\ u[j] = kept[w][j]
               \/ j - Len(kept[w]) \in 1..Len(more) /\ u[j] = more[j - Len(kept[w])]
        BY <1>2, <1>5, JoinedLines
      <4> HIDE DEF u
      <4>2. CASE i \in 1..Len(kept[w]) /\ u[i] = kept[w][i] /\ j \in 1..Len(kept[w]) /\ u[j] = kept[w][j]
        BY <1>2, <3>1, <4>2 DEF Drained, InOrder
      <4>3. CASE i \in 1..Len(kept[w]) /\ u[i] = kept[w][i]
                 /\ j - Len(kept[w]) \in 1..Len(more) /\ u[j] = more[j - Len(kept[w])]
        <5>1. k <= n
          BY <1>8, <3>1, <4>3
        <5>2. PICK m \in 1..Len(more) : file[l] = more[m]
          BY <3>1, <4>3
        <5>3. l = n + m
          BY <1>2, <1>5, <5>2 DEF Distinct
        <5> QED BY <3>1, <5>1, <5>3
      <4>4. CASE i - Len(kept[w]) \in 1..Len(more) /\ u[i] = more[i - Len(kept[w])]
                 /\ j - Len(kept[w]) \in 1..Len(more) /\ u[j] = more[j - Len(kept[w])]
        <5>1. PICK a \in 1..Len(more) : a = i - Len(kept[w]) /\ file[k] = more[a]
          BY <3>1, <4>4
        <5>2. PICK b \in 1..Len(more) : b = j - Len(kept[w]) /\ file[l] = more[b]
          BY <3>1, <4>4
        <5>3. k = n + a /\ l = n + b
          <6>1. /\ n + a \in 1..Len(file) /\ file[n + a] = file[k]
                /\ n + b \in 1..Len(file) /\ file[n + b] = file[l]
            BY <1>5, <5>1, <5>2
          <6> QED BY <1>2, <6>1 DEF Distinct
        <5>4. a < b
          <6>1. i \in Int /\ j \in Int
            BY <3>1
          <6> QED BY <3>1, <4>0, <5>1, <5>2, <6>1
        <5> QED BY <3>1, <5>3, <5>4
      <4>5. CASE i - Len(kept[w]) \in 1..Len(more) /\ j \in 1..Len(kept[w])
        BY <3>1, <4>0, <4>5
      <4> QED BY <4>1, <4>2, <4>3, <4>4, <4>5
    <3> QED BY <3>1 DEF InOrder
  <2>5. ASSUME NEW k \in 1..Len(file)
        PROVE  \/ SentOrExpired(file[k]) \/ file[k] \in exposed
               \/ \E i \in 1..Len(kept[w]) : kept[w][i] = file[k]
               \/ \E i \in 1..Len(more) : more[i] = file[k]
    <3>1. CASE moved
      BY <1>2, <3>1 DEF Sending
    <3>2. CASE k > n
      BY <1>5, <3>2
    <3>3. CASE ~moved /\ ~(k > n)
      <4>1. k <= Done(w)
        BY <1>3, <1>6, <3>3
      <4> QED BY <1>2, <4>1 DEF Sending
    <3> QED BY <3>1, <3>2, <3>3
  <2>6. \A i \in 1..Len(more) : sent[more[i]] <= failures
    <3>1. ASSUME NEW i \in 1..Len(more) PROVE sent[more[i]] <= failures
      <4>1. n + i > n
        OBVIOUS
      <4> QED BY <1>5, <1>7, <4>1
    <3> QED BY <3>1
  <2>7. Rewrites(w)'
    <3>1. /\ Distinct(appended[w])' /\ Apart(kept[w], appended[w])'
          /\ InOrder(kept[w] \o appended[w], file)'
      BY <1>1, <1>5, <1>11, <2>3, <2>4
    <3>2. Fresh(appended[w])'
      BY <1>1, <1>5, <2>6 DEF Fresh
    <3>3. (\A k \in 1..Len(file) :
            \/ SentOrExpired(file[k]) \/ file[k] \in exposed
            \/ \E i \in 1..Len(kept[w]) : kept[w][i] = file[k]
            \/ \E i \in 1..Len(appended[w]) : appended[w][i] = file[k])'
      <4>1. ASSUME NEW k \in 1..Len(file)
            PROVE  SentOrExpired(file[k])' <=> SentOrExpired(file[k])
        BY <1>1 DEF SentOrExpired
      <4>2. file' = file /\ exposed' = exposed
        BY <1>1
      <4>3. ASSUME NEW k \in 1..Len(file)
            PROVE  \/ SentOrExpired(file[k])' \/ file[k] \in exposed
                   \/ \E i \in 1..Len(kept[w]) : kept[w][i] = file[k]
                   \/ \E i \in 1..Len(more) : more[i] = file[k]
        BY <2>5, <4>1
      <4> QED BY <1>5, <1>11, <4>2, <4>3
    <3> QED BY <1>11, <3>1, <3>2, <3>3 DEF Rewrites
  <2> QED BY <1>11, <2>1, <2>2, <2>7 DEF Drained
<1>14. Lines(file)' /\ Distinct(file)'
  BY <1>1, <1>2 DEF Lines
<1>15. (\A x \in Records : sent[x] <= failures + 1)'
  BY <1>1 DEF OutboxInv
<1>16. ASSUME NEW x \in spooled' PROVE Accounted(x)'
  BY <1>1 DEF OutboxInv, Accounted, SentOrExpired
<1> QED BY <1>9, <1>10, <1>12, <1>13, <1>14, <1>15, <1>16 DEF OutboxInv

\* A worker that ends leaves a file that is to be sent from its first line.
LEMMA EndKeeps ==
    ASSUME OutboxInv, OutboxTyped', NEW w \in Workers, pc[w] # "idle",
           Forget(w), pc' = [pc EXCEPT ![w] = "idle"], UNCHANGED <<spooled, rec, sent, expired>>,
           \A s \in Spoolers : fd[s] # "none" => fd'[s] # "none",
           failures' \in {failures, failures + 1},
           Fresh(file)', Lines(file)', Distinct(file)', \A r \in spooled' : Accounted(r)'
    PROVE  OutboxInv'
<1> USE OutboxAssumption
<1>1. /\ \A s \in Spoolers : pc'[s] = pc[s]
      /\ pc'[w] = "idle" /\ todo'[w] = << >> /\ kept'[w] = << >> /\ appended'[w] = << >> /\ ~moved'
      /\ failures' >= failures
  BY DEF OutboxInv, OutboxTyped, Forget
<1>2. Hands'
  <2>1. \A r \in Records : sent[r] <= failures => sent'[r] <= failures'
    BY <1>1 DEF OutboxInv, OutboxTyped
  <2> QED BY <1>1, <2>1 DEF OutboxInv, OutboxTyped, Hands
<1>3. ASSUME NEW x \in Workers \ {w} PROVE pc'[x] = "idle" /\ Drained(x)'
  BY OthersIdle DEF Forget, OutboxInv, OutboxTyped
<1>4. Drained(w)'
  <2>1. Len(<< >>) = 0
    OBVIOUS
  <2> QED BY <1>1, <2>1 DEF Drained, Lines, Distinct, InOrder, Fresh
<1>5. OneDrain'
  BY <1>1, <1>3 DEF OneDrain
<1>6. (\A r \in Records : sent[r] <= failures + 1)'
  BY <1>1 DEF OutboxInv, OutboxTyped
<1> QED BY <1>2, <1>3, <1>4, <1>5, <1>6 DEF OutboxInv

LEMMA ReplaceKeeps ==
    ASSUME OutboxInv, OutboxTyped', NEW w \in Workers, Replace(w)
    PROVE  OutboxInv'
<1> USE OutboxAssumption
<1>1. /\ pc[w] = "rewrite" /\ Forget(w) /\ pc' = [pc EXCEPT ![w] = "idle"]
      /\ file' = kept[w] \o appended[w]
      /\ UNCHANGED <<spooled, rec, rotated, sent, expired, failures, exposed>>
      /\ \A s \in Spoolers : fd[s] # "none" => fd'[s] # "none"
  BY DEF Replace, Goto, Unlinked
<1>2. /\ Drained(w) /\ Rewrites(w)
      /\ kept[w] \in Seq(Records) /\ appended[w] \in Seq(Records) /\ file \in Seq(Records)
  BY <1>1 DEF OutboxInv, OutboxTyped, Drained
<1>3. \A i \in 1..Len(file') :
        \/ i \in 1..Len(kept[w]) /\ file'[i] = kept[w][i]
        \/ i - Len(kept[w]) \in 1..Len(appended[w]) /\ file'[i] = appended[w][i - Len(kept[w])]
  <2> DEFINE u == kept[w] \o appended[w]
  <2>1. \A i \in 1..Len(u) :
          \/ i \in 1..Len(kept[w]) /\ u[i] = kept[w][i]
          \/ i - Len(kept[w]) \in 1..Len(appended[w]) /\ u[i] = appended[w][i - Len(kept[w])]
    BY <1>2, JoinedLines
  <2> HIDE DEF u
  <2>2. file' = u
    BY <1>1 DEF u
  <2> QED BY <2>1, <2>2
<1>4. Fresh(file)'
  <2>1. /\ \A i \in 1..Len(kept[w]) : sent[kept[w][i]] <= failures
        /\ \A i \in 1..Len(appended[w]) : sent[appended[w][i]] <= failures
    BY <1>2 DEF Drained, Rewrites, Fresh
  <2> QED BY <1>1, <1>3, <2>1 DEF Fresh
<1>5. Lines(file)'
  <2>1. Lines(kept[w]) /\ Lines(appended[w])
    BY <1>2 DEF Drained
  <2>2. ASSUME NEW i \in 1..Len(file')
        PROVE  file'[i] \in spooled /\ \A s \in Spoolers : rec[s] # file'[i]
    BY <1>3, <2>1 DEF Lines
  <2> QED BY <1>1, <2>2 DEF Lines
<1>6. Distinct(file)'
  <2>1. ASSUME NEW i \in 1..Len(file'), NEW j \in 1..Len(file'), file'[i] = file'[j]
        PROVE  i = j
    <3>1. Distinct(kept[w]) /\ Distinct(appended[w]) /\ Apart(kept[w], appended[w])
      BY <1>2 DEF Drained, Rewrites
    <3>2. Len(kept[w]) \in Nat
      BY <1>2
    <3>3. CASE i \in 1..Len(kept[w]) /\ file'[i] = kept[w][i]
      BY <1>3, <2>1, <3>1, <3>3 DEF Distinct, Apart
    <3>4. CASE i - Len(kept[w]) \in 1..Len(appended[w]) /\ file'[i] = appended[w][i - Len(kept[w])]
      <4>1. j - Len(kept[w]) \in 1..Len(appended[w]) /\ file'[j] = appended[w][j - Len(kept[w])]
        BY <1>3, <2>1, <3>1, <3>4 DEF Apart
      <4>2. i - Len(kept[w]) = j - Len(kept[w])
        BY <2>1, <3>1, <3>4, <4>1 DEF Distinct
      <4> QED BY <3>2, <4>2
    <3> QED BY <1>3, <3>3, <3>4
  <2> QED BY <2>1 DEF Distinct
<1>7. ASSUME NEW r \in spooled' PROVE Accounted(r)'
  <2>1. Accounted(r)
    BY <1>1 DEF OutboxInv
  <2>2. PICK p \in Seq(Records), q \in Seq(Records) :
            p = kept[w] /\ q = appended[w] /\ file' = p \o q
    BY <1>1, <1>2
  <2>3. /\ Len(p) \in Nat /\ Len(q) \in Nat /\ Len(p \o q) = Len(p) + Len(q)
        /\ \A i \in 1..Len(p) : (p \o q)[i] = p[i]
        /\ \A i \in 1..Len(q) : (p \o q)[Len(p) + i] = q[i]
    BY JoinedLines
  <2>4. /\ \A i \in 1..Len(kept[w]) : \E k \in 1..Len(file') : file'[k] = kept[w][i]
        /\ \A i \in 1..Len(appended[w]) : \E k \in 1..Len(file') : file'[k] = appended[w][i]
    <3>1. \A i \in 1..Len(p) : i \in 1..Len(p \o q)
      BY <2>3
    <3>2. \A i \in 1..Len(q) : Len(p) + i \in 1..Len(p \o q)
      BY <2>3
    <3>3. \A i \in 1..Len(p) : \E k \in 1..Len(p \o q) : (p \o q)[k] = p[i]
      BY <2>3, <3>1
    <3>4. \A i \in 1..Len(q) : \E k \in 1..Len(p \o q) : (p \o q)[k] = q[i]
      BY <2>3, <3>2
    <3> QED BY <2>2, <3>3, <3>4, Zenon
  <2>5. CASE \E k \in 1..Len(file) : file[k] = r
    <3>1. \/ SentOrExpired(r) \/ r \in exposed
          \/ \E i \in 1..Len(kept[w]) : kept[w][i] = r
          \/ \E i \in 1..Len(appended[w]) : appended[w][i] = r
      BY <1>2, <2>5 DEF Rewrites
    <3>2. SentOrExpired(r)' <=> SentOrExpired(r)
      BY <1>1 DEF SentOrExpired
    <3>3. CASE \E k \in 1..Len(file') : file'[k] = r
      BY <3>3 DEF Accounted
    <3>4. CASE SentOrExpired(r) \/ r \in exposed
      BY <1>1, <3>2, <3>4 DEF Accounted
    <3>5. \/ SentOrExpired(r) \/ r \in exposed
          \/ \E k \in 1..Len(file') : file'[k] = r
      BY <2>4, <3>1, Zenon
    <3> QED BY <3>3, <3>4, <3>5
  <2> QED BY <1>1, <2>1, <2>5 DEF Accounted, SentOrExpired
<1> QED BY <1>1, <1>4, <1>5, <1>6, <1>7, EndKeeps

LEMMA FailKeeps ==
    ASSUME OutboxInv, OutboxTyped', NEW w \in Workers, Fail(w)
    PROVE  OutboxInv'
<1>1. /\ pc[w] # "idle" /\ Forget(w) /\ pc' = [pc EXCEPT ![w] = "idle"]
      /\ failures' = failures + 1
      /\ UNCHANGED <<file, spooled, rec, fd, rotated, sent, expired, exposed>>
  BY DEF Fail, Goto, spoolVars
<1>2. Fresh(file)'
  <2>1. \A i \in 1..Len(file) : file[i] \in Records
    BY DEF OutboxInv, OutboxTyped
  <2> QED BY <1>1, <2>1 DEF Fresh, OutboxInv
<1>3. Lines(file)' /\ Distinct(file)'
  BY <1>1 DEF OutboxInv, Lines
<1>4. ASSUME NEW r \in spooled' PROVE Accounted(r)'
  BY <1>1 DEF OutboxInv, Accounted, SentOrExpired
<1> QED BY <1>1, <1>2, <1>3, <1>4, EndKeeps
-----------------------------------------------------------------------------
LEMMA OutboxInvInit == Init => OutboxInv
<1> SUFFICES ASSUME Init PROVE OutboxInv
  OBVIOUS
<1> USE OutboxAssumption
<1>0. Len(<< >>) = 0 /\ << >> \in Seq(Records)
  OBVIOUS
<1>1. OutboxTyped
  BY <1>0 DEF Init, OutboxTyped
<1>2. Hands
  BY DEF Init, Hands
<1>3. OneDrain
  BY <1>0 DEF Init, OneDrain, DrainUnderWay, Fresh
<1>4. ASSUME NEW w \in Workers PROVE Drained(w)
  <2>1. pc[w] = "idle" /\ todo[w] = << >> /\ kept[w] = << >> /\ appended[w] = << >>
    BY DEF Init
  <2> QED BY <1>0, <2>1 DEF Drained, Lines, Distinct, InOrder, Fresh
<1>5. Lines(file) /\ Distinct(file)
  BY <1>0 DEF Init, Lines, Distinct
<1> QED BY <1>1, <1>2, <1>3, <1>4, <1>5 DEF Init, OutboxInv

LEMMA OutboxInvStep == OutboxInv /\ [Next]_vars => OutboxInv'
<1> SUFFICES ASSUME OutboxInv, [Next]_vars PROVE OutboxInv'
  OBVIOUS
<1>1. OutboxTyped'
  BY TypedStep DEF OutboxInv
<1>2. CASE UNCHANGED vars
  <2>1. UNCHANGED <<file, spooled, rec, fd, rotated, pc, todo, snapshot, kept, appended, sent,
                    expired, failures, moved, exposed>>
    BY <1>2 DEF vars, spoolVars, drainVars, history
  <2>2. Hands' /\ OneDrain'
    BY <2>1 DEF OutboxInv, Hands, OneDrain, DrainUnderWay, Fresh
  <2>3. ASSUME NEW w \in Workers PROVE Drained(w)'
    <3>1. Sending(w) => Sending(w)'
      BY <2>1 DEF Sending, Done, Fresh, SentOrExpired
    <3>2. Rewrites(w) => Rewrites(w)'
      BY <2>1 DEF Rewrites, Fresh, SentOrExpired
    <3> QED BY <2>1, <3>1, <3>2 DEF OutboxInv, Drained, Lines, Fresh
  <2>4. Lines(file)' /\ Distinct(file)' /\ \A r \in spooled' : Accounted(r)'
    BY <2>1 DEF OutboxInv, Lines, Accounted, SentOrExpired
  <2> QED BY <1>1, <2>1, <2>2, <2>3, <2>4 DEF OutboxInv
<1> QED BY <1>1, <1>2, SpoolKeeps, RotateKeeps, OpenKeeps, WriteKeeps, StartDrainKeeps, LineKeeps,
           RereadKeeps, ReplaceKeeps, FailKeeps
        DEF Next, SpoolStep, Drains
-----------------------------------------------------------------------------
LEMMA OutboxInvHolds == SafeSpec => []OutboxInv
BY OutboxInvInit, OutboxInvStep, PTL DEF SafeSpec

\* For any spoolers, records and failures, and any size at which the file is
\* rotated: a record that was written and is nowhere met the rewrite of a drain or
\* came after a rotation under one (_append_rotating, _drain_one_outbox).
THEOREM LostOnlyInRaceHolds == SafeSpec => []LostOnlyInRace
<1>1. OutboxInv => LostOnlyInRace
  <2> SUFFICES ASSUME OutboxInv, NEW r \in Lost PROVE r \in exposed
    BY DEF LostOnlyInRace
  <2>1. /\ r \in spooled /\ sent[r] = 0
        /\ r \notin Range(rec) /\ r \notin Range(file)
        /\ r \notin expired /\ r \notin rotated
    BY DEF Lost
  <2>2. \A s \in Spoolers : rec[s] # r
    BY <2>1 DEF Range, OutboxInv, OutboxTyped
  <2>3. \A i \in 1..Len(file) : file[i] # r
    BY <2>1 DEF Range, OutboxInv, OutboxTyped
  <2> QED BY <2>1, <2>2, <2>3 DEF OutboxInv, Accounted, SentOrExpired
<1> QED BY OutboxInvHolds, <1>1, PTL

\* The file never has a line twice, and no record is sent more often than there
\* were failures, plus once.
THEOREM NoSpuriousDuplicateHolds == SafeSpec => []NoSpuriousDuplicate
<1>1. OutboxInv => NoSpuriousDuplicate
  <2> SUFFICES ASSUME OutboxInv PROVE NoSpuriousDuplicate
    OBVIOUS
  <2>1. file \in Seq(Records) /\ Distinct(file)
    BY DEF OutboxInv, OutboxTyped
  <2>2. IsInjective(file)
    BY <2>1 DEF Distinct, IsInjective
  <2>3. \A r \in Records : sent[r] <= failures + 1
    BY DEF OutboxInv
  <2> QED BY <2>2, <2>3 DEF NoSpuriousDuplicate
<1> QED BY OutboxInvHolds, <1>1, PTL

\* The order of two lines is that of the file they were in, for every f and g.
Keeps(f, g) ==
    \A i, j \in 1..Len(g) : i < j => ~\E k, l \in 1..Len(f) : k > l /\ f[k] = g[i] /\ f[l] = g[j]

\* Records never overtake each other in the file.
THEOREM KeepsOrderHolds == SafeSpec => KeepsOrder
<1>1. OutboxInv /\ [Next]_vars => Keeps(file, file')
  <2> SUFFICES ASSUME OutboxInv, [Next]_vars PROVE Keeps(file, file')
    OBVIOUS
  <2>1. file \in Seq(Records) /\ Distinct(file) /\ Lines(file)
    BY DEF OutboxInv, OutboxTyped
  <2>2. CASE UNCHANGED file
    BY <2>1, <2>2 DEF Keeps, Distinct
  <2>3. ASSUME NEW s \in Spoolers, Rotate(s) PROVE Keeps(file, file')
    BY <2>3 DEF Rotate, Keeps
  <2>4. ASSUME NEW s \in Spoolers, Write(s), file' # file PROVE Keeps(file, file')
    <3>1. PICK x \in Records : x = rec[s] /\ file' = Append(file, x)
      BY <2>4 DEF Write, OutboxInv, OutboxTyped, Hands
    <3>2. \A k \in 1..Len(file) : file[k] # x
      BY <2>1, <3>1 DEF Lines
    <3>3. ASSUME NEW i \in 1..Len(file'), NEW j \in 1..Len(file'), i < j,
                 NEW k \in 1..Len(file), NEW l \in 1..Len(file), k > l,
                 file[k] = file'[i], file[l] = file'[j]
          PROVE  FALSE
      <4>1. /\ i \in 1..Len(file) /\ file'[i] = file[i]
            /\ j \in 1..Len(file) /\ file'[j] = file[j]
        BY <2>1, <3>1, <3>2, <3>3
      <4>2. k = i /\ l = j
        BY <2>1, <3>3, <4>1 DEF Distinct
      <4> QED BY <3>3, <4>2
    <3> QED BY <3>3 DEF Keeps
  <2>5. ASSUME NEW w \in Workers, Replace(w) PROVE Keeps(file, file')
    <3>1. PICK u : u = kept[w] \o appended[w]
      OBVIOUS
    <3>2. InOrder(u, file)
      BY <2>5, <3>1 DEF Replace, OutboxInv, Drained, Rewrites
    <3>3. file' = u
      BY <2>5, <3>1 DEF Replace
    <3> QED BY <3>2, <3>3 DEF InOrder, Keeps
  <2> QED BY <2>2, <2>3, <2>4, <2>5
          DEF Next, SpoolStep, Drains, Spool, Open, Write, StartDrain, Accept, Reject, Expire,
              Reread, Fail, vars
<1>2. OutboxInv /\ [Next]_vars =>
        [\A i, j \in 1..Len(file') : i < j =>
            ~\E k, l \in 1..Len(file) : k > l /\ file[k] = file'[i] /\ file[l] = file'[j]]_vars
  BY <1>1 DEF Keeps
<1> QED BY OutboxInvHolds, <1>2, PTL DEF SafeSpec, KeepsOrder
-----------------------------------------------------------------------------
\* Where a record ended is known of records that were spooled.
Ended == expired \subseteq spooled /\ rotated \subseteq spooled /\ exposed \subseteq spooled

LEMMA EndedStep == OutboxInv /\ Ended /\ failures <= MaxFailures /\ [Next]_vars
                    => Ended' /\ failures' <= MaxFailures
<1> SUFFICES ASSUME OutboxInv, Ended, failures <= MaxFailures, [Next]_vars
             PROVE  Ended' /\ failures' <= MaxFailures
  OBVIOUS
<1> USE OutboxAssumption DEF Ended
<1>1. failures \in Nat /\ \A i \in 1..Len(file) : file[i] \in spooled
  BY DEF OutboxInv, OutboxTyped, Lines
<1>2. Range(file) \subseteq spooled
  BY <1>1 DEF OutboxInv, OutboxTyped, Range
<1>3. CASE UNCHANGED vars
  BY <1>3 DEF vars, spoolVars, drainVars, history
<1>4. ASSUME NEW s \in Spoolers, SpoolStep(s) PROVE Ended' /\ failures' <= MaxFailures
  <2>1. CASE Spool(s)
    BY <2>1 DEF Spool, drainVars, history
  <2>2. CASE Rotate(s)
    BY <1>2, <2>2 DEF Rotate, drainVars
  <2>3. CASE Open(s)
    BY <2>3 DEF Open, drainVars, history
  <2>4. CASE Write(s)
    <3>1. rec[s] \in spooled
      BY <2>4 DEF Write, OutboxInv, OutboxTyped, Hands
    <3> QED BY <2>4, <3>1 DEF Write, drainVars
  <2> QED BY <1>4, <2>1, <2>2, <2>3, <2>4 DEF SpoolStep
<1>5. ASSUME NEW w \in Workers, StartDrain(w) \/ Drains(w) \/ Fail(w)
      PROVE  Ended' /\ failures' <= MaxFailures
  <2>1. CASE Expire(w)
    <3>1. Head(todo[w]) = todo[w][1] /\ 1 \in 1..Len(todo[w])
      BY <2>1 DEF Expire, NextLine, OutboxInv, OutboxTyped
    <3>2. Head(todo[w]) \in spooled
      BY <3>1 DEF OutboxInv, Drained, Lines
    <3> QED BY <2>1, <3>2 DEF Expire, spoolVars, history
  <2>2. CASE Fail(w)
    BY <1>1, <2>2 DEF Fail, spoolVars
  <2>3. CASE StartDrain(w) \/ Accept(w) \/ Reject(w) \/ Reread(w) \/ Replace(w)
    BY <2>3 DEF StartDrain, Accept, Reject, Reread, Replace, spoolVars, history
  <2> QED BY <1>5, <2>1, <2>2, <2>3 DEF Drains
<1> QED BY <1>3, <1>4, <1>5 DEF Next

\* The outbox is well typed: a record is sent at most once more than the drain
\* failed.
LEMMA OutboxTypeHolds == SafeSpec => []TypeOK
<1> DEFINE Inv == OutboxInv /\ Ended /\ failures <= MaxFailures
<1>1. Init => Inv
  BY OutboxInvInit, OutboxAssumption DEF Init, Ended
<1>2. Inv /\ [Next]_vars => Inv'
  BY OutboxInvStep, EndedStep
<1>3. Inv => TypeOK
  <2> SUFFICES ASSUME Inv PROVE TypeOK
    OBVIOUS
  <2>1. \A r \in Records : sent[r] \in 0..MaxFailures + 1
    BY OutboxAssumption DEF OutboxInv, OutboxTyped
  <2>2. sent \in [Records -> 0..MaxFailures + 1] /\ failures \in 0..MaxFailures
    BY <2>1, OutboxAssumption DEF OutboxInv, OutboxTyped
  <2> QED BY <2>2 DEF OutboxInv, OutboxTyped, Ended, TypeOK
<1> QED BY <1>1, <1>2, <1>3, PTL DEF SafeSpec
=============================================================================
