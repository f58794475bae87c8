--------------------------- MODULE PlanLockProofs ----------------------------
(***************************************************************************)
(* Proofs about PlanLock for any threads, processes and nesting depth: the *)
(* lock implements PlanMutex, a body never runs without the flock its      *)
(* block took, no flock is left behind, and the timing entry of a thread   *)
(* counts its live flocks.                                                 *)
(***************************************************************************)
EXTENDS PlanLock, SequenceTheorems, FiniteSetTheorems, TLAPS

IsLock(b) == b.kind = "lock"

\* The held set names the innermost block, which is a lock ...
Names(stack, h) == h # 0 => Innermost(stack, h) /\ IsLock(stack[h])

\* ... and an innermost block that is a lock is in the held set.
Covers(stack, h) ==
    \A n \in 1..Len(stack) : Innermost(stack, n) /\ IsLock(stack[n]) => h = n

\* Nothing real lies between a window and the lock it released.
WindowsFit(stack) ==
    \A n \in 1..Len(stack) : stack[n].kind = "window" =>
        /\ stack[n].fd \in 1..n-1
        /\ IsLock(stack[stack[n].fd])
        /\ \A m \in stack[n].fd+1..n-1 : ~IsReal(stack[m])

\* Two locks of a stack are separated by a window.
LocksApart(stack) ==
    \A m, n \in 1..Len(stack) :
        m < n /\ IsLock(stack[m]) /\ IsLock(stack[n]) =>
            \E k \in m+1..n-1 : IsReal(stack[k])

\* A lock records its own descriptor.
LocksOwn(stack) ==
    \A n \in 1..Len(stack) : IsLock(stack[n]) => stack[n].fd = n

Nested(stack) == WindowsFit(stack) /\ LocksApart(stack) /\ LocksOwn(stack)
-----------------------------------------------------------------------------
\* What Append and Front do to a stack, block by block.
LEMMA PushFacts ==
    ASSUME NEW s \in Seq(Blocks), NEW b \in Blocks
    PROVE  /\ Append(s, b) \in Seq(Blocks)
           /\ Len(s) \in Nat /\ Len(Append(s, b)) = Len(s) + 1
           /\ \A i \in 1..Len(s) : Append(s, b)[i] = s[i]
           /\ Append(s, b)[Len(s) + 1] = b
  BY AppendProperties, LenProperties

LEMMA PopFacts ==
    ASSUME NEW s \in Seq(Blocks), s # << >>
    PROVE  /\ Front(s) \in Seq(Blocks)
           /\ Len(s) \in Nat \ {0} /\ Len(Front(s)) = Len(s) - 1
           /\ \A i \in 1..Len(s)-1 : Front(s)[i] = s[i]
           /\ Last(s) = s[Len(s)] /\ Last(s) \in Blocks
<1>1. Len(s) \in Nat \ {0}
  BY LenProperties, EmptySeq
<1>2. \A i \in 1..Len(s)-1 : s[i] \in Blocks
  BY <1>1, ElementOfSeq
<1>3. Front(s) \in Seq(Blocks) /\ Len(Front(s)) = Len(s) - 1
      /\ \A i \in 1..Len(s)-1 : Front(s)[i] = s[i]
  <2>1. /\ SubSeq(s, 1, Len(s)-1) \in Seq(Blocks)
        /\ Len(SubSeq(s, 1, Len(s)-1)) = IF 1 <= Len(s)-1 THEN Len(s)-1-1+1 ELSE 0
        /\ \A i \in 1..(Len(s)-1)-1+1 : SubSeq(s, 1, Len(s)-1)[i] = s[1+i-1]
    BY <1>1, <1>2, SubSeqProperties
  <2> DEFINE u == SubSeq(s, 1, Len(s)-1)
  <2> HIDE DEF u
  <2>2. u \in Seq(Blocks) /\ Len(u) = Len(s)-1
    <3>1. u \in Seq(Blocks)
      BY <2>1 DEF u
    <3>2. Len(u) = IF 1 <= Len(s)-1 THEN Len(s)-1-1+1 ELSE 0
      BY <2>1 DEF u
    <3>3. \A l \in Nat \ {0} : (IF 1 <= l-1 THEN l-1-1+1 ELSE 0) = l-1
      OBVIOUS
    <3> QED BY <1>1, <3>1, <3>2, <3>3
  <2>3. ASSUME NEW i \in 1..Len(s)-1 PROVE u[i] = s[i]
    <3>1. i \in 1..(Len(s)-1)-1+1 /\ 1+i-1 = i
      BY <1>1
    <3>2. u[i] = s[1+i-1]
      BY <2>1, <3>1 DEF u
    <3> QED BY <3>1, <3>2
  <2> QED BY <2>2, <2>3 DEF u, Front
<1>4. Last(s) = s[Len(s)] /\ Last(s) \in Blocks
  BY <1>1, ElementOfSeq DEF Last
<1> QED BY <1>1, <1>3, <1>4

\* A block pushed on a well nested stack only has to fit itself.
LEMMA PushWindowsFit ==
    ASSUME NEW s \in Seq(Blocks), NEW b \in Blocks, WindowsFit(s),
           b.kind = "window" =>
               /\ b.fd \in 1..Len(s) /\ IsLock(s[b.fd])
               /\ \A m \in b.fd+1..Len(s) : ~IsReal(s[m])
    PROVE  WindowsFit(Append(s, b))
<1> DEFINE t == Append(s, b)
<1>1. /\ Len(s) \in Nat /\ Len(t) = Len(s) + 1
      /\ \A i \in 1..Len(s) : t[i] = s[i]
      /\ t[Len(s) + 1] = b
  BY PushFacts
<1> HIDE DEF t
<1>2. ASSUME NEW n \in 1..Len(t), t[n].kind = "window"
      PROVE  /\ t[n].fd \in 1..n-1 /\ IsLock(t[t[n].fd])
             /\ \A m \in t[n].fd+1..n-1 : ~IsReal(t[m])
  <2>1. CASE n \in 1..Len(s)
    <3>1. /\ s[n].fd \in 1..n-1 /\ IsLock(s[s[n].fd])
          /\ \A m \in s[n].fd+1..n-1 : ~IsReal(s[m])
      BY <1>1, <1>2, <2>1 DEF WindowsFit
    <3>2. t[n].fd = s[n].fd /\ \A m \in 1..n-1 : t[m] = s[m]
      BY <1>1, <2>1
    <3> QED BY <1>1, <2>1, <3>1, <3>2
  <2>2. CASE n = Len(s) + 1
    BY <1>1, <1>2, <2>2
  <2> QED BY <1>1, <2>1, <2>2
<1> QED BY <1>2 DEF t, WindowsFit

LEMMA PushLocksApart ==
    ASSUME NEW s \in Seq(Blocks), NEW b \in Blocks, LocksApart(s), ~IsLock(b)
    PROVE  LocksApart(Append(s, b))
<1> DEFINE t == Append(s, b)
<1>1. /\ Len(s) \in Nat /\ Len(t) = Len(s) + 1
      /\ \A i \in 1..Len(s) : t[i] = s[i]
      /\ t[Len(s) + 1] = b
  BY PushFacts
<1> HIDE DEF t
<1>2. ASSUME NEW m \in 1..Len(t), NEW n \in 1..Len(t),
             m < n, IsLock(t[m]), IsLock(t[n])
      PROVE  \E k \in m+1..n-1 : IsReal(t[k])
  <2>1. m \in 1..Len(s) /\ n \in 1..Len(s)
    BY <1>1, <1>2
  <2>2. PICK k \in m+1..n-1 : IsReal(s[k])
    BY <1>1, <1>2, <2>1 DEF LocksApart
  <2>3. k \in 1..Len(s)
    BY <2>1, <1>1
  <2> QED BY <1>1, <2>2, <2>3
<1> QED BY <1>2 DEF t, LocksApart

\* Opening a block that neither takes nor releases the flock.
LEMMA PushQuiet ==
    ASSUME NEW s \in Seq(Blocks), NEW b \in Blocks, ~IsReal(b),
           NEW h \in Nat, Names(s, h), Covers(s, h), Nested(s)
    PROVE  LET t == Append(s, b) IN Names(t, h) /\ Covers(t, h) /\ Nested(t)
<1> DEFINE t == Append(s, b)
<1> USE DEF IsReal, IsLock
<1>1. /\ Len(s) \in Nat /\ Len(t) = Len(s) + 1
      /\ \A i \in 1..Len(s) : t[i] = s[i]
      /\ t[Len(s) + 1] = b
  BY PushFacts
<1> HIDE DEF t
<1>2. Names(t, h)
  BY <1>1 DEF Names, Innermost
<1>3. Covers(t, h)
  BY <1>1 DEF Covers, Innermost
<1>4. WindowsFit(t)
  BY <1>1, PushWindowsFit DEF t, Nested
<1>5. LocksApart(t)
  BY <1>1, PushLocksApart DEF t, Nested
<1>6. LocksOwn(t)
  BY <1>1 DEF Nested, LocksOwn
<1> QED BY <1>2, <1>3, <1>4, <1>5, <1>6 DEF t, Nested

\* A new lock is opened only when no lock is innermost.
LEMMA PushLock ==
    ASSUME NEW s \in Seq(Blocks), NEW b \in Blocks,
           IsLock(b), b.fd = Len(s) + 1, Covers(s, 0), Nested(s)
    PROVE  LET t == Append(s, b)
           IN  Names(t, Len(s) + 1) /\ Covers(t, Len(s) + 1) /\ Nested(t)
<1> DEFINE t == Append(s, b)
<1> USE DEF IsReal, IsLock
<1>1. /\ Len(s) \in Nat /\ Len(t) = Len(s) + 1
      /\ \A i \in 1..Len(s) : t[i] = s[i]
      /\ t[Len(s) + 1] = b
  BY PushFacts
<1> HIDE DEF t
<1>2. Names(t, Len(s) + 1) /\ Covers(t, Len(s) + 1)
  BY <1>1 DEF Names, Covers, Innermost
<1>3. WindowsFit(t)
  BY <1>1, PushWindowsFit DEF t, Nested
<1>4. ASSUME NEW m \in 1..Len(t), NEW n \in 1..Len(t),
             m < n, IsLock(t[m]), IsLock(t[n])
      PROVE  \E k \in m+1..n-1 : IsReal(t[k])
  <2>1. CASE n <= Len(s)
    BY <1>1, <1>4, <2>1 DEF Nested, LocksApart
  <2>2. CASE n = Len(s) + 1
    <3>1. ~Innermost(s, m)
      BY <1>1, <1>4, <2>2 DEF Covers
    <3> QED BY <1>1, <1>4, <2>2, <3>1 DEF Innermost
  <2> QED BY <1>1, <2>1, <2>2
<1>5. LocksApart(t)
  BY <1>4 DEF LocksApart
<1>6. LocksOwn(t)
  BY <1>1 DEF Nested, LocksOwn
<1> QED BY <1>2, <1>3, <1>5, <1>6 DEF t, Nested

\* A window is opened over the innermost lock.
LEMMA PushWindow ==
    ASSUME NEW s \in Seq(Blocks), NEW b \in Blocks, NEW h \in Nat \ {0},
           b.kind = "window", b.fd = h, Names(s, h), Nested(s)
    PROVE  LET t == Append(s, b) IN Names(t, 0) /\ Covers(t, 0) /\ Nested(t)
<1> DEFINE t == Append(s, b)
<1> USE DEF IsReal, IsLock
<1>1. /\ Len(s) \in Nat /\ Len(t) = Len(s) + 1
      /\ \A i \in 1..Len(s) : t[i] = s[i]
      /\ t[Len(s) + 1] = b
  BY PushFacts
<1> HIDE DEF t
<1>2. Names(t, 0) /\ Covers(t, 0)
  BY <1>1 DEF Names, Covers, Innermost
<1>3. WindowsFit(t)
  BY <1>1, PushWindowsFit DEF t, Nested, Names, Innermost
<1>4. LocksApart(t)
  BY <1>1, PushLocksApart DEF t, Nested
<1>5. LocksOwn(t)
  BY <1>1 DEF Nested, LocksOwn
<1> QED BY <1>2, <1>3, <1>4, <1>5 DEF t, Nested

\* Every prefix of a well nested stack is well nested.
LEMMA PopNested ==
    ASSUME NEW s \in Seq(Blocks), s # << >>, Nested(s)
    PROVE  Nested(Front(s))
<1> DEFINE t == Front(s)
<1> USE DEF IsReal, IsLock
<1>1. /\ Len(s) \in Nat \ {0} /\ Len(t) = Len(s) - 1
      /\ \A i \in 1..Len(s)-1 : t[i] = s[i]
  BY PopFacts
<1> HIDE DEF t
<1>2. WindowsFit(t)
  <2>1. ASSUME NEW n \in 1..Len(t), t[n].kind = "window"
        PROVE  /\ t[n].fd \in 1..n-1 /\ IsLock(t[t[n].fd])
               /\ \A m \in t[n].fd+1..n-1 : ~IsReal(t[m])
    <3>1. /\ s[n].fd \in 1..n-1 /\ IsLock(s[s[n].fd])
          /\ \A m \in s[n].fd+1..n-1 : ~IsReal(s[m])
      BY <1>1, <2>1 DEF Nested, WindowsFit
    <3>2. t[n].fd = s[n].fd /\ \A m \in 1..n-1 : t[m] = s[m]
      BY <1>1, <2>1
    <3> QED BY <1>1, <2>1, <3>1, <3>2
  <2> QED BY <2>1 DEF WindowsFit
<1>3. LocksApart(t)
  <2>1. ASSUME NEW m \in 1..Len(t), NEW n \in 1..Len(t),
               m < n, IsLock(t[m]), IsLock(t[n])
        PROVE  \E k \in m+1..n-1 : IsReal(t[k])
    <3>1. PICK k \in m+1..n-1 : IsReal(s[k])
      BY <1>1, <2>1 DEF Nested, LocksApart
    <3>2. k \in 1..Len(s)-1
      BY <1>1, <3>1
    <3> QED BY <1>1, <3>1, <3>2
  <2> QED BY <2>1 DEF LocksApart
<1>4. LocksOwn(t)
  BY <1>1 DEF Nested, LocksOwn
<1> QED BY <1>2, <1>3, <1>4 DEF t, Nested

LEMMA PopQuiet ==
    ASSUME NEW s \in Seq(Blocks), s # << >>, ~IsReal(Last(s)), NEW h \in Nat
    PROVE  /\ Names(s, h) => Names(Front(s), h)
           /\ Covers(s, h) => Covers(Front(s), h)
<1> DEFINE t == Front(s)
<1> USE DEF IsReal, IsLock
<1>1. /\ Len(s) \in Nat \ {0} /\ Len(t) = Len(s) - 1
      /\ \A i \in 1..Len(s)-1 : t[i] = s[i]
      /\ Last(s) = s[Len(s)]
  BY PopFacts
<1> HIDE DEF t
<1>2. Names(s, h) => Names(t, h)
  BY <1>1 DEF Names, Innermost
<1>3. \A n \in 1..Len(t) : Innermost(t, n) => Innermost(s, n)
  BY <1>1 DEF Innermost
<1>4. Covers(s, h) => Covers(t, h)
  BY <1>1, <1>3 DEF Covers
<1> QED BY <1>2, <1>4 DEF t

\* Under a lock that closes there is no lock that the held set should name.
LEMMA PopLock ==
    ASSUME NEW s \in Seq(Blocks), s # << >>, IsLock(Last(s)), Nested(s)
    PROVE  Covers(Front(s), 0)
<1> DEFINE t == Front(s)
<1> USE DEF IsReal, IsLock
<1>1. /\ Len(s) \in Nat \ {0} /\ Len(t) = Len(s) - 1
      /\ \A i \in 1..Len(s)-1 : t[i] = s[i]
      /\ Last(s) = s[Len(s)]
  BY PopFacts
<1> HIDE DEF t
<1>2. ASSUME NEW n \in 1..Len(t), Innermost(t, n), IsLock(t[n]) PROVE FALSE
  <2>1. PICK k \in n+1..Len(s)-1 : IsReal(s[k])
    BY <1>1, <1>2 DEF Nested, LocksApart
  <2> QED BY <1>1, <1>2, <2>1 DEF Innermost
<1> QED BY <1>2 DEF t, Covers

\* Under a window that closes lies the lock whose descriptor it recorded.
LEMMA PopWindow ==
    ASSUME NEW s \in Seq(Blocks), s # << >>, Last(s).kind = "window", Nested(s)
    PROVE  /\ Last(s).fd \in 1..Len(s)-1
           /\ Names(Front(s), Last(s).fd)
           /\ Covers(Front(s), Last(s).fd)
<1> DEFINE t == Front(s)
           fd == Last(s).fd
<1> USE DEF IsReal, IsLock
<1>1. /\ Len(s) \in Nat \ {0} /\ Len(t) = Len(s) - 1
      /\ \A i \in 1..Len(s)-1 : t[i] = s[i]
      /\ Last(s) = s[Len(s)]
  BY PopFacts
<1>2. /\ fd \in 1..Len(s)-1 /\ IsLock(s[fd])
      /\ \A m \in fd+1..Len(s)-1 : ~IsReal(s[m])
  BY <1>1 DEF Nested, WindowsFit
<1> HIDE DEF t, fd
<1>3. Innermost(t, fd) /\ IsLock(t[fd])
  BY <1>1, <1>2 DEF Innermost
<1>4. \A n \in 1..Len(t) : Innermost(t, n) => n = fd
  BY <1>1, <1>2, <1>3 DEF Innermost
<1> QED BY <1>2, <1>3, <1>4 DEF t, fd, Names, Covers
-----------------------------------------------------------------------------
\* What is true of a thread's stack and held set.  The held set may leave a
\* lock out only while an exception unwinds it or while it is being released.
StackInv(t) ==
    /\ Nested(frames[t])
    /\ Names(frames[t], heldFd[t])
    /\ ~raising[t] /\ pc[t] # "unlock" => Covers(frames[t], heldFd[t])

\* What a thread at each label of the lock's code relies on.
LabelInv(t) ==
    /\ pc[t] \in {"waiting", "unlock", "reacquire"} => heldFd[t] = 0
    /\ pc[t] = "waiting" => ~raising[t] /\ Len(frames[t]) < MaxBlocks
    /\ pc[t] = "unlock" => frames[t] # << >> /\ IsLock(Top(t))
    /\ pc[t] = "reacquire" => frames[t] # << >> /\ Top(t).kind = "window"

BlocksOK ==
    /\ frames \in [Threads -> Seq(Blocks)]
    /\ \A t \in Threads : Len(frames[t]) <= MaxBlocks
    /\ heldFd \in [Threads -> 0..MaxBlocks]
    /\ pc \in [Threads -> {"run", "waiting", "register", "unlock", "reacquire"}]
    /\ raising \in [Threads -> BOOLEAN]

LockInv ==
    /\ BlocksOK
    /\ HolderOwnsFlock
    /\ \A t \in Threads : StackInv(t) /\ LabelInv(t)

\* A step of thread t leaves the other threads' state alone.
OthersKeep(t) ==
    \A u \in Threads \ {t} :
        /\ frames'[u] = frames[u] /\ heldFd'[u] = heldFd[u]
        /\ pc'[u] = pc[u] /\ raising'[u] = raising[u]

\* Each action of a thread, as what it does to that thread.
LEMMA LockAgainStep ==
    ASSUME LockInv, NEW t \in Threads, LockAgain(t) \/ OpenIdle(t)
    PROVE  LockInv'
<1>1. PICK b \in {Block("again", 0), Block("idle", 0)} :
          frames' = [frames EXCEPT ![t] = Append(@, b)]
  BY DEF LockAgain, OpenIdle, Push
<1>2. b \in Blocks /\ ~IsReal(b)
  BY PlanLockAssumption DEF Block, Blocks, IsReal
<1>3. /\ frames[t] \in Seq(Blocks) /\ heldFd[t] \in Nat /\ pc[t] = "run"
      /\ ~raising[t] /\ Len(frames[t]) < MaxBlocks
      /\ UNCHANGED <<owner, heldFd, pc, raising>>
  BY PlanLockAssumption DEF LockAgain, OpenIdle, Calls, LockInv, BlocksOK
<1>4. frames'[t] = Append(frames[t], b) /\ OthersKeep(t)
  BY <1>1, <1>3 DEF LockInv, BlocksOK, OthersKeep
<1>5. /\ Append(frames[t], b) \in Seq(Blocks)
      /\ Len(frames[t]) \in Nat /\ Len(Append(frames[t], b)) = Len(frames[t]) + 1
  BY <1>2, <1>3, PushFacts
<1>6. BlocksOK'
  BY <1>1, <1>3, <1>4, <1>5, PlanLockAssumption DEF LockInv, BlocksOK, OthersKeep
<1>7. HolderOwnsFlock'
  BY <1>3 DEF LockInv, HolderOwnsFlock
<1>8. StackInv(t)' /\ LabelInv(t)'
  <2>1. Names(frames[t], heldFd[t]) /\ Covers(frames[t], heldFd[t]) /\ Nested(frames[t])
    BY <1>3 DEF LockInv, StackInv
  <2>2. /\ Names(frames'[t], heldFd[t]) /\ Covers(frames'[t], heldFd[t])
        /\ Nested(frames'[t])
    BY <1>2, <1>3, <1>4, <2>1, PushQuiet
  <2> QED BY <1>3, <2>2 DEF StackInv, LabelInv
<1>9. ASSUME NEW u \in Threads \ {t} PROVE StackInv(u)' /\ LabelInv(u)'
  BY <1>4 DEF OthersKeep, LockInv, StackInv, LabelInv, Top
<1> QED BY <1>6, <1>7, <1>8, <1>9 DEF LockInv
LEMMA GetFlockStep ==
    ASSUME LockInv, NEW t \in Threads, GetFlock(t)
    PROVE  LockInv'
<1> DEFINE n == Len(frames[t]) + 1
           b == Block("lock", n)
<1>1. /\ frames[t] \in Seq(Blocks) /\ heldFd[t] = 0 /\ owner = NoFd
      /\ ~raising[t] /\ Len(frames[t]) < MaxBlocks /\ pc[t] # "unlock"
  BY DEF GetFlock, Calls, LockInv, BlocksOK, LabelInv
<1>2. Len(frames[t]) \in Nat /\ n \in 1..MaxBlocks
  BY <1>1, LenProperties, PlanLockAssumption
<1>3. b \in Blocks /\ IsLock(b) /\ b.fd = Len(frames[t]) + 1
  BY <1>2 DEF Block, Blocks, IsLock
<1>4. /\ frames'[t] = Append(frames[t], b) /\ heldFd'[t] = n /\ owner' = <<t, n>>
      /\ pc'[t] = "register" /\ raising' = raising /\ OthersKeep(t)
  BY DEF GetFlock, Push, Goto, LockInv, BlocksOK, OthersKeep
<1>5. /\ Append(frames[t], b) \in Seq(Blocks)
      /\ Len(Append(frames[t], b)) = n
  BY <1>1, <1>3, PushFacts
<1>6. BlocksOK'
  <2> HIDE DEF n, b
  <2>1. /\ frames' = [frames EXCEPT ![t] = Append(@, b)]
        /\ heldFd' = [heldFd EXCEPT ![t] = n]
        /\ pc' = [pc EXCEPT ![t] = "register"]
    BY DEF GetFlock, Push, Goto, n, b
  <2>2. Len(frames'[t]) <= MaxBlocks
    BY <1>2, <1>4, <1>5, PlanLockAssumption
  <2>3. \A u \in Threads \ {t} : Len(frames'[u]) <= MaxBlocks
    BY <1>4 DEF LockInv, BlocksOK, OthersKeep
  <2> QED BY <2>1, <2>2, <2>3, <1>2, <1>4, <1>5, PlanLockAssumption DEF LockInv, BlocksOK
<1>7. HolderOwnsFlock'
  <2>1. ASSUME NEW u \in Threads \ {t} PROVE heldFd'[u] = 0
    <3>1. heldFd[u] # 0 => owner \in Threads \X (1..MaxBlocks)
      BY PlanLockAssumption DEF LockInv, HolderOwnsFlock, BlocksOK
    <3> QED BY <1>1, <1>4, <3>1, PlanLockAssumption DEF OthersKeep
  <2> QED BY <1>4, <2>1 DEF HolderOwnsFlock
<1>8. StackInv(t)' /\ LabelInv(t)'
  <2>1. Covers(frames[t], 0) /\ Nested(frames[t])
    BY <1>1 DEF LockInv, StackInv
  <2>2. Names(frames'[t], n) /\ Covers(frames'[t], n) /\ Nested(frames'[t])
    BY <1>1, <1>3, <1>4, <2>1, PushLock
  <2> QED BY <1>4, <2>2 DEF StackInv, LabelInv
<1>9. ASSUME NEW u \in Threads \ {t} PROVE StackInv(u)' /\ LabelInv(u)'
  BY <1>4 DEF OthersKeep, LockInv, StackInv, LabelInv, Top
<1> QED BY <1>6, <1>7, <1>8, <1>9 DEF LockInv

LEMMA LabelStep ==
    ASSUME LockInv, NEW t \in Threads, Contend(t) \/ GiveUp(t) \/ Register(t)
    PROVE  LockInv'
<1>1. /\ UNCHANGED <<owner, frames, heldFd, raising>>
      /\ pc[t] \in {"run", "waiting", "register"}
      /\ pc'[t] \in {"run", "waiting"} /\ OthersKeep(t) /\ BlocksOK'
      /\ pc'[t] = "waiting" => heldFd[t] = 0 /\ ~raising[t] /\ Len(frames[t]) < MaxBlocks
  BY DEF Contend, GiveUp, Register, Calls, Goto, LockInv, BlocksOK, OthersKeep
<1>2. HolderOwnsFlock'
  BY <1>1 DEF LockInv, HolderOwnsFlock
<1>3. StackInv(t)' /\ LabelInv(t)'
  BY <1>1 DEF LockInv, StackInv, LabelInv
<1>4. ASSUME NEW u \in Threads \ {t} PROVE StackInv(u)' /\ LabelInv(u)'
  BY <1>1 DEF OthersKeep, LockInv, StackInv, LabelInv, Top
<1> QED BY <1>1, <1>2, <1>3, <1>4 DEF LockInv

\* A thread in front of a real innermost block holds that block or nothing.
LEMMA TopIsNamed ==
    ASSUME NEW s \in Seq(Blocks), s # << >>, IsReal(Last(s)),
           NEW h \in Nat, Names(s, h), h # 0
    PROVE  h = Len(s) /\ IsLock(Last(s))
<1>1. Len(s) \in Nat \ {0} /\ Last(s) = s[Len(s)]
  BY PopFacts
<1> QED BY <1>1 DEF Names, Innermost

LEMMA UnregisterStep ==
    ASSUME LockInv, NEW t \in Threads, Unregister(t)
    PROVE  LockInv'
<1>1. /\ UNCHANGED <<owner, frames, raising>>
      /\ frames[t] # << >> /\ IsLock(Top(t)) /\ pc'[t] = "unlock" /\ heldFd'[t] = 0
      /\ OthersKeep(t) /\ BlocksOK'
  BY PlanLockAssumption
     DEF Unregister, Leaves, Goto, LockInv, BlocksOK, OthersKeep, IsLock
<1>2. HolderOwnsFlock'
  BY <1>1 DEF LockInv, HolderOwnsFlock, OthersKeep
<1>3. StackInv(t)' /\ LabelInv(t)'
  BY <1>1 DEF LockInv, StackInv, LabelInv, Names, Top
<1>4. ASSUME NEW u \in Threads \ {t} PROVE StackInv(u)' /\ LabelInv(u)'
  BY <1>1 DEF OthersKeep, LockInv, StackInv, LabelInv, Top
<1> QED BY <1>1, <1>2, <1>3, <1>4 DEF LockInv

\* What popping a block leaves to prove: the thread's own stack.
LEMMA PopStep ==
    ASSUME LockInv, NEW t \in Threads, frames[t] # << >>,
           frames' = [frames EXCEPT ![t] = Front(@)],
           NEW h \in 0..MaxBlocks, heldFd' = [heldFd EXCEPT ![t] = h],
           pc' = [pc EXCEPT ![t] = "run"],
           NEW r \in BOOLEAN, raising' = [raising EXCEPT ![t] = r],
           HolderOwnsFlock',
           Names(Front(frames[t]), h), r \/ Covers(Front(frames[t]), h)
    PROVE  LockInv'
<1>1. frames[t] \in Seq(Blocks)
  BY DEF LockInv, BlocksOK
<1>2. /\ Front(frames[t]) \in Seq(Blocks) /\ Len(frames[t]) \in Nat
      /\ Len(Front(frames[t])) = Len(frames[t]) - 1
  BY <1>1, PopFacts
<1>3. /\ frames'[t] = Front(frames[t]) /\ heldFd'[t] = h /\ pc'[t] = "run"
      /\ raising'[t] = r /\ OthersKeep(t)
  BY DEF LockInv, BlocksOK, OthersKeep
<1>4. BlocksOK'
  <2>1. Len(frames'[t]) <= MaxBlocks
    BY <1>2, <1>3, PlanLockAssumption DEF LockInv, BlocksOK
  <2> QED BY <1>2, <1>3, <2>1, PlanLockAssumption DEF LockInv, BlocksOK, OthersKeep
<1>5. StackInv(t)' /\ LabelInv(t)'
  <2>1. Nested(Front(frames[t]))
    BY <1>1, PopNested DEF LockInv, StackInv
  <2> QED BY <1>3, <2>1 DEF StackInv, LabelInv
<1>6. ASSUME NEW u \in Threads \ {t} PROVE StackInv(u)' /\ LabelInv(u)'
  BY <1>3 DEF OthersKeep, LockInv, StackInv, LabelInv, Top
<1> QED BY <1>4, <1>5, <1>6 DEF LockInv

LEMMA UnlockStep ==
    ASSUME LockInv, NEW t \in Threads, Unlock(t)
    PROVE  LockInv'
<1> DEFINE r == raising[t] /\ Len(frames[t]) > 1
           h == 0
<1>1. /\ frames[t] \in Seq(Blocks) /\ frames[t] # << >> /\ IsLock(Last(frames[t]))
      /\ heldFd[t] = 0 /\ Nested(frames[t])
  BY DEF Unlock, LockInv, BlocksOK, StackInv, LabelInv, Top
<1>2. /\ frames' = [frames EXCEPT ![t] = Front(@)]
      /\ pc' = [pc EXCEPT ![t] = "run"]
      /\ raising' = [raising EXCEPT ![t] = r] /\ r \in BOOLEAN
      /\ heldFd' = [heldFd EXCEPT ![t] = h] /\ heldFd' = heldFd
  BY <1>1 DEF Unlock, Pop, Goto, LockInv, BlocksOK
<1>3. HolderOwnsFlock'
  <2>1. ASSUME NEW u \in Threads, heldFd[u] # 0 PROVE owner' = owner
    <3>1. u # t /\ owner = <<u, heldFd[u]>>
      BY <1>1, <2>1 DEF LockInv, HolderOwnsFlock
    <3>2. owner # <<t, Top(t).fd>>
      BY <3>1
    <3> QED BY <3>2 DEF Unlock, Release
  <2> QED BY <1>2, <2>1 DEF LockInv, HolderOwnsFlock
<1>4. Covers(Front(frames[t]), h)
  BY <1>1, PopLock
<1>5. Names(Front(frames[t]), h) /\ h \in 0..MaxBlocks
  BY PlanLockAssumption DEF Names
<1> QED
  <2> HIDE DEF r, h
  <2> QED BY <1>1, <1>2, <1>3, <1>4, <1>5, PopStep

LEMMA LeaveQuietlyStep ==
    ASSUME LockInv, NEW t \in Threads, LeaveQuietly(t)
    PROVE  LockInv'
<1> DEFINE r == raising[t] /\ Len(frames[t]) > 1
           h == heldFd[t]
<1>1. /\ frames[t] \in Seq(Blocks) /\ frames[t] # << >> /\ ~IsReal(Last(frames[t]))
      /\ h \in 0..MaxBlocks /\ h \in Nat /\ pc[t] = "run" /\ raising[t] \in BOOLEAN
      /\ Names(frames[t], h) /\ (~raising[t] => Covers(frames[t], h))
  BY PlanLockAssumption
     DEF LeaveQuietly, Leaves, LockInv, BlocksOK, StackInv, Top, IsReal
<1>2. /\ frames' = [frames EXCEPT ![t] = Front(@)]
      /\ pc' = [pc EXCEPT ![t] = "run"]
      /\ raising' = [raising EXCEPT ![t] = r] /\ r \in BOOLEAN
      /\ heldFd' = [heldFd EXCEPT ![t] = h]
      /\ UNCHANGED <<owner, heldFd>>
  BY <1>1 DEF LeaveQuietly, Pop, LockInv, BlocksOK
<1>3. HolderOwnsFlock'
  BY <1>2 DEF LockInv, HolderOwnsFlock
<1>4. Names(Front(frames[t]), h) /\ (~raising[t] => Covers(Front(frames[t]), h))
  BY <1>1, PopQuiet
<1>5. r \/ Covers(Front(frames[t]), h)
  <2>1. CASE ~raising[t]
    BY <1>4, <2>1
  <2>2. CASE raising[t] /\ ~r
    <3>1. /\ Len(frames[t]) \in Nat \ {0}
          /\ Len(Front(frames[t])) = Len(frames[t]) - 1
      BY <1>1, PopFacts
    <3>2. \A l \in Nat \ {0} : ~(l > 1) => 1..l-1 = {}
      OBVIOUS
    <3>3. 1..Len(Front(frames[t])) = {}
      BY <2>2, <3>1, <3>2
    <3> QED BY <3>3 DEF Covers
  <2> QED BY <2>1, <2>2
<1> QED
  <2> HIDE DEF r, h
  <2> QED BY <1>1, <1>2, <1>3, <1>4, <1>5, PopStep
LEMMA OpenWindowStep ==
    ASSUME LockInv, NEW t \in Threads, OpenWindow(t)
    PROVE  LockInv'
<1> DEFINE h == heldFd[t]
           b == Block("window", h)
<1>1. /\ frames[t] \in Seq(Blocks) /\ h \in 1..MaxBlocks /\ h \in Nat \ {0}
      /\ pc[t] = "run" /\ ~raising[t] /\ Len(frames[t]) < MaxBlocks
      /\ Names(frames[t], h) /\ Nested(frames[t]) /\ owner = <<t, h>>
  BY PlanLockAssumption
     DEF OpenWindow, Calls, LockInv, BlocksOK, StackInv, HolderOwnsFlock
<1>2. b \in Blocks /\ b.kind = "window" /\ b.fd = h
  BY <1>1 DEF Block, Blocks
<1>3. /\ frames' = [frames EXCEPT ![t] = Append(@, b)]
      /\ heldFd' = [heldFd EXCEPT ![t] = 0]
      /\ UNCHANGED <<pc, raising>> /\ owner' = NoFd
  BY <1>1 DEF OpenWindow, Push, Release
<1>4. frames'[t] = Append(frames[t], b) /\ heldFd'[t] = 0 /\ OthersKeep(t)
  BY <1>3 DEF LockInv, BlocksOK, OthersKeep
<1>5. /\ Append(frames[t], b) \in Seq(Blocks) /\ Len(frames[t]) \in Nat
      /\ Len(Append(frames[t], b)) = Len(frames[t]) + 1
  BY <1>1, <1>2, PushFacts
<1> HIDE DEF h, b
<1>6. BlocksOK'
  <2>1. Len(frames'[t]) <= MaxBlocks
    BY <1>1, <1>4, <1>5, PlanLockAssumption
  <2>2. \A u \in Threads \ {t} : Len(frames'[u]) <= MaxBlocks
    BY <1>4 DEF LockInv, BlocksOK, OthersKeep
  <2> QED BY <1>3, <1>5, <2>1, <2>2, PlanLockAssumption DEF LockInv, BlocksOK
<1>7. HolderOwnsFlock'
  <2>1. ASSUME NEW u \in Threads \ {t} PROVE heldFd'[u] = 0
    BY <1>1, <1>4 DEF OthersKeep, LockInv, HolderOwnsFlock
  <2> QED BY <1>4, <2>1 DEF HolderOwnsFlock
<1>8. StackInv(t)' /\ LabelInv(t)'
  <2>1. Names(frames'[t], 0) /\ Covers(frames'[t], 0) /\ Nested(frames'[t])
    BY <1>1, <1>2, <1>4, PushWindow
  <2> QED BY <1>1, <1>3, <1>4, <2>1 DEF StackInv, LabelInv
<1>9. ASSUME NEW u \in Threads \ {t} PROVE StackInv(u)' /\ LabelInv(u)'
  BY <1>4 DEF OthersKeep, LockInv, StackInv, LabelInv, Top
<1> QED BY <1>6, <1>7, <1>8, <1>9 DEF LockInv

LEMMA CloseWindowStep ==
    ASSUME LockInv, NEW t \in Threads, CloseWindow(t)
    PROVE  LockInv'
<1>1. /\ UNCHANGED <<owner, frames, heldFd, raising>>
      /\ frames[t] # << >> /\ Top(t).kind = "window" /\ pc'[t] = "reacquire"
      /\ pc[t] = "run" /\ OthersKeep(t) /\ BlocksOK'
  BY DEF CloseWindow, Leaves, Goto, LockInv, BlocksOK, OthersKeep
<1>2. HolderOwnsFlock'
  BY <1>1 DEF LockInv, HolderOwnsFlock
<1>3. heldFd[t] = 0
  <2>1. /\ frames[t] \in Seq(Blocks) /\ heldFd[t] \in Nat /\ Names(frames[t], heldFd[t])
        /\ IsReal(Last(frames[t])) /\ ~IsLock(Last(frames[t]))
    BY <1>1, PlanLockAssumption
       DEF LockInv, BlocksOK, StackInv, Top, IsReal, IsLock
  <2> QED BY <1>1, <2>1, TopIsNamed
<1>4. StackInv(t)' /\ LabelInv(t)'
  BY <1>1, <1>3 DEF LockInv, StackInv, LabelInv, Top
<1>5. ASSUME NEW u \in Threads \ {t} PROVE StackInv(u)' /\ LabelInv(u)'
  BY <1>1 DEF OthersKeep, LockInv, StackInv, LabelInv, Top
<1> QED BY <1>1, <1>2, <1>4, <1>5 DEF LockInv

LEMMA ReacquireStep ==
    ASSUME LockInv, NEW t \in Threads, Reacquire(t)
    PROVE  LockInv'
<1> DEFINE r == raising[t] /\ Len(frames[t]) > 1
           h == Top(t).fd
<1>1. /\ frames[t] \in Seq(Blocks) /\ frames[t] # << >>
      /\ Last(frames[t]).kind = "window" /\ Nested(frames[t]) /\ owner = NoFd
      /\ Len(frames[t]) <= MaxBlocks
  BY DEF Reacquire, LockInv, BlocksOK, StackInv, LabelInv, Top
<1>2. /\ h \in 1..Len(frames[t])-1 /\ Len(frames[t]) \in Nat
      /\ Names(Front(frames[t]), h) /\ Covers(Front(frames[t]), h)
  BY <1>1, PopWindow, PopFacts DEF Top
<1>3. /\ frames' = [frames EXCEPT ![t] = Front(@)]
      /\ pc' = [pc EXCEPT ![t] = "run"]
      /\ raising' = [raising EXCEPT ![t] = r] /\ r \in BOOLEAN
      /\ heldFd' = [heldFd EXCEPT ![t] = h] /\ owner' = <<t, h>>
  BY DEF Reacquire, Pop, Goto, LockInv, BlocksOK
<1> HIDE DEF r, h
<1>4. h \in 0..MaxBlocks
  BY <1>1, <1>2, PlanLockAssumption
<1>5. HolderOwnsFlock'
  <2>1. ASSUME NEW u \in Threads, u # t PROVE heldFd'[u] = 0
    <3>1. heldFd[u] # 0 => owner \in Threads \X (1..MaxBlocks)
      BY PlanLockAssumption DEF LockInv, HolderOwnsFlock, BlocksOK
    <3> QED BY <1>1, <1>3, <2>1, <3>1, PlanLockAssumption DEF LockInv, BlocksOK
  <2>2. heldFd'[t] = h
    BY <1>3 DEF LockInv, BlocksOK
  <2> QED BY <1>3, <2>1, <2>2 DEF HolderOwnsFlock
<1> QED BY <1>1, <1>2, <1>3, <1>4, <1>5, PopStep

LEMMA ReacquireTimeoutStep ==
    ASSUME LockInv, NEW t \in Threads, ReacquireTimeout(t)
    PROVE  LockInv'
<1> DEFINE r == TRUE
           h == 0
<1>1. frames[t] # << >> /\ heldFd[t] = 0
  BY DEF ReacquireTimeout, LockInv, LabelInv
<1>2. /\ frames' = [frames EXCEPT ![t] = Front(@)]
      /\ pc' = [pc EXCEPT ![t] = "run"]
      /\ raising' = [raising EXCEPT ![t] = r] /\ r \in BOOLEAN
      /\ heldFd' = [heldFd EXCEPT ![t] = h] /\ h \in 0..MaxBlocks
      /\ UNCHANGED <<owner, heldFd>>
  BY <1>1, PlanLockAssumption DEF ReacquireTimeout, Goto, LockInv, BlocksOK
<1>3. HolderOwnsFlock'
  BY <1>2 DEF LockInv, HolderOwnsFlock
<1>4. Names(Front(frames[t]), h) /\ (r \/ Covers(Front(frames[t]), h))
  BY DEF Names
<1> HIDE DEF r, h
<1> QED BY <1>1, <1>2, <1>3, <1>4, PopStep

LEMMA CrashStep ==
    ASSUME LockInv, NEW p \in Procs, Crash(p)
    PROVE  LockInv'
<1> DEFINE Dead(u) == ProcOf[u] = p
<1>1. \A u \in Threads :
        /\ frames'[u] = IF Dead(u) THEN << >> ELSE frames[u]
        /\ heldFd'[u] = IF Dead(u) THEN 0 ELSE heldFd[u]
        /\ pc'[u] = IF Dead(u) THEN "run" ELSE pc[u]
        /\ raising'[u] = IF Dead(u) THEN FALSE ELSE raising[u]
  BY DEF Crash
<1>2. BlocksOK'
  <2>1. << >> \in Seq(Blocks) /\ Len(<< >>) = 0
    BY EmptySeq
  <2>2. ASSUME NEW u \in Threads
        PROVE  frames'[u] \in Seq(Blocks) /\ Len(frames'[u]) <= MaxBlocks
    <3>1. CASE Dead(u)
      <4>1. frames'[u] = << >>
        BY <1>1, <3>1
      <4>2. Len(frames'[u]) = 0
        BY <2>1, <4>1
      <4> QED BY <2>1, <4>1, <4>2, PlanLockAssumption
    <3>2. CASE ~Dead(u)
      BY <1>1, <3>2 DEF LockInv, BlocksOK
    <3> QED BY <3>1, <3>2
  <2>3. ASSUME NEW u \in Threads
        PROVE  /\ heldFd'[u] \in 0..MaxBlocks /\ raising'[u] \in BOOLEAN
               /\ pc'[u] \in {"run", "waiting", "register", "unlock", "reacquire"}
    <3>1. 0 \in 0..MaxBlocks
      BY PlanLockAssumption
    <3>2. CASE Dead(u)
      BY <1>1, <3>1, <3>2
    <3>3. CASE ~Dead(u)
      BY <1>1, <3>3 DEF LockInv, BlocksOK
    <3> QED BY <3>2, <3>3
  <2>4. /\ frames' = [u \in Threads |-> frames'[u]]
        /\ heldFd' = [u \in Threads |-> heldFd'[u]]
        /\ pc' = [u \in Threads |-> pc'[u]]
        /\ raising' = [u \in Threads |-> raising'[u]]
    BY DEF Crash
  <2>5. frames' \in [Threads -> Seq(Blocks)]
    BY <2>2, <2>4
  <2>6. heldFd' \in [Threads -> 0..MaxBlocks]
    BY <2>3, <2>4
  <2>7. /\ pc' \in [Threads -> {"run", "waiting", "register", "unlock", "reacquire"}]
        /\ raising' \in [Threads -> BOOLEAN]
    BY <2>3, <2>4
  <2> QED BY <2>2, <2>5, <2>6, <2>7 DEF BlocksOK
<1>3. HolderOwnsFlock'
  <2>1. ASSUME NEW u \in Threads, heldFd'[u] # 0 PROVE owner' = <<u, heldFd'[u]>>
    <3>1. ~Dead(u) /\ heldFd'[u] = heldFd[u] /\ owner = <<u, heldFd[u]>>
      BY <1>1, <2>1 DEF LockInv, HolderOwnsFlock
    <3>2. \A v \in Threads, n \in 1..MaxBlocks : Dead(v) => owner # <<v, n>>
      BY <3>1
    <3> QED BY <3>1, <3>2 DEF Crash
  <2> QED BY <2>1 DEF HolderOwnsFlock
<1>4. ASSUME NEW u \in Threads PROVE StackInv(u)' /\ LabelInv(u)'
  <2>1. CASE Dead(u)
    <3>1. 1..Len(<< >>) = {}
      BY EmptySeq
    <3>2. Names(<< >>, 0) /\ Covers(<< >>, 0) /\ Nested(<< >>)
      BY <3>1 DEF Names, Covers, Nested, WindowsFit, LocksApart, LocksOwn
    <3> QED BY <1>1, <2>1, <3>2 DEF StackInv, LabelInv
  <2>2. CASE ~Dead(u)
    BY <1>1, <2>2 DEF LockInv, StackInv, LabelInv, Top
  <2> QED BY <2>1, <2>2
<1> QED BY <1>2, <1>3, <1>4 DEF LockInv
-----------------------------------------------------------------------------
LEMMA InitLock == Init => LockInv
<1> SUFFICES ASSUME Init PROVE LockInv
  OBVIOUS
<1>1. /\ << >> \in Seq(Blocks) /\ Len(<< >>) = 0 /\ 1..Len(<< >>) = {}
  BY EmptySeq
<1>2. BlocksOK /\ HolderOwnsFlock
  BY <1>1, PlanLockAssumption DEF Init, BlocksOK, HolderOwnsFlock
<1>3. Names(<< >>, 0) /\ Covers(<< >>, 0) /\ Nested(<< >>)
  BY <1>1 DEF Names, Covers, Nested, WindowsFit, LocksApart, LocksOwn
<1>4. ASSUME NEW t \in Threads PROVE StackInv(t) /\ LabelInv(t)
  BY <1>3 DEF Init, StackInv, LabelInv
<1> QED BY <1>2, <1>4 DEF LockInv

LEMMA LockStepInv ==
    ASSUME LockInv, NEW t \in Threads, LockStep(t) \/ WindowStep(t)
    PROVE  LockInv'
<1>1. CASE LockAgain(t) \/ OpenIdle(t)
  BY <1>1, LockAgainStep
<1>2. CASE GetFlock(t)
  BY <1>2, GetFlockStep
<1>3. CASE Contend(t) \/ GiveUp(t) \/ Register(t)
  BY <1>3, LabelStep
<1>4. CASE Unregister(t)
  BY <1>4, UnregisterStep
<1>5. CASE Unlock(t)
  BY <1>5, UnlockStep
<1>6. CASE LeaveQuietly(t)
  BY <1>6, LeaveQuietlyStep
<1>7. CASE OpenWindow(t)
  BY <1>7, OpenWindowStep
<1>8. CASE CloseWindow(t)
  BY <1>8, CloseWindowStep
<1>9. CASE Reacquire(t)
  BY <1>9, ReacquireStep
<1>10. CASE ReacquireTimeout(t)
  BY <1>10, ReacquireTimeoutStep
<1> QED BY <1>1, <1>2, <1>3, <1>4, <1>5, <1>6, <1>7, <1>8, <1>9, <1>10
        DEF LockStep, WindowStep

\* The inductive invariant: the stacks of blocks are well nested, the held set
\* names the innermost lock, and the flock belongs to the thread it names.
THEOREM LockInvHolds == SafeSpec => []LockInv
<1>1. LockInv /\ [Next]_vars => LockInv'
  <2> SUFFICES ASSUME LockInv, [Next]_vars PROVE LockInv'
    OBVIOUS
  <2>1. CASE \E t \in Threads : LockStep(t) \/ WindowStep(t)
    BY <2>1, LockStepInv
  <2>2. CASE \E p \in Procs : Crash(p)
    BY <2>2, CrashStep
  <2>3. CASE UNCHANGED vars
    BY <2>3 DEF vars, LockInv, BlocksOK, HolderOwnsFlock, StackInv, LabelInv, Top
  <2> QED BY <2>1, <2>2, <2>3 DEF Next
<1> QED BY InitLock, <1>1, PTL DEF SafeSpec

\* _plan_lock and _released_plan_lock never let a thread take the reentrant
\* path, or go on after a window, unless the flock is its own.
THEOREM HolderOwnsFlockHolds == SafeSpec => []HolderOwnsFlock
<1>1. LockInv => HolderOwnsFlock
  BY DEF LockInv
<1> QED BY LockInvHolds, <1>1, PTL

\* The body of a `with _plan_lock` block runs with the flock of that block,
\* whatever windows were opened and lost inside it.
THEOREM BodyHoldsLockHolds == SafeSpec => []BodyHoldsLock
<1>1. LockInv => BodyHoldsLock
  <2> SUFFICES ASSUME LockInv, NEW t \in Threads, NEW n \in 1..Len(frames[t]),
                      Innermost(frames[t], n), IsLock(frames[t][n]),
                      pc[t] = "run", ~raising[t]
               PROVE  heldFd[t] = n
    BY DEF BodyHoldsLock, IsLock
  <2>1. Covers(frames[t], heldFd[t])
    BY DEF LockInv, StackInv
  <2> QED BY <2>1 DEF Covers
<1> QED BY LockInvHolds, <1>1, PTL

Holders == {t \in Threads : heldFd[t] # 0}

\* Two threads never hold at once.
LEMMA OneHolder ==
    ASSUME LockInv, NEW t \in Threads, heldFd[t] # 0
    PROVE  Holders = {t}
<1>1. \A u \in Threads : heldFd[u] # 0 => <<u, heldFd[u]>> = <<t, heldFd[t]>>
  BY DEF LockInv, HolderOwnsFlock
<1> QED BY <1>1 DEF Holders

\* With the flock free nobody holds.
LEMMA FreeMeansNone ==
    ASSUME LockInv, owner = NoFd
    PROVE  Holders = {}
<1>1. ASSUME NEW u \in Threads, heldFd[u] # 0 PROVE FALSE
  <2>1. owner = <<u, heldFd[u]>> /\ heldFd[u] \in 1..MaxBlocks
    BY <1>1, PlanLockAssumption DEF LockInv, BlocksOK, HolderOwnsFlock
  <2> QED BY <2>1, PlanLockAssumption
<1> QED BY <1>1 DEF Holders

\* Every step of the lock enters, leaves, or is invisible to PlanMutex.
LEMMA StepImplements ==
    ASSUME LockInv, LockInv', [Next]_vars
    PROVE  \/ Holders' = Holders
           \/ \E t \in Threads : \/ Holders = {} /\ Holders' = {t}
                                 \/ Holders = {t} /\ Holders' = {}
<1>1. ASSUME NEW t \in Threads, GetFlock(t) \/ Reacquire(t)
      PROVE  Holders = {} /\ (Holders' = {t} \/ Holders' = Holders)
  <2>1. Holders = {}
    BY <1>1, FreeMeansNone DEF GetFlock, Reacquire
  <2>2. \A u \in Threads \ {t} : heldFd'[u] = heldFd[u]
    BY <1>1 DEF GetFlock, Reacquire, LockInv, BlocksOK
  <2> QED BY <2>1, <2>2 DEF Holders
<1>2. ASSUME NEW t \in Threads, Unregister(t) \/ OpenWindow(t)
      PROVE  Holders' = Holders \/ (Holders = {t} /\ Holders' = {})
  <2>1. \A u \in Threads : heldFd'[u] = IF u = t THEN 0 ELSE heldFd[u]
    BY <1>2 DEF Unregister, OpenWindow, LockInv, BlocksOK
  <2>2. CASE heldFd[t] = 0
    BY <2>1, <2>2 DEF Holders
  <2>3. CASE heldFd[t] # 0
    BY <2>1, <2>3, OneHolder DEF Holders
  <2> QED BY <2>2, <2>3
<1>3. ASSUME NEW t \in Threads,
             LockAgain(t) \/ Contend(t) \/ GiveUp(t) \/ Register(t) \/ Unlock(t)
               \/ LeaveQuietly(t) \/ OpenIdle(t) \/ CloseWindow(t)
               \/ ReacquireTimeout(t)
      PROVE  Holders' = Holders
  BY <1>3 DEF LockAgain, Contend, GiveUp, Register, Unlock, LeaveQuietly, OpenIdle,
              CloseWindow, ReacquireTimeout, Holders
<1>4. ASSUME NEW p \in Procs, Crash(p)
      PROVE  Holders' = Holders \/ \E t \in Threads : Holders = {t} /\ Holders' = {}
  <2>1. \A u \in Threads : heldFd'[u] = IF ProcOf[u] = p THEN 0 ELSE heldFd[u]
    BY <1>4 DEF Crash
  <2>2. CASE \E t \in Threads : ProcOf[t] = p /\ heldFd[t] # 0
    <3>1. PICK t \in Threads : ProcOf[t] = p /\ heldFd[t] # 0
      BY <2>2
    <3>2. Holders = {t}
      BY <3>1, OneHolder
    <3> QED BY <2>1, <3>1, <3>2 DEF Holders
  <2>3. CASE \A t \in Threads : ProcOf[t] = p => heldFd[t] = 0
    BY <2>1, <2>3 DEF Holders
  <2> QED BY <2>2, <2>3
<1>5. CASE UNCHANGED vars
  BY <1>5 DEF vars, Holders
<1>6. CASE \E t \in Threads : LockStep(t) \/ WindowStep(t)
  <2>1. PICK t \in Threads : LockStep(t) \/ WindowStep(t)
    BY <1>6
  <2>2. CASE GetFlock(t) \/ Reacquire(t)
    BY <1>1, <2>2
  <2>3. CASE Unregister(t) \/ OpenWindow(t)
    BY <1>2, <2>3
  <2>4. CASE ~(GetFlock(t) \/ Reacquire(t) \/ Unregister(t) \/ OpenWindow(t))
    BY <1>3, <2>1, <2>4 DEF LockStep, WindowStep
  <2> QED BY <2>2, <2>3, <2>4
<1>7. CASE \E p \in Procs : Crash(p)
  BY <1>4, <1>7
<1> QED BY <1>5, <1>6, <1>7 DEF Next

\* The lock of concurrency.py implements the mutex that dispatch, the ticks and
\* the operator's commands rely on, for any threads, processes and nesting.
THEOREM LockImplementsMutex == SafeSpec => ImplementsMutex
<1>1. Init => Mutex!Init
  BY DEF Init, Mutex!Init
<1>2. LockInv /\ LockInv' /\ [Next]_vars
      => [Mutex!Next]_{t \in Threads : heldFd[t] # 0}
  BY StepImplements DEF Holders, Mutex!Next, Mutex!Enter, Mutex!Leave
<1> QED BY LockInvHolds, <1>1, <1>2, PTL DEF SafeSpec, ImplementsMutex, Mutex!Spec
-----------------------------------------------------------------------------
\* The flock is free or belongs to a descriptor that one of the threads opened.
OwnerIsThread == owner \in (Threads \X (1..MaxBlocks)) \cup {NoFd}

OwnerInv == OwnerIsThread /\ NoLeakedFlock

\* A thread's step after which the flock is free, or is its own descriptor.
LEMMA OwnerTaken ==
    ASSUME NEW t \in Threads, NEW n \in 1..MaxBlocks,
           owner' = NoFd \/ (owner' = <<t, n>> /\ heldFd'[t] = n)
    PROVE  OwnerInv'
<1>1. CASE owner' = NoFd
  BY <1>1, PlanLockAssumption DEF OwnerInv, OwnerIsThread, NoLeakedFlock
<1>2. CASE owner' = <<t, n>> /\ heldFd'[t] = n
  BY <1>2 DEF OwnerInv, OwnerIsThread, NoLeakedFlock
<1> QED BY <1>1, <1>2

\* A thread's step that leaves the flock alone, by a thread that was not
\* releasing it and keeps its held entry.
LEMMA OwnerKept ==
    ASSUME LockInv, OwnerInv, NEW t \in Threads, OthersKeep(t), owner' = owner,
           heldFd'[t] = heldFd[t], pc[t] # "unlock"
    PROVE  OwnerInv'
<1>1. OwnerIsThread'
  BY DEF OwnerInv, OwnerIsThread
<1>2. ASSUME NEW u \in Threads, NEW n \in 1..MaxBlocks, owner' = <<u, n>>
      PROVE  heldFd'[u] = n \/ (pc'[u] = "unlock" /\ n = Len(frames'[u]))
  <2>1. heldFd[u] = n \/ (pc[u] = "unlock" /\ n = Len(frames[u]))
    BY <1>2 DEF OwnerInv, NoLeakedFlock
  <2> QED BY <2>1 DEF OthersKeep
<1> QED BY <1>1, <1>2 DEF OwnerInv, NoLeakedFlock

LEMMA OwnerStep ==
    ASSUME LockInv, OwnerInv, NEW t \in Threads, LockStep(t) \/ WindowStep(t)
    PROVE  OwnerInv'
<1>0. frames[t] \in Seq(Blocks) /\ Len(frames[t]) \in Nat /\ Len(frames[t]) <= MaxBlocks
  BY LenProperties DEF LockInv, BlocksOK
<1>1. CASE \/ LockAgain(t) \/ OpenIdle(t) \/ Contend(t) \/ GiveUp(t) \/ Register(t)
           \/ LeaveQuietly(t) \/ CloseWindow(t) \/ ReacquireTimeout(t)
  <2>1. OthersKeep(t)
    BY <1>1 DEF LockAgain, OpenIdle, Contend, GiveUp, Register, LeaveQuietly, Push, Pop,
                Goto, CloseWindow, ReacquireTimeout, OthersKeep, LockInv, BlocksOK
  <2>2. owner' = owner /\ heldFd'[t] = heldFd[t] /\ pc[t] # "unlock"
    BY <1>1 DEF LockAgain, OpenIdle, Contend, GiveUp, Register, LeaveQuietly,
                CloseWindow, ReacquireTimeout, Calls, Leaves
  <2> QED BY <2>1, <2>2, OwnerKept
<1>2. CASE GetFlock(t)
  <2>1. Len(frames[t]) + 1 \in 1..MaxBlocks
    BY <1>0, <1>2, PlanLockAssumption DEF GetFlock, Calls, LockInv, LabelInv
  <2>2. owner' = <<t, Len(frames[t]) + 1>> /\ heldFd'[t] = Len(frames[t]) + 1
    BY <1>2 DEF GetFlock, LockInv, BlocksOK
  <2> QED BY <2>1, <2>2, OwnerTaken
<1>3. CASE Unregister(t)
  <2>1. /\ UNCHANGED <<owner, frames>> /\ OthersKeep(t)
        /\ pc'[t] = "unlock" /\ frames[t] # << >> /\ IsLock(Top(t))
    BY <1>3 DEF Unregister, Leaves, Goto, OthersKeep, LockInv, BlocksOK, IsLock
  <2>2. ASSUME NEW u \in Threads, NEW n \in 1..MaxBlocks, owner' = <<u, n>>
        PROVE  heldFd'[u] = n \/ (pc'[u] = "unlock" /\ n = Len(frames'[u]))
    <3>1. heldFd[u] = n \/ (pc[u] = "unlock" /\ n = Len(frames[u]))
      BY <2>1, <2>2 DEF OwnerInv, NoLeakedFlock
    <3>2. CASE u # t
      BY <2>1, <3>1, <3>2 DEF OthersKeep
    <3>3. CASE u = t
      <4>1. heldFd[t] = n /\ n \in Nat /\ n # 0 /\ Names(frames[t], heldFd[t])
        BY <1>3, <3>1, <3>3, PlanLockAssumption DEF Unregister, Leaves, LockInv, StackInv
      <4>2. n = Len(frames[t])
        BY <1>0, <2>1, <4>1, TopIsNamed DEF Top, IsReal, IsLock
      <4> QED BY <2>1, <3>3, <4>2
    <3> QED BY <3>2, <3>3
  <2>3. OwnerIsThread'
    BY <2>1 DEF OwnerInv, OwnerIsThread
  <2> QED BY <2>2, <2>3 DEF OwnerInv, NoLeakedFlock
<1>4. CASE Unlock(t)
  <2>1. /\ OthersKeep(t) /\ UNCHANGED heldFd /\ heldFd[t] = 0
        /\ frames[t] # << >> /\ IsLock(Last(frames[t])) /\ LocksOwn(frames[t])
    BY <1>4 DEF Unlock, Pop, Goto, OthersKeep, LockInv, BlocksOK, LabelInv, StackInv,
                Nested, Top
  <2>2. Top(t).fd = Len(frames[t]) /\ Len(frames[t]) \in 1..Len(frames[t])
    BY <1>0, <2>1, PopFacts DEF LocksOwn, Top
  <2>3. owner' = IF owner = <<t, Len(frames[t])>> THEN NoFd ELSE owner
    BY <1>4, <2>2 DEF Unlock, Release
  <2>4. OwnerIsThread'
    BY <2>3 DEF OwnerInv, OwnerIsThread
  <2>5. ASSUME NEW u \in Threads, NEW n \in 1..MaxBlocks, owner' = <<u, n>>
        PROVE  heldFd'[u] = n \/ (pc'[u] = "unlock" /\ n = Len(frames'[u]))
    <3>1. owner = <<u, n>> /\ owner # <<t, Len(frames[t])>>
      BY <2>3, <2>5, PlanLockAssumption
    <3>2. heldFd[u] = n \/ (pc[u] = "unlock" /\ n = Len(frames[u]))
      BY <3>1 DEF OwnerInv, NoLeakedFlock
    <3>3. u # t
      BY <2>1, <3>1, <3>2, PlanLockAssumption
    <3> QED BY <2>1, <3>2, <3>3 DEF OthersKeep
  <2> QED BY <2>4, <2>5 DEF OwnerInv, NoLeakedFlock
<1>5. CASE OpenWindow(t)
  <2>1. owner = <<t, heldFd[t]>> /\ heldFd[t] \in 1..MaxBlocks
    BY <1>5, PlanLockAssumption DEF OpenWindow, LockInv, BlocksOK, HolderOwnsFlock
  <2>2. owner' = NoFd
    BY <1>5, <2>1 DEF OpenWindow, Release
  <2> QED BY <2>1, <2>2, OwnerTaken
<1>6. CASE Reacquire(t)
  <2>1. Top(t).fd \in 1..MaxBlocks
    <3>1. Last(frames[t]).kind = "window" /\ frames[t] # << >> /\ Nested(frames[t])
      BY <1>6 DEF Reacquire, LockInv, LabelInv, StackInv, Top
    <3> QED BY <1>0, <3>1, PopWindow, PlanLockAssumption DEF Top
  <2>2. owner' = <<t, Top(t).fd>> /\ heldFd'[t] = Top(t).fd
    BY <1>6 DEF Reacquire, LockInv, BlocksOK
  <2> QED BY <2>1, <2>2, OwnerTaken
<1> QED BY <1>1, <1>2, <1>3, <1>4, <1>5, <1>6 DEF LockStep, WindowStep

LEMMA OwnerCrash ==
    ASSUME OwnerInv, NEW p \in Procs, Crash(p)
    PROVE  OwnerInv'
<1>1. OwnerIsThread'
  BY DEF Crash, OwnerInv, OwnerIsThread
<1>2. ASSUME NEW u \in Threads, NEW n \in 1..MaxBlocks, owner' = <<u, n>>
      PROVE  heldFd'[u] = n \/ (pc'[u] = "unlock" /\ n = Len(frames'[u]))
  <2>1. ProcOf[u] # p /\ owner = <<u, n>>
    BY <1>2, PlanLockAssumption DEF Crash
  <2>2. heldFd'[u] = heldFd[u] /\ pc'[u] = pc[u] /\ frames'[u] = frames[u]
    BY <2>1 DEF Crash
  <2> QED BY <2>1, <2>2 DEF OwnerInv, NoLeakedFlock
<1> QED BY <1>1, <1>2 DEF OwnerInv, NoLeakedFlock

\* _plan_lock and _released_plan_lock leave nothing locked: whatever windows
\* time out, bodies raise and processes die, the flock belongs to the thread
\* whose held set names it, or to one between unregistering and LOCK_UN.
THEOREM NoLeakedFlockHolds == SafeSpec => []NoLeakedFlock
<1>1. Init => OwnerInv
  BY PlanLockAssumption DEF Init, OwnerInv, OwnerIsThread, NoLeakedFlock
<1>2. LockInv /\ OwnerInv /\ [Next]_vars => OwnerInv'
  <2> SUFFICES ASSUME LockInv, OwnerInv, [Next]_vars PROVE OwnerInv'
    OBVIOUS
  <2>1. CASE \E t \in Threads : LockStep(t) \/ WindowStep(t)
    BY <2>1, OwnerStep
  <2>2. CASE \E p \in Procs : Crash(p)
    BY <2>2, OwnerCrash
  <2>3. CASE UNCHANGED vars
    BY <2>3 DEF vars, OwnerInv, OwnerIsThread, NoLeakedFlock
  <2> QED BY <2>1, <2>2, <2>3 DEF Next
<1>3. OwnerInv => NoLeakedFlock
  BY DEF OwnerInv
<1> QED BY LockInvHolds, <1>1, <1>2, <1>3, PTL DEF SafeSpec
-----------------------------------------------------------------------------
\* The blocks of a stack that took the flock.
Locks(stack) == {n \in 1..Len(stack) : IsLock(stack[n])}

LEMMA LocksFinite ==
    ASSUME NEW s \in Seq(Blocks)
    PROVE  IsFiniteSet(Locks(s)) /\ Cardinality(Locks(s)) \in Nat
<1>1. Len(s) \in Nat
  BY LenProperties
<1>2. IsFiniteSet(1..Len(s))
  BY <1>1, FS_Interval
<1> QED BY <1>2, FS_Subset, FS_CardinalityType DEF Locks

LEMMA NoLocks == Cardinality(Locks(<< >>)) = 0
<1>1. Locks(<< >>) = {}
  BY EmptySeq DEF Locks
<1> QED BY <1>1, FS_EmptySet

\* A stack with one block more has one lock more if that block is a lock.
LEMMA PushCount ==
    ASSUME NEW s \in Seq(Blocks), NEW b \in Blocks
    PROVE  Cardinality(Locks(Append(s, b)))
             = Cardinality(Locks(s)) + (IF IsLock(b) THEN 1 ELSE 0)
<1> DEFINE t == Append(s, b)
<1>1. /\ Len(s) \in Nat /\ Len(t) = Len(s) + 1
      /\ \A i \in 1..Len(s) : t[i] = s[i]
      /\ t[Len(s) + 1] = b
  BY PushFacts
<1> HIDE DEF t
<1>2. CASE IsLock(b)
  <2>1. Locks(t) = Locks(s) \cup {Len(s) + 1}
    BY <1>1, <1>2 DEF Locks
  <2>2. Len(s) + 1 \notin Locks(s)
    BY <1>1 DEF Locks
  <2> QED BY <1>2, <2>1, <2>2, LocksFinite, FS_AddElement DEF t
<1>3. CASE ~IsLock(b)
  <2>1. Locks(t) = Locks(s)
    BY <1>1, <1>3 DEF Locks
  <2> QED BY <1>3, <2>1, LocksFinite DEF t
<1> QED BY <1>2, <1>3

LEMMA PopCount ==
    ASSUME NEW s \in Seq(Blocks), s # << >>
    PROVE  Cardinality(Locks(s))
             = Cardinality(Locks(Front(s))) + (IF IsLock(Last(s)) THEN 1 ELSE 0)
<1> DEFINE t == Front(s)
<1>1. /\ t \in Seq(Blocks)
      /\ Len(s) \in Nat \ {0} /\ Len(t) = Len(s) - 1
      /\ \A i \in 1..Len(s)-1 : t[i] = s[i]
      /\ Last(s) = s[Len(s)]
  BY PopFacts
<1> HIDE DEF t
<1>2. CASE IsLock(Last(s))
  <2>1. Locks(s) = Locks(t) \cup {Len(s)}
    BY <1>1, <1>2 DEF Locks
  <2>2. Len(s) \notin Locks(t)
    BY <1>1 DEF Locks
  <2> QED BY <1>1, <1>2, <2>1, <2>2, LocksFinite, FS_AddElement DEF t
<1>3. CASE ~IsLock(Last(s))
  <2>1. Locks(s) = Locks(t)
    BY <1>1, <1>3 DEF Locks
  <2> QED BY <1>1, <1>3, <2>1, LocksFinite DEF t
<1> QED BY <1>2, <1>3

\* The timing entry of a thread counts its locks; one that is taken and not yet
\* entered is the one between the flock and _record_lock_acquired.
Counts(t) ==
    Cardinality(Locks(frames[t])) = depth[t] + (IF pc[t] = "register" THEN 1 ELSE 0)

DepthInv == depth \in [Threads -> Nat] /\ \A t \in Threads : Counts(t)

\* What a step of thread t has to keep of its own count.
LEMMA OneCount ==
    ASSUME DepthInv, NEW t \in Threads, OthersKeep(t),
           NEW d \in Nat, depth' = [depth EXCEPT ![t] = d], Counts(t)'
    PROVE  DepthInv'
<1>1. depth' \in [Threads -> Nat]
  BY DEF DepthInv
<1>2. ASSUME NEW u \in Threads \ {t} PROVE Counts(u)'
  BY <1>2 DEF DepthInv, Counts, OthersKeep
<1> QED BY <1>1, <1>2 DEF DepthInv

LEMMA DepthStep ==
    ASSUME LockInv, DepthInv, NEW t \in Threads, LockStep(t) \/ WindowStep(t)
    PROVE  DepthInv'
<1>0. /\ frames[t] \in Seq(Blocks) /\ heldFd[t] \in 0..MaxBlocks
      /\ depth[t] \in Nat /\ Counts(t)
  BY DEF LockInv, BlocksOK, DepthInv
<1>1. OthersKeep(t)
  BY DEF LockStep, WindowStep, LockAgain, OpenIdle, Contend, GiveUp, Register,
         LeaveQuietly, CloseWindow, ReacquireTimeout, GetFlock, Unregister, Unlock,
         OpenWindow, Reacquire, Push, Pop, Goto, OthersKeep, LockInv, BlocksOK
<1>2. CASE LockAgain(t) \/ OpenIdle(t) \/ OpenWindow(t)
  <2>1. PICK b \in {Block("again", 0), Block("idle", 0), Block("window", heldFd[t])} :
            frames' = [frames EXCEPT ![t] = Append(@, b)]
    BY <1>2 DEF LockAgain, OpenIdle, OpenWindow, Push
  <2>2. b \in Blocks /\ ~IsLock(b)
    BY <1>0, <2>1, PlanLockAssumption DEF Block, Blocks, IsLock
  <2>3. frames'[t] = Append(frames[t], b) /\ UNCHANGED <<pc, depth>>
    BY <1>2, <2>1 DEF LockAgain, OpenIdle, OpenWindow, LockInv, BlocksOK
  <2>4. Counts(t)'
    BY <1>0, <2>2, <2>3, PushCount, LocksFinite DEF Counts
  <2>5. depth' = [depth EXCEPT ![t] = depth[t]]
    BY <2>3 DEF DepthInv
  <2> QED BY <1>0, <1>1, <2>4, <2>5, OneCount
<1>3. CASE GetFlock(t)
  <2>1. Len(frames[t]) + 1 \in 0..MaxBlocks
    BY <1>0, <1>3, LenProperties, PlanLockAssumption DEF GetFlock, Calls, LockInv, LabelInv
  <2> DEFINE b == Block("lock", Len(frames[t]) + 1)
  <2>2. /\ b \in Blocks /\ IsLock(b) /\ frames'[t] = Append(frames[t], b)
        /\ pc[t] # "register" /\ pc'[t] = "register" /\ UNCHANGED depth
    BY <1>3, <2>1 DEF GetFlock, Calls, Push, Goto, Block, Blocks, IsLock, LockInv, BlocksOK
  <2>3. Counts(t)'
    <3> HIDE DEF b
    <3> QED BY <1>0, <2>2, PushCount, LocksFinite DEF Counts
  <2>4. depth' = [depth EXCEPT ![t] = depth[t]]
    BY <2>2 DEF DepthInv
  <2> QED BY <1>0, <1>1, <2>3, <2>4, OneCount
<1>4. CASE Register(t)
  <2>1. /\ depth' = [depth EXCEPT ![t] = depth[t] + 1] /\ UNCHANGED frames
        /\ pc[t] = "register" /\ pc'[t] = "run"
    BY <1>4 DEF Register, Goto, LockInv, BlocksOK
  <2>2. Counts(t)' /\ depth[t] + 1 \in Nat
    BY <1>0, <2>1 DEF Counts, DepthInv
  <2> QED BY <1>1, <2>1, <2>2, OneCount
<1>5. CASE Contend(t) \/ GiveUp(t) \/ Unregister(t) \/ CloseWindow(t)
  <2>1. /\ UNCHANGED <<frames, depth>> /\ pc[t] # "register" /\ pc'[t] # "register"
    BY <1>5 DEF Contend, GiveUp, Unregister, CloseWindow, Calls, Leaves, Goto, LockInv,
                BlocksOK
  <2>2. Counts(t)' /\ depth' = [depth EXCEPT ![t] = depth[t]]
    BY <1>0, <2>1 DEF Counts, DepthInv
  <2> QED BY <1>0, <1>1, <2>2, OneCount
<1>6. CASE LeaveQuietly(t) \/ Reacquire(t) \/ ReacquireTimeout(t)
  <2>1. /\ frames[t] # << >> /\ ~IsLock(Last(frames[t])) /\ frames'[t] = Front(frames[t])
        /\ UNCHANGED depth /\ pc[t] # "register" /\ pc'[t] # "register"
    BY <1>6 DEF LeaveQuietly, Reacquire, ReacquireTimeout, Leaves, Pop, Goto, IsLock, Top,
                LockInv, BlocksOK, LabelInv
  <2>2. Front(frames[t]) \in Seq(Blocks)
    BY <1>0, <2>1, PopFacts
  <2>3. Counts(t)'
    BY <1>0, <2>1, <2>2, PopCount, LocksFinite DEF Counts
  <2>4. depth' = [depth EXCEPT ![t] = depth[t]]
    BY <2>1 DEF DepthInv
  <2> QED BY <1>0, <1>1, <2>3, <2>4, OneCount
<1>7. CASE Unlock(t)
  <2>1. /\ frames[t] # << >> /\ IsLock(Last(frames[t])) /\ frames'[t] = Front(frames[t])
        /\ depth' = [depth EXCEPT ![t] = depth[t] - 1]
        /\ pc[t] = "unlock" /\ pc'[t] = "run"
    BY <1>7 DEF Unlock, Pop, Goto, IsLock, Top, LockInv, BlocksOK, LabelInv
  <2>2. Front(frames[t]) \in Seq(Blocks)
    BY <1>0, <2>1, PopFacts
  <2>3. /\ Cardinality(Locks(Front(frames[t]))) \in Nat
        /\ depth[t] = Cardinality(Locks(Front(frames[t]))) + 1
    BY <1>0, <2>1, <2>2, PopCount, LocksFinite DEF Counts
  <2>4. Counts(t)' /\ depth[t] - 1 \in Nat
    BY <1>0, <2>1, <2>3 DEF Counts, DepthInv
  <2> QED BY <1>0, <1>1, <2>1, <2>4, OneCount
<1> QED BY <1>2, <1>3, <1>4, <1>5, <1>6, <1>7 DEF LockStep, WindowStep

LEMMA DepthCrash ==
    ASSUME DepthInv, NEW p \in Procs, Crash(p)
    PROVE  DepthInv'
<1>1. depth' \in [Threads -> Nat]
  BY DEF Crash, DepthInv
<1>2. ASSUME NEW u \in Threads PROVE Counts(u)'
  <2>1. CASE ProcOf[u] = p
    <3>1. frames'[u] = << >> /\ depth'[u] = 0 /\ pc'[u] = "run"
      BY <2>1 DEF Crash
    <3> QED BY <3>1, NoLocks DEF Counts
  <2>2. CASE ProcOf[u] # p
    BY <2>2 DEF Crash, DepthInv, Counts
  <2> QED BY <2>1, <2>2
<1> QED BY <1>1, <1>2 DEF DepthInv

\* The timing entry of _record_lock_acquired and _record_lock_released counts
\* the live flocks of its thread through windows, nested locks, timeouts and
\* crashes, so only the outermost release ends and logs the hold.
THEOREM HoldAccountingHolds == SafeSpec => []HoldAccounting
<1>1. Init => DepthInv
  BY NoLocks DEF Init, DepthInv, Counts
<1>2. LockInv /\ DepthInv /\ [Next]_vars => DepthInv'
  <2> SUFFICES ASSUME LockInv, DepthInv, [Next]_vars PROVE DepthInv'
    OBVIOUS
  <2>1. CASE \E t \in Threads : LockStep(t) \/ WindowStep(t)
    BY <2>1, DepthStep
  <2>2. CASE \E p \in Procs : Crash(p)
    BY <2>2, DepthCrash
  <2>3. CASE UNCHANGED vars
    BY <2>3 DEF vars, DepthInv, Counts
  <2> QED BY <2>1, <2>2, <2>3 DEF Next
<1>3. DepthInv => HoldAccounting
  <2> SUFFICES ASSUME DepthInv, NEW t \in Threads
               PROVE  depth[t] = Cardinality(LocksOf(t))
                                   - (IF pc[t] = "register" THEN 1 ELSE 0)
    BY DEF HoldAccounting
  <2>1. LocksOf(t) = Locks(frames[t])
    BY DEF LocksOf, Locks, IsLock
  <2>2. depth[t] \in Nat /\ Counts(t)
    BY DEF DepthInv
  <2> QED BY <2>1, <2>2 DEF Counts
<1> QED BY LockInvHolds, <1>1, <1>2, <1>3, PTL DEF SafeSpec
=============================================================================
