------------------------------ MODULE PlanLock -------------------------------
(***************************************************************************)
(* The per-plan lock of pipeline/concurrency.py, for one plan: a flock on  *)
(* a file descriptor that each real acquire opens, re-entrance through a   *)
(* thread-local held set, windows that drop the flock around a slow phase  *)
(* and take it back on the same descriptor, the registry of the plans a    *)
(* process holds, and the hold accounting.  A thread is a stack of open    *)
(* `with` blocks, innermost last:                                          *)
(*   "lock"    _plan_lock that took the flock                              *)
(*   "again"   _plan_lock of a thread that already held it                 *)
(*   "window"  _released_plan_lock of a holder; fd is what it released     *)
(*   "idle"    _released_plan_lock of a thread that held nothing           *)
(* The descriptor of the block at depth n of thread t is <<t, n>>.         *)
(***************************************************************************)
EXTENDS Naturals, Sequences, SequencesExt, FiniteSets

CONSTANTS
    Threads,
    Procs,
    ProcOf,     \* the process each thread belongs to
    Patient,    \* threads that call with a wait budget (operator commands)
    NoFd,       \* the flock is free
    MaxBlocks,  \* bound: nested blocks of a thread
    MaxCrashes  \* bound: process crashes

ASSUME PlanLockAssumption ==
    /\ ProcOf \in [Threads -> Procs]
    /\ Patient \subseteq Threads
    /\ MaxBlocks \in Nat /\ MaxCrashes \in Nat
    /\ NoFd \notin Threads \X (1..MaxBlocks)

VARIABLES
    owner,      \* the descriptor that owns the kernel's flock
    registry,   \* _process_plan_holders: processes that registered the plan
    frames,     \* the open blocks of each thread
    heldFd,     \* the thread's held set and fd map: depth of the fd, 0 if absent
    pc,         \* "run", or where in _plan_lock_once / _released_plan_lock
    raising,    \* a PlanLockReacquireTimeout is unwinding the thread's blocks
    depth,      \* live real flocks in the thread's timing entry, 0 if no entry
    crashes

vars == <<owner, registry, frames, heldFd, pc, raising, depth, crashes>>

Blocks == [kind : {"lock", "again", "window", "idle"}, fd : 0..MaxBlocks]
Block(kind, fd) == [kind |-> kind, fd |-> fd]
Top(t) == Last(frames[t])
Goto(t, l) == pc' = [pc EXCEPT ![t] = l]
Push(t, b) == frames' = [frames EXCEPT ![t] = Append(@, b)]

\* The exception ends with the outermost block it unwinds.
Pop(t) ==
    /\ frames' = [frames EXCEPT ![t] = Front(@)]
    /\ raising' = [raising EXCEPT ![t] = @ /\ Len(frames[t]) > 1]

\* The thread is in a body, or outside all blocks, and may open one.
Calls(t) == pc[t] = "run" /\ ~raising[t] /\ Len(frames[t]) < MaxBlocks

\* The thread leaves its innermost block.
Leaves(t) == pc[t] = "run" /\ frames[t] # << >>

Release(fd) == owner' = IF owner = fd THEN NoFd ELSE owner

Init ==
    /\ owner = NoFd
    /\ registry = {}
    /\ frames = [t \in Threads |-> << >>]
    /\ heldFd = [t \in Threads |-> 0]
    /\ pc = [t \in Threads |-> "run"]
    /\ raising = [t \in Threads |-> FALSE]
    /\ depth = [t \in Threads |-> 0]
    /\ crashes = 0
-----------------------------------------------------------------------------
\* _plan_lock.

\* The reentrant fast path.
LockAgain(t) ==
    /\ Calls(t) /\ heldFd[t] # 0
    /\ Push(t, Block("again", 0))
    /\ UNCHANGED <<owner, registry, heldFd, pc, raising, depth, crashes>>

\* The flock is free at the first try or at a retry.  A first try that fails
\* and may not wait yields False and changes nothing.
GetFlock(t) ==
    /\ Calls(t) \/ pc[t] = "waiting"
    /\ heldFd[t] = 0 /\ owner = NoFd
    /\ owner' = <<t, Len(frames[t]) + 1>>
    /\ heldFd' = [heldFd EXCEPT ![t] = Len(frames[t]) + 1]
    /\ Push(t, Block("lock", Len(frames[t]) + 1))
    /\ Goto(t, "register")
    /\ UNCHANGED <<registry, raising, depth, crashes>>

\* A contended first try waits when the call has a budget, or briefly when the
\* registry says that the holder is a thread of this process.
Contend(t) ==
    /\ Calls(t) /\ heldFd[t] = 0 /\ owner # NoFd
    /\ t \in Patient \/ ProcOf[t] \in registry
    /\ Goto(t, "waiting")
    /\ UNCHANGED <<owner, registry, frames, heldFd, raising, depth, crashes>>

GiveUp(t) ==
    /\ pc[t] = "waiting" /\ owner # NoFd
    /\ Goto(t, "run")
    /\ UNCHANGED <<owner, registry, frames, heldFd, raising, depth, crashes>>

\* Mutant of Register: a nested flock starts a new timing entry.
Register_RestartsHold(t) ==
    /\ pc[t] = "register" /\ Goto(t, "run")
    /\ registry' = registry \cup {ProcOf[t]}
    /\ depth' = [depth EXCEPT ![t] = 1]
    /\ UNCHANGED <<owner, frames, heldFd, raising, crashes>>

Register(t) ==
    /\ pc[t] = "register"
    /\ registry' = registry \cup {ProcOf[t]}
    /\ depth' = [depth EXCEPT ![t] = @ + 1]
    /\ Goto(t, "run")
    /\ UNCHANGED <<owner, frames, heldFd, raising, crashes>>

\* The exit of a real lock, up to the registry.
Unregister(t) ==
    /\ Leaves(t) /\ Top(t).kind = "lock"
    /\ heldFd' = [heldFd EXCEPT ![t] = 0]
    /\ registry' = registry \ {ProcOf[t]}
    /\ Goto(t, "unlock")
    /\ UNCHANGED <<owner, frames, raising, depth, crashes>>

\* The rest of it: LOCK_UN on the block's own descriptor, which is a no-op
\* when a window lost the flock, and the end of the hold.
Unlock(t) ==
    /\ pc[t] = "unlock"
    /\ Release(<<t, Top(t).fd>>)
    /\ depth' = [depth EXCEPT ![t] = @ - 1]
    /\ Pop(t)
    /\ Goto(t, "run")
    /\ UNCHANGED <<registry, heldFd, crashes>>

\* The exit of a block that released nothing.
LeaveQuietly(t) ==
    /\ Leaves(t) /\ Top(t).kind \in {"again", "idle"}
    /\ Pop(t)
    /\ UNCHANGED <<owner, registry, heldFd, pc, depth, crashes>>
-----------------------------------------------------------------------------
\* _released_plan_lock.

OpenIdle(t) ==
    /\ Calls(t) /\ heldFd[t] = 0
    /\ Push(t, Block("idle", 0))
    /\ UNCHANGED <<owner, registry, heldFd, pc, raising, depth, crashes>>

\* Mutants of OpenWindow: the name stays in the held set; only the name goes.
OpenWindow_KeepsHeld(t) ==
    /\ Calls(t) /\ heldFd[t] # 0
    /\ Push(t, Block("window", heldFd[t]))
    /\ Release(<<t, heldFd[t]>>)
    /\ UNCHANGED <<registry, heldFd, pc, raising, depth, crashes>>

OpenWindow_KeepsFlock(t) ==
    /\ Calls(t) /\ heldFd[t] # 0
    /\ Push(t, Block("window", heldFd[t]))
    /\ heldFd' = [heldFd EXCEPT ![t] = 0]
    /\ UNCHANGED <<owner, registry, pc, raising, depth, crashes>>

OpenWindow(t) ==
    /\ Calls(t) /\ heldFd[t] # 0
    /\ Push(t, Block("window", heldFd[t]))
    /\ heldFd' = [heldFd EXCEPT ![t] = 0]
    /\ Release(<<t, heldFd[t]>>)
    /\ UNCHANGED <<registry, pc, raising, depth, crashes>>

\* The body of the window ends, normally or with an exception.
CloseWindow(t) ==
    /\ Leaves(t) /\ Top(t).kind = "window"
    /\ Goto(t, "reacquire")
    /\ UNCHANGED <<owner, registry, frames, heldFd, raising, depth, crashes>>

Reacquire(t) ==
    /\ pc[t] = "reacquire" /\ owner = NoFd
    /\ owner' = <<t, Top(t).fd>>
    /\ heldFd' = [heldFd EXCEPT ![t] = Top(t).fd]
    /\ Pop(t)
    /\ Goto(t, "run")
    /\ UNCHANGED <<registry, depth, crashes>>

\* Mutants of ReacquireTimeout: the held entry is restored without the flock;
\* the tick goes on instead of raising; no deadline.
ReacquireTimeout_ClaimsLock(t) ==
    /\ pc[t] = "reacquire" /\ owner # NoFd
    /\ Pop(t)
    /\ heldFd' = [heldFd EXCEPT ![t] = Top(t).fd]
    /\ Goto(t, "run")
    /\ UNCHANGED <<owner, registry, depth, crashes>>

ReacquireTimeout_GoesOn(t) ==
    /\ pc[t] = "reacquire" /\ owner # NoFd
    /\ Pop(t)
    /\ Goto(t, "run")
    /\ UNCHANGED <<owner, registry, heldFd, depth, crashes>>

ReacquireTimeout_Never(t) == FALSE /\ UNCHANGED <<vars, t>>

\* The flock was busy until the deadline: the window's block is left by the
\* exception, which unwinds the blocks around it too.
ReacquireTimeout(t) ==
    /\ pc[t] = "reacquire" /\ owner # NoFd
    /\ frames' = [frames EXCEPT ![t] = Front(@)]
    /\ raising' = [raising EXCEPT ![t] = TRUE]
    /\ Goto(t, "run")
    /\ UNCHANGED <<owner, registry, heldFd, depth, crashes>>
-----------------------------------------------------------------------------
\* A process dies; the kernel closes its descriptors, and another process
\* takes its place with nothing in memory.
Crash(p) ==
    LET dead == {t \in Threads : ProcOf[t] = p}
        Reset(f, v) == [t \in Threads |-> IF t \in dead THEN v ELSE f[t]]
    IN  /\ crashes < MaxCrashes /\ crashes' = crashes + 1
        /\ owner' = IF \E t \in dead, n \in 1..MaxBlocks : owner = <<t, n>>
                      THEN NoFd ELSE owner
        /\ registry' = registry \ {p}
        /\ frames' = Reset(frames, << >>)
        /\ heldFd' = Reset(heldFd, 0)
        /\ pc' = Reset(pc, "run")
        /\ raising' = Reset(raising, FALSE)
        /\ depth' = Reset(depth, 0)

LockStep(t) ==
    \/ LockAgain(t) \/ GetFlock(t) \/ Contend(t) \/ GiveUp(t) \/ Register(t)
    \/ Unregister(t) \/ Unlock(t) \/ LeaveQuietly(t)

WindowStep(t) ==
    OpenIdle(t) \/ OpenWindow(t) \/ CloseWindow(t) \/ Reacquire(t) \/ ReacquireTimeout(t)

Next ==
    \/ \E t \in Threads : LockStep(t) \/ WindowStep(t)
    \/ \E p \in Procs : Crash(p)

\* What runs to its end by itself: the two bounded waits, the straight-line
\* code around the flock, and the unwinding of an exception.  Nothing is
\* assumed of a body: it may hold the lock for ever.
Proceeds(t) ==
    \/ pc[t] # "run" /\ (GetFlock(t) \/ GiveUp(t) \/ Register(t) \/ Unlock(t)
                           \/ Reacquire(t) \/ ReacquireTimeout(t))
    \/ raising[t] /\ (Unregister(t) \/ LeaveQuietly(t) \/ CloseWindow(t))

SafeSpec == Init /\ [][Next]_vars

Spec == SafeSpec /\ \A t \in Threads : WF_vars(Proceeds(t))
-----------------------------------------------------------------------------
TypeOK ==
    /\ owner \in (Threads \X (1..MaxBlocks)) \cup {NoFd}
    /\ registry \subseteq Procs
    /\ frames \in [Threads -> Seq(Blocks)]
    /\ \A t \in Threads : Len(frames[t]) <= MaxBlocks
    /\ heldFd \in [Threads -> 0..MaxBlocks]
    /\ pc \in [Threads -> {"run", "waiting", "register", "unlock", "reacquire"}]
    /\ raising \in [Threads -> BOOLEAN]
    /\ depth \in [Threads -> 0..MaxBlocks]
    /\ crashes \in 0..MaxCrashes

\* A thread whose held set names the plan owns the flock, so the reentrant
\* fast path never lets anyone in beside the real holder, however windows,
\* nested locks, timeouts and crashes interleave.
HolderOwnsFlock ==
    \A t \in Threads : heldFd[t] # 0 => owner = <<t, heldFd[t]>>

\* And the flock has no owner that does not know it: nothing is left locked by
\* a window or by an unwound block.
NoLeakedFlock ==
    \A t \in Threads, n \in 1..MaxBlocks :
        owner = <<t, n>> =>
            heldFd[t] = n \/ (pc[t] = "unlock" /\ n = Len(frames[t]))

IsReal(b) == b.kind \in {"lock", "window"}

\* Block n of a stack is the innermost that took or released the flock.
Innermost(stack, n) ==
    /\ n \in 1..Len(stack) /\ IsReal(stack[n])
    /\ \A m \in n+1..Len(stack) : ~IsReal(stack[m])

\* Code in the body of a lock, with no window open around it, runs with the
\* flock of that very block: a tick never mutates the manifest after it failed
\* to take the lock back.
BodyHoldsLock ==
    \A t \in Threads : \A n \in 1..Len(frames[t]) :
        Innermost(frames[t], n) /\ frames[t][n].kind = "lock" /\ pc[t] = "run" /\ ~raising[t]
            => heldFd[t] = n

LocksOf(t) == {n \in 1..Len(frames[t]) : frames[t][n].kind = "lock"}

\* The timing entry counts the thread's live flocks, so that only the outermost
\* release logs the hold and the entry never outlives it.
HoldAccounting ==
    \A t \in Threads :
        depth[t] = Cardinality(LocksOf(t)) - (IF pc[t] = "register" THEN 1 ELSE 0)

\* Every wait for the lock ends, with it or without it, and an aborted tick
\* unwinds completely, even if the holder never lets go.
WaitsEnd ==
    \A t \in Threads :
        (pc[t] # "run" \/ raising[t]) ~> (pc[t] = "run" /\ ~raising[t])

\* The comment on _process_plan_holders: "plans whose flock SOME thread of this
\* process currently holds (or is holding a _released_plan_lock window open
\* for)", asked of a thread that is in the body of a lock or of a window.
RegistryCoversHolders ==
    \A t \in Threads :
        pc[t] = "run" /\ ~raising[t] /\ (\E n \in 1..Len(frames[t]) : IsReal(frames[t][n]))
            => ProcOf[t] \in registry

Mutex == INSTANCE PlanMutex WITH holders <- {t \in Threads : heldFd[t] # 0}

\* The lock is the mutex that code under it relies on.
ImplementsMutex == Mutex!Spec
=============================================================================
