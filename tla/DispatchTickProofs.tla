-------------------------- MODULE DispatchTickProofs ---------------------------
(***************************************************************************)
(* Proofs about DispatchTick for any set of stories, tickers and operators *)
(* and any limits: the lease covers the window of the tick, and, as long   *)
(* as operators do not call dispatch_story themselves, one agent at most   *)
(* works on a story, it is the one on record, no failure is counted        *)
(* against a story whose agent is at work, and DispatchTick implements     *)
(* StoryAgents.                                                            *)
(***************************************************************************)
EXTENDS DispatchTick, FiniteSetTheorems, TLAPS

States == {"idle", "claim", "window", "dispatch", "record", "reacquire", "poll"}
Locked == {"claim", "dispatch", "record", "poll"}

Typed ==
    /\ holders \subseteq Actors
    /\ status \in [Stories -> Statuses]
    /\ attempts \in [Stories -> Nat]
    /\ lease \in [Stories -> Tickers \cup {None}]
    /\ agent \in [Stories -> Nat]
    /\ live \in [Stories -> SUBSET Nat]
    /\ launches \in [Stories -> Nat]
    /\ pc \in [Actors -> States]
    /\ job \in [Actors -> Stories \cup {None}]
    /\ outcome \in [Tickers -> {"none", "skipped", "refused", "launched"}]
    /\ rest \in [Tickers -> SUBSET Stories]

\* The lock, and what an actor that holds it is about.
Mutex ==
    /\ \A x \in Actors : x \in holders <=> pc[x] \in Locked
    /\ \A x, y \in holders : x = y
    /\ \A x \in Actors : pc[x] \in {"window", "dispatch", "record", "reacquire"} => job[x] \in Stories

LeaseInv == Typed /\ Mutex /\ LeaseCoversWindow

(* While a tick has a story's window open, and has not launched its agent, *)
(* no agent is at work on that story.                                      *)
WindowIsQuiet ==
    \A t \in Tickers, s \in Stories : InWindow(t, s) =>
        /\ pc[t] \in {"window", "dispatch"} => live[s] = {}
        /\ pc[t] = "reacquire" /\ outcome[t] = "refused" => live[s] = {}
        /\ pc[t] = "record" => live[s] \subseteq {launches[s]}

OperatorsWait == \A o \in Operators : pc[o] = "idle"

AgentInv == LeaseInv /\ WindowIsQuiet /\ NoStrayAgent /\ OperatorsWait

USE DispatchAssumption DEF LeaseInv, AgentInv, Typed, Mutex, States, Locked, Statuses,
    Dispatchable, Actors, Goto, Set, manifest, agents, locals, Lock!Enter, Lock!Leave

-----------------------------------------------------------------------------
(* The lock and the leases. *)

LEMMA LeaseInit == Init => LeaseInv
BY DEF Init, LeaseCoversWindow, InWindow

LEMMA LeaseStep == ASSUME LeaseInv, [Next]_vars PROVE LeaseInv'
<1>1. ASSUME NEW t \in Tickers, TickPaused(t) PROVE LeaseInv'
  <2>1. Typed'
    BY <1>1 DEF TickPaused, Interrupted
  <2>2. Mutex'
    BY <1>1 DEF TickPaused, Interrupted
  <2>3. LeaseCoversWindow'
    BY <1>1 DEF TickPaused, Interrupted, LeaseCoversWindow, InWindow
  <2> QED BY <2>1, <2>2, <2>3
<1>2. ASSUME NEW t \in Tickers, StartTick(t) PROVE LeaseInv'
  <2>1. Typed'
    BY <1>2 DEF StartTick, Interrupted, Running
  <2>2. Mutex'
    BY <1>2 DEF StartTick, Interrupted, Running
  <2>3. LeaseCoversWindow'
    BY <1>2 DEF StartTick, Interrupted, Running, LeaseCoversWindow, InWindow
  <2> QED BY <2>1, <2>2, <2>3
<1>3. ASSUME NEW t \in Tickers, SkipStory(t) PROVE LeaseInv'
  <2>1. Typed'
    BY <1>3 DEF SkipStory
  <2>2. Mutex'
    BY <1>3 DEF SkipStory
  <2>3. LeaseCoversWindow'
    BY <1>3 DEF SkipStory, LeaseCoversWindow, InWindow
  <2> QED BY <2>1, <2>2, <2>3
<1>4. ASSUME NEW t \in Tickers, Claim(t) PROVE LeaseInv'
  <2>1. Typed'
    BY <1>4 DEF Claim
  <2>2. Mutex'
    BY <1>4 DEF Claim
  <2>3. LeaseCoversWindow'
    BY <1>4 DEF Claim, LeaseCoversWindow, InWindow
  <2> QED BY <2>1, <2>2, <2>3
<1>5. ASSUME NEW t \in Tickers, EndDispatch(t) PROVE LeaseInv'
  <2>1. Typed'
    BY <1>5 DEF EndDispatch
  <2>2. Mutex'
    BY <1>5 DEF EndDispatch
  <2>3. LeaseCoversWindow'
    BY <1>5 DEF EndDispatch, LeaseCoversWindow, InWindow
  <2> QED BY <2>1, <2>2, <2>3
<1>6. ASSUME NEW t \in Tickers, PollGone(t) PROVE LeaseInv'
  <2>1. Typed'
    BY <1>6 DEF PollGone, Escalate
  <2>2. Mutex'
    BY <1>6 DEF PollGone, Escalate
  <2>3. LeaseCoversWindow'
    BY <1>6 DEF PollGone, Escalate, LeaseCoversWindow, InWindow
  <2> QED BY <2>1, <2>2, <2>3
<1>7. ASSUME NEW t \in Tickers, PollHung(t) PROVE LeaseInv'
  <2>1. Typed'
    BY <1>7 DEF PollHung, Escalate, Running
  <2>2. Mutex'
    BY <1>7 DEF PollHung, Escalate, Running
  <2>3. LeaseCoversWindow'
    BY <1>7 DEF PollHung, Escalate, Running, LeaseCoversWindow, InWindow
  <2> QED BY <2>1, <2>2, <2>3
<1>8. ASSUME NEW t \in Tickers, EndTick(t) PROVE LeaseInv'
  <2>1. Typed'
    BY <1>8 DEF EndTick
  <2>2. Mutex'
    BY <1>8 DEF EndTick
  <2>3. LeaseCoversWindow'
    BY <1>8 DEF EndTick, LeaseCoversWindow, InWindow
  <2> QED BY <2>1, <2>2, <2>3
<1>9. ASSUME NEW t \in Tickers, DispatchLocked(t) PROVE LeaseInv'
  <2>1. Typed'
    BY <1>9 DEF DispatchLocked
  <2>2. Mutex'
    BY <1>9 DEF DispatchLocked
  <2>3. LeaseCoversWindow'
    BY <1>9 DEF DispatchLocked, LeaseCoversWindow, InWindow
  <2> QED BY <2>1, <2>2, <2>3
<1>10. ASSUME NEW t \in Tickers, EnterDispatch(t) PROVE LeaseInv'
  <2>1. Typed'
    BY <1>10 DEF EnterDispatch
  <2>2. Mutex'
    BY <1>10 DEF EnterDispatch
  <2>3. LeaseCoversWindow'
    BY <1>10 DEF EnterDispatch, LeaseCoversWindow, InWindow
  <2> QED BY <2>1, <2>2, <2>3
<1>11. ASSUME NEW t \in Tickers, SettleReturned(t) PROVE LeaseInv'
  <2>1. Typed'
    BY <1>11 DEF SettleReturned, Settle
  <2>2. Mutex'
    BY <1>11 DEF SettleReturned, Settle
  <2>3. LeaseCoversWindow'
    BY <1>11 DEF SettleReturned, Settle, LeaseCoversWindow, InWindow
  <2> QED BY <2>1, <2>2, <2>3
<1>12. ASSUME NEW t \in Tickers, SettleRefused(t) PROVE LeaseInv'
  <2>1. Typed'
    BY <1>12 DEF SettleRefused, Settle
  <2>2. Mutex'
    BY <1>12 DEF SettleRefused, Settle
  <2>3. LeaseCoversWindow'
    BY <1>12 DEF SettleRefused, Settle, LeaseCoversWindow, InWindow
  <2> QED BY <2>1, <2>2, <2>3
<1>13. ASSUME NEW t \in Tickers, ReacquireTimeout(t) PROVE LeaseInv'
  <2>1. Typed'
    BY <1>13 DEF ReacquireTimeout
  <2>2. Mutex'
    BY <1>13 DEF ReacquireTimeout
  <2>3. LeaseCoversWindow'
    BY <1>13 DEF ReacquireTimeout, LeaseCoversWindow, InWindow
  <2> QED BY <2>1, <2>2, <2>3
<1>14. ASSUME NEW t \in Tickers, Crash(t) PROVE LeaseInv'
  <2>1. Typed'
    BY <1>14 DEF Crash
  <2>2. Mutex'
    BY <1>14 DEF Crash
  <2>3. LeaseCoversWindow'
    BY <1>14 DEF Crash, LeaseCoversWindow, InWindow
  <2> QED BY <2>1, <2>2, <2>3
<1>15. ASSUME NEW o \in Operators, OperatorDispatch(o) PROVE LeaseInv'
  <2>1. Typed'
    BY <1>15 DEF OperatorDispatch
  <2>2. Mutex'
    BY <1>15 DEF OperatorDispatch
  <2>3. LeaseCoversWindow'
    BY <1>15 DEF OperatorDispatch, LeaseCoversWindow, InWindow
  <2> QED BY <2>1, <2>2, <2>3
<1>16. ASSUME NEW o \in Operators, Interrupt(o) PROVE LeaseInv'
  <2>1. Typed'
    BY <1>16 DEF Interrupt, Interrupted
  <2>2. Mutex'
    BY <1>16 DEF Interrupt, Interrupted
  <2>3. LeaseCoversWindow'
    BY <1>16 DEF Interrupt, Interrupted, LeaseCoversWindow, InWindow
  <2> QED BY <2>1, <2>2, <2>3
<1>17. ASSUME NEW o \in Operators, Retry(o) PROVE LeaseInv'
  <2>1. Typed'
    BY <1>17 DEF Retry
  <2>2. Mutex'
    BY <1>17 DEF Retry
  <2>3. LeaseCoversWindow'
    BY <1>17 DEF Retry, LeaseCoversWindow, InWindow
  <2> QED BY <2>1, <2>2, <2>3
<1>18. ASSUME NEW o \in Operators, SetPlanPaused(o) PROVE LeaseInv'
  <2>1. Typed'
    BY <1>18 DEF SetPlanPaused
  <2>2. Mutex'
    BY <1>18 DEF SetPlanPaused
  <2>3. LeaseCoversWindow'
    BY <1>18 DEF SetPlanPaused, LeaseCoversWindow, InWindow
  <2> QED BY <2>1, <2>2, <2>3
<1>19. ASSUME NEW a \in Actors, Refuse(a) PROVE LeaseInv'
  <2>1. Typed'
    BY <1>19 DEF Refuse, Return
  <2>2. Mutex'
    BY <1>19 DEF Refuse, Return
  <2>3. LeaseCoversWindow'
    BY <1>19 DEF Refuse, Return, LeaseCoversWindow, InWindow
  <2> QED BY <2>1, <2>2, <2>3
<1>20. ASSUME NEW a \in Actors, Park(a) PROVE LeaseInv'
  <2>1. Typed'
    BY <1>20 DEF Park, Return
  <2>2. Mutex'
    BY <1>20 DEF Park, Return
  <2>3. LeaseCoversWindow'
    BY <1>20 DEF Park, Return, LeaseCoversWindow, InWindow
  <2> QED BY <2>1, <2>2, <2>3
<1>21. ASSUME NEW a \in Actors, Launch(a) PROVE LeaseInv'
  <2>1. Typed'
    BY <1>21 DEF Launch
  <2>2. Mutex'
    BY <1>21 DEF Launch
  <2>3. LeaseCoversWindow'
    BY <1>21 DEF Launch, LeaseCoversWindow, InWindow
  <2> QED BY <2>1, <2>2, <2>3
<1>22. ASSUME NEW a \in Actors, Record(a) PROVE LeaseInv'
  <2>1. Typed'
    BY <1>22 DEF Record, Return
  <2>2. Mutex'
    BY <1>22 DEF Record, Return
  <2>3. LeaseCoversWindow'
    BY <1>22 DEF Record, Return, LeaseCoversWindow, InWindow
  <2> QED BY <2>1, <2>2, <2>3
<1>23. CASE AgentExits
  <2>1. Typed'
    BY <1>23 DEF AgentExits
  <2>2. Mutex'
    BY <1>23 DEF AgentExits
  <2>3. LeaseCoversWindow'
    BY <1>23 DEF AgentExits, LeaseCoversWindow, InWindow
  <2> QED BY <2>1, <2>2, <2>3
<1>24. ASSUME NEW s \in Stories, LeaseLapses(s) PROVE LeaseInv'
  <2>1. Typed'
    BY <1>24 DEF LeaseLapses
  <2>2. Mutex'
    BY <1>24 DEF LeaseLapses
  <2>3. LeaseCoversWindow'
    BY <1>24 DEF LeaseLapses, LeaseCoversWindow, InWindow
  <2> QED BY <2>1, <2>2, <2>3
<1>25. CASE UNCHANGED vars
  BY <1>25 DEF vars, LeaseCoversWindow, InWindow
<1> QED BY <1>1, <1>2, <1>3, <1>4, <1>5, <1>6, <1>7, <1>8, <1>9, <1>10, <1>11, <1>12, <1>13,
             <1>14, <1>15, <1>16, <1>17, <1>18, <1>19, <1>20, <1>21, <1>22, <1>23, <1>24, <1>25
   DEF Next, TickStep, OperatorStep, Dispatch

LEMMA LeaseInvHolds == SafeSpec => []LeaseInv
BY LeaseInit, LeaseStep, PTL DEF SafeSpec

-----------------------------------------------------------------------------
(* The agents, when only ticks dispatch. *)

LEMMA AgentInit == Init => AgentInv
BY LeaseInit DEF Init, WindowIsQuiet, InWindow, NoStrayAgent, OperatorsWait

LEMMA AgentStep == ASSUME AgentInv, ~OperatorsDispatch, [Next]_vars PROVE AgentInv'
<1>0. LeaseInv'
  BY LeaseStep
<1>1. ASSUME NEW t \in Tickers, TickPaused(t) PROVE AgentInv'
  <2>1. WindowIsQuiet'
    BY <1>1 DEF TickPaused, Interrupted, LeaseCoversWindow, InWindow, WindowIsQuiet,
         NoStrayAgent, OperatorsWait
  <2>2. NoStrayAgent'
    BY <1>1 DEF TickPaused, Interrupted, InWindow, WindowIsQuiet, NoStrayAgent, OperatorsWait
  <2>3. OperatorsWait'
    BY <1>1 DEF TickPaused, Interrupted, OperatorsWait
  <2> QED BY <1>0, <2>1, <2>2, <2>3
<1>2. ASSUME NEW t \in Tickers, StartTick(t) PROVE AgentInv'
  <2>1. WindowIsQuiet'
    BY <1>2 DEF StartTick, Interrupted, Running, LeaseCoversWindow, InWindow, WindowIsQuiet,
         NoStrayAgent, OperatorsWait
  <2>2. NoStrayAgent'
    BY <1>2 DEF StartTick, Interrupted, Running, InWindow, WindowIsQuiet, NoStrayAgent,
         OperatorsWait
  <2>3. OperatorsWait'
    BY <1>2 DEF StartTick, Interrupted, Running, OperatorsWait
  <2> QED BY <1>0, <2>1, <2>2, <2>3
<1>3. ASSUME NEW t \in Tickers, SkipStory(t) PROVE AgentInv'
  <2>1. WindowIsQuiet'
    BY <1>3 DEF SkipStory, LeaseCoversWindow, InWindow, WindowIsQuiet, NoStrayAgent, OperatorsWait
  <2>2. NoStrayAgent'
    BY <1>3 DEF SkipStory, InWindow, WindowIsQuiet, NoStrayAgent, OperatorsWait
  <2>3. OperatorsWait'
    BY <1>3 DEF SkipStory, OperatorsWait
  <2> QED BY <1>0, <2>1, <2>2, <2>3
<1>4. ASSUME NEW t \in Tickers, Claim(t) PROVE AgentInv'
  <2>1. WindowIsQuiet'
    BY <1>4 DEF Claim, LeaseCoversWindow, InWindow, WindowIsQuiet, NoStrayAgent, OperatorsWait
  <2>2. NoStrayAgent'
    BY <1>4 DEF Claim, InWindow, WindowIsQuiet, NoStrayAgent, OperatorsWait
  <2>3. OperatorsWait'
    BY <1>4 DEF Claim, OperatorsWait
  <2> QED BY <1>0, <2>1, <2>2, <2>3
<1>5. ASSUME NEW t \in Tickers, EndDispatch(t) PROVE AgentInv'
  <2>1. WindowIsQuiet'
    BY <1>5 DEF EndDispatch, LeaseCoversWindow, InWindow, WindowIsQuiet, NoStrayAgent,
         OperatorsWait
  <2>2. NoStrayAgent'
    BY <1>5 DEF EndDispatch, InWindow, WindowIsQuiet, NoStrayAgent, OperatorsWait
  <2>3. OperatorsWait'
    BY <1>5 DEF EndDispatch, OperatorsWait
  <2> QED BY <1>0, <2>1, <2>2, <2>3
<1>6. ASSUME NEW t \in Tickers, PollGone(t) PROVE AgentInv'
  <2>1. WindowIsQuiet'
    BY <1>6 DEF PollGone, Escalate, LeaseCoversWindow, InWindow, WindowIsQuiet, NoStrayAgent,
         OperatorsWait
  <2>2. NoStrayAgent'
    BY <1>6 DEF PollGone, Escalate, InWindow, WindowIsQuiet, NoStrayAgent, OperatorsWait
  <2>3. OperatorsWait'
    BY <1>6 DEF PollGone, Escalate, OperatorsWait
  <2> QED BY <1>0, <2>1, <2>2, <2>3
<1>7. ASSUME NEW t \in Tickers, PollHung(t) PROVE AgentInv'
  <2>1. WindowIsQuiet'
    BY <1>7 DEF PollHung, Escalate, Running, LeaseCoversWindow, InWindow, WindowIsQuiet,
         NoStrayAgent, OperatorsWait
  <2>2. NoStrayAgent'
    BY <1>7 DEF PollHung, Escalate, Running, InWindow, WindowIsQuiet, NoStrayAgent, OperatorsWait
  <2>3. OperatorsWait'
    BY <1>7 DEF PollHung, Escalate, Running, OperatorsWait
  <2> QED BY <1>0, <2>1, <2>2, <2>3
<1>8. ASSUME NEW t \in Tickers, EndTick(t) PROVE AgentInv'
  <2>1. WindowIsQuiet'
    BY <1>8 DEF EndTick, LeaseCoversWindow, InWindow, WindowIsQuiet, NoStrayAgent, OperatorsWait
  <2>2. NoStrayAgent'
    BY <1>8 DEF EndTick, InWindow, WindowIsQuiet, NoStrayAgent, OperatorsWait
  <2>3. OperatorsWait'
    BY <1>8 DEF EndTick, OperatorsWait
  <2> QED BY <1>0, <2>1, <2>2, <2>3
<1>9. ASSUME NEW t \in Tickers, DispatchLocked(t) PROVE AgentInv'
  <2>1. WindowIsQuiet'
    BY <1>9 DEF DispatchLocked, LeaseCoversWindow, InWindow, WindowIsQuiet, NoStrayAgent,
         OperatorsWait
  <2>2. NoStrayAgent'
    BY <1>9 DEF DispatchLocked, InWindow, WindowIsQuiet, NoStrayAgent, OperatorsWait
  <2>3. OperatorsWait'
    BY <1>9 DEF DispatchLocked, OperatorsWait
  <2> QED BY <1>0, <2>1, <2>2, <2>3
<1>10. ASSUME NEW t \in Tickers, EnterDispatch(t) PROVE AgentInv'
  <2>1. WindowIsQuiet'
    BY <1>10 DEF EnterDispatch, LeaseCoversWindow, InWindow, WindowIsQuiet, NoStrayAgent,
         OperatorsWait
  <2>2. NoStrayAgent'
    BY <1>10 DEF EnterDispatch, InWindow, WindowIsQuiet, NoStrayAgent, OperatorsWait
  <2>3. OperatorsWait'
    BY <1>10 DEF EnterDispatch, OperatorsWait
  <2> QED BY <1>0, <2>1, <2>2, <2>3
<1>11. ASSUME NEW t \in Tickers, SettleReturned(t) PROVE AgentInv'
  <2>1. WindowIsQuiet'
    BY <1>11 DEF SettleReturned, Settle, LeaseCoversWindow, InWindow, WindowIsQuiet,
         NoStrayAgent, OperatorsWait
  <2>2. NoStrayAgent'
    BY <1>11 DEF SettleReturned, Settle, InWindow, WindowIsQuiet, NoStrayAgent, OperatorsWait
  <2>3. OperatorsWait'
    BY <1>11 DEF SettleReturned, Settle, OperatorsWait
  <2> QED BY <1>0, <2>1, <2>2, <2>3
<1>12. ASSUME NEW t \in Tickers, SettleRefused(t) PROVE AgentInv'
  <2>1. WindowIsQuiet'
    BY <1>12 DEF SettleRefused, Settle, LeaseCoversWindow, InWindow, WindowIsQuiet,
         NoStrayAgent, OperatorsWait
  <2>2. NoStrayAgent'
    BY <1>12 DEF SettleRefused, Settle, InWindow, WindowIsQuiet, NoStrayAgent, OperatorsWait
  <2>3. OperatorsWait'
    BY <1>12 DEF SettleRefused, Settle, OperatorsWait
  <2> QED BY <1>0, <2>1, <2>2, <2>3
<1>13. ASSUME NEW t \in Tickers, ReacquireTimeout(t) PROVE AgentInv'
  <2>1. WindowIsQuiet'
    BY <1>13 DEF ReacquireTimeout, LeaseCoversWindow, InWindow, WindowIsQuiet, NoStrayAgent,
         OperatorsWait
  <2>2. NoStrayAgent'
    BY <1>13 DEF ReacquireTimeout, InWindow, WindowIsQuiet, NoStrayAgent, OperatorsWait
  <2>3. OperatorsWait'
    BY <1>13 DEF ReacquireTimeout, OperatorsWait
  <2> QED BY <1>0, <2>1, <2>2, <2>3
<1>14. ASSUME NEW t \in Tickers, Crash(t) PROVE AgentInv'
  <2>1. WindowIsQuiet'
    <3>1. \A r \in Stories : live'[r] \subseteq live[r]
      BY <1>14 DEF Crash
    <3>2. \A u \in Tickers, r \in Stories : InWindow(u, r)' =>
              /\ InWindow(u, r) /\ pc'[u] = pc[u] /\ outcome'[u] = outcome[u]
              /\ launches' = launches
      BY <1>14 DEF Crash, InWindow
    <3> QED BY <3>1, <3>2 DEF WindowIsQuiet
  <2>2. NoStrayAgent'
    BY <1>14 DEF Crash, InWindow, WindowIsQuiet, NoStrayAgent, OperatorsWait
  <2>3. OperatorsWait'
    BY <1>14 DEF Crash, OperatorsWait
  <2> QED BY <1>0, <2>1, <2>2, <2>3
<1>15. ASSUME NEW o \in Operators, OperatorDispatch(o) PROVE AgentInv'
  <2>1. WindowIsQuiet'
    BY <1>15 DEF OperatorDispatch, LeaseCoversWindow, InWindow, WindowIsQuiet, NoStrayAgent,
         OperatorsWait
  <2>2. NoStrayAgent'
    BY <1>15 DEF OperatorDispatch, InWindow, WindowIsQuiet, NoStrayAgent, OperatorsWait
  <2>3. OperatorsWait'
    BY <1>15 DEF OperatorDispatch, OperatorsWait
  <2> QED BY <1>0, <2>1, <2>2, <2>3
<1>16. ASSUME NEW o \in Operators, Interrupt(o) PROVE AgentInv'
  <2>1. WindowIsQuiet'
    BY <1>16 DEF Interrupt, Interrupted, LeaseCoversWindow, InWindow, WindowIsQuiet,
         NoStrayAgent, OperatorsWait
  <2>2. NoStrayAgent'
    BY <1>16 DEF Interrupt, Interrupted, InWindow, WindowIsQuiet, NoStrayAgent, OperatorsWait
  <2>3. OperatorsWait'
    BY <1>16 DEF Interrupt, Interrupted, OperatorsWait
  <2> QED BY <1>0, <2>1, <2>2, <2>3
<1>17. ASSUME NEW o \in Operators, Retry(o) PROVE AgentInv'
  <2>1. WindowIsQuiet'
    BY <1>17 DEF Retry, LeaseCoversWindow, InWindow, WindowIsQuiet, NoStrayAgent, OperatorsWait
  <2>2. NoStrayAgent'
    BY <1>17 DEF Retry, InWindow, WindowIsQuiet, NoStrayAgent, OperatorsWait
  <2>3. OperatorsWait'
    BY <1>17 DEF Retry, OperatorsWait
  <2> QED BY <1>0, <2>1, <2>2, <2>3
<1>18. ASSUME NEW o \in Operators, SetPlanPaused(o) PROVE AgentInv'
  <2>1. WindowIsQuiet'
    BY <1>18 DEF SetPlanPaused, LeaseCoversWindow, InWindow, WindowIsQuiet, NoStrayAgent,
         OperatorsWait
  <2>2. NoStrayAgent'
    BY <1>18 DEF SetPlanPaused, InWindow, WindowIsQuiet, NoStrayAgent, OperatorsWait
  <2>3. OperatorsWait'
    BY <1>18 DEF SetPlanPaused, OperatorsWait
  <2> QED BY <1>0, <2>1, <2>2, <2>3
<1>19. ASSUME NEW a \in Actors, Refuse(a) PROVE AgentInv'
  <2>1. WindowIsQuiet'
    BY <1>19 DEF Refuse, Return, LeaseCoversWindow, InWindow, WindowIsQuiet, NoStrayAgent,
         OperatorsWait
  <2>2. NoStrayAgent'
    BY <1>19 DEF Refuse, Return, InWindow, WindowIsQuiet, NoStrayAgent, OperatorsWait
  <2>3. OperatorsWait'
    BY <1>19 DEF Refuse, Return, OperatorsWait
  <2> QED BY <1>0, <2>1, <2>2, <2>3
<1>20. ASSUME NEW a \in Actors, Park(a) PROVE AgentInv'
  <2>1. WindowIsQuiet'
    BY <1>20 DEF Park, Return, LeaseCoversWindow, InWindow, WindowIsQuiet, NoStrayAgent,
         OperatorsWait
  <2>2. NoStrayAgent'
    BY <1>20 DEF Park, Return, InWindow, WindowIsQuiet, NoStrayAgent, OperatorsWait
  <2>3. OperatorsWait'
    BY <1>20 DEF Park, Return, OperatorsWait
  <2> QED BY <1>0, <2>1, <2>2, <2>3
<1>21. ASSUME NEW a \in Actors, Launch(a) PROVE AgentInv'
  <2>1. WindowIsQuiet'
    BY <1>21 DEF Launch, LeaseCoversWindow, InWindow, WindowIsQuiet, NoStrayAgent, OperatorsWait
  <2>2. NoStrayAgent'
    BY <1>21 DEF Launch, InWindow, WindowIsQuiet, NoStrayAgent, OperatorsWait
  <2>3. OperatorsWait'
    BY <1>21 DEF Launch, OperatorsWait
  <2> QED BY <1>0, <2>1, <2>2, <2>3
<1>22. ASSUME NEW a \in Actors, Record(a) PROVE AgentInv'
  <2>1. WindowIsQuiet'
    BY <1>22 DEF Record, Return, LeaseCoversWindow, InWindow, WindowIsQuiet, NoStrayAgent,
         OperatorsWait
  <2>2. NoStrayAgent'
    BY <1>22 DEF Record, Return, InWindow, WindowIsQuiet, NoStrayAgent, OperatorsWait
  <2>3. OperatorsWait'
    BY <1>22 DEF Record, Return, OperatorsWait
  <2> QED BY <1>0, <2>1, <2>2, <2>3
<1>23. CASE AgentExits
  <2>1. WindowIsQuiet'
    BY <1>23 DEF AgentExits, LeaseCoversWindow, InWindow, WindowIsQuiet, NoStrayAgent,
         OperatorsWait
  <2>2. NoStrayAgent'
    BY <1>23 DEF AgentExits, InWindow, WindowIsQuiet, NoStrayAgent, OperatorsWait
  <2>3. OperatorsWait'
    BY <1>23 DEF AgentExits, OperatorsWait
  <2> QED BY <1>0, <2>1, <2>2, <2>3
<1>24. ASSUME NEW s \in Stories, LeaseLapses(s) PROVE AgentInv'
  <2>1. WindowIsQuiet'
    BY <1>24 DEF LeaseLapses, LeaseCoversWindow, InWindow, WindowIsQuiet, NoStrayAgent,
         OperatorsWait
  <2>2. NoStrayAgent'
    BY <1>24 DEF LeaseLapses, InWindow, WindowIsQuiet, NoStrayAgent, OperatorsWait
  <2>3. OperatorsWait'
    BY <1>24 DEF LeaseLapses, OperatorsWait
  <2> QED BY <1>0, <2>1, <2>2, <2>3
<1>25. CASE UNCHANGED vars
  BY <1>0, <1>25 DEF vars, WindowIsQuiet, InWindow, NoStrayAgent, OperatorsWait
<1> QED BY <1>1, <1>2, <1>3, <1>4, <1>5, <1>6, <1>7, <1>8, <1>9, <1>10, <1>11, <1>12, <1>13,
             <1>14, <1>15, <1>16, <1>17, <1>18, <1>19, <1>20, <1>21, <1>22, <1>23, <1>24, <1>25
   DEF Next, TickStep, OperatorStep, Dispatch

LEMMA AgentInvHolds == ASSUME ~OperatorsDispatch PROVE SafeSpec => []AgentInv
BY AgentInit, AgentStep, PTL DEF SafeSpec

\* The agents at work on a story: one that is on record, or about to be.
LEMMA OneAgent == ASSUME AgentInv, NEW s \in Stories
                  PROVE  live[s] = {} \/ \E n \in Nat : live[s] = {n}
<1>1. CASE \E x \in Actors : pc[x] = "record" /\ job[x] = s
  <2>1. PICK x \in Actors : pc[x] = "record" /\ job[x] = s
    BY <1>1
  <2>2. x \in Tickers
    BY <2>1 DEF OperatorsWait
  <2>3. live[s] \subseteq {launches[s]}
    BY <2>1, <2>2 DEF WindowIsQuiet, InWindow
  <2> QED BY <2>3
<1>2. CASE ~ \E x \in Actors : pc[x] = "record" /\ job[x] = s
  <2>1. live[s] \subseteq {agent[s]}
    BY <1>2 DEF NoStrayAgent
  <2> QED BY <2>1
<1> QED BY <1>1, <1>2

-----------------------------------------------------------------------------
\* Agents are numbered as they are launched.
Numbered == \A s \in Stories : agent[s] <= launches[s] /\ live[s] \subseteq 1..launches[s]

LEMMA NumberedStep == ASSUME LeaseInv, Numbered, [Next]_vars PROVE Numbered'
<1> USE DEF Numbered
<1>1. CASE \E t \in Tickers : TickStep(t)
  <2>1. /\ launches' = launches
        /\ \A s \in Stories : live'[s] \subseteq live[s] /\ agent'[s] \in {agent[s], 0}
    <3>1. ASSUME NEW t \in Tickers, PollGone(t)
          PROVE  UNCHANGED <<launches, live>> /\ \A s \in Stories : agent'[s] \in {agent[s], 0}
      BY <3>1 DEF PollGone, Escalate
    <3>2. ASSUME NEW t \in Tickers, PollHung(t)
          PROVE  /\ launches' = launches
                 /\ \A s \in Stories : live'[s] \subseteq live[s] /\ agent'[s] \in {agent[s], 0}
      BY <3>2 DEF PollHung, Escalate
    <3>3. ASSUME NEW ss, Interrupted(ss) PROVE \A s \in Stories : live'[s] \subseteq live[s]
      BY <3>3 DEF Interrupted
    <3>4. ASSUME NEW t \in Tickers, TickPaused(t)
          PROVE  UNCHANGED <<launches, agent>> /\ \E ss : Interrupted(ss)
      BY <3>4 DEF TickPaused
    <3>5. ASSUME NEW t \in Tickers, StartTick(t)
          PROVE  UNCHANGED <<launches, agent>> /\ \E ss : Interrupted(ss)
      BY <3>5 DEF StartTick
    <3> QED BY <1>1, <3>1, <3>2, <3>3, <3>4, <3>5
       DEF TickStep, SkipStory, Claim, EndDispatch, EndTick, DispatchLocked, EnterDispatch,
           SettleReturned, SettleRefused, Settle, ReacquireTimeout
  <2> QED BY <2>1
<1>2. CASE \E t \in Tickers : Crash(t)
  <2>1. launches' = launches /\ agent' = agent /\ \A s \in Stories : live'[s] \subseteq live[s]
    BY <1>2 DEF Crash
  <2> QED BY <2>1
<1>3. CASE \E o \in Operators : OperatorStep(o)
  <2>1. launches' = launches /\ agent' = agent /\ \A s \in Stories : live'[s] \subseteq live[s]
    BY <1>3 DEF OperatorStep, OperatorDispatch, Interrupt, Interrupted, Retry, SetPlanPaused
  <2> QED BY <2>1
<1>4. ASSUME NEW a \in Actors, Refuse(a) \/ Park(a) PROVE Numbered'
  BY <1>4 DEF Refuse, Park, Return
<1>5. ASSUME NEW a \in Actors, Launch(a) PROVE Numbered'
  <2>1. job[a] \in Stories
    BY <1>5 DEF Launch
  <2> QED BY <1>5, <2>1 DEF Launch
<1>6. ASSUME NEW a \in Actors, Record(a) PROVE Numbered'
  <2>1. job[a] \in Stories
    BY <1>6 DEF Record
  <2> QED BY <1>6, <2>1 DEF Record, Return
<1>7. CASE AgentExits
  BY <1>7 DEF AgentExits
<1>8. CASE (\E s \in Stories : LeaseLapses(s)) \/ UNCHANGED vars
  BY <1>8 DEF LeaseLapses, vars
<1> QED BY <1>1, <1>2, <1>3, <1>4, <1>5, <1>6, <1>7, <1>8 DEF Next, Dispatch

\* Each orphan is of a crash of its own.
OrphansCounted ==
    /\ crashes \in Nat /\ DOMAIN orphans = Stories
    /\ \A s \in Stories : IsFiniteSet(orphans[s]) /\ Cardinality(orphans[s]) <= crashes

LEMMA OrphansStep == ASSUME LeaseInv, OrphansCounted, [Next]_vars PROVE OrphansCounted'
<1> USE DEF OrphansCounted
<1>1. \/ UNCHANGED <<orphans, crashes>>
      \/ \E s \in Stories : \E n : orphans' = [orphans EXCEPT ![s] = @ \ {n}] /\ UNCHANGED crashes
      \/ UNCHANGED orphans /\ crashes' = crashes + 1
      \/ /\ \E s \in Stories : \E n : orphans' = [orphans EXCEPT ![s] = @ \cup {n}]
         /\ crashes' = crashes + 1
  <2>1. CASE \E t \in Tickers : Crash(t)
    BY <2>1 DEF Crash
  <2>2. CASE AgentExits
    BY <2>2 DEF AgentExits
  <2> QED BY <2>1, <2>2
     DEF Next, TickStep, OperatorStep, Dispatch, vars, TickPaused, StartTick, SkipStory, Claim,
         EndDispatch, PollGone, PollHung, EndTick, DispatchLocked, EnterDispatch, SettleReturned,
         SettleRefused, ReacquireTimeout, OperatorDispatch, Interrupt, Retry, SetPlanPaused, Refuse,
         Park, Launch, Record, Return, LeaseLapses
<1>2. \A s \in Stories : Cardinality(orphans[s]) \in Nat
  BY FS_CardinalityType
<1>3. ASSUME NEW s \in Stories, NEW n, orphans' = [orphans EXCEPT ![s] = @ \ {n}], UNCHANGED crashes
      PROVE  OrphansCounted'
  <2>1. /\ IsFiniteSet(orphans[s] \ {n}) /\ Cardinality(orphans[s] \ {n}) \in Nat
        /\ Cardinality(orphans[s] \ {n}) <= Cardinality(orphans[s])
    BY <1>2, FS_Subset, FS_CardinalityType
  <2>2. Cardinality(orphans[s] \ {n}) <= crashes
    BY <1>2, <2>1
  <2>3. /\ orphans'[s] = orphans[s] \ {n} /\ DOMAIN orphans' = Stories
        /\ \A x \in Stories \ {s} : orphans'[x] = orphans[x]
    BY <1>3
  <2> QED BY <1>3, <2>1, <2>2, <2>3
<1>4. ASSUME NEW s \in Stories, NEW n, orphans' = [orphans EXCEPT ![s] = @ \cup {n}],
             crashes' = crashes + 1
      PROVE  OrphansCounted'
  <2>1. /\ IsFiniteSet(orphans[s] \cup {n})
        /\ Cardinality(orphans[s] \cup {n}) \in {Cardinality(orphans[s]), Cardinality(orphans[s]) + 1}
    <3>1. PICK o : o = orphans[s]
      OBVIOUS
    <3>2. IsFiniteSet(o) /\ Cardinality(o) \in Nat
      BY <1>2, <3>1
    <3>3. /\ IsFiniteSet(o \cup {n})
          /\ Cardinality(o \cup {n}) = IF n \in o THEN Cardinality(o) ELSE Cardinality(o) + 1
      BY <3>2, FS_AddElement
    <3> QED BY <3>1, <3>2, <3>3
  <2>2. Cardinality(orphans[s] \cup {n}) <= crashes + 1
    BY <1>2, <2>1
  <2>3. /\ orphans'[s] = orphans[s] \cup {n} /\ DOMAIN orphans' = Stories
        /\ \A x \in Stories \ {s} : orphans'[x] = orphans[x] /\ Cardinality(orphans[x]) <= crashes + 1
    BY <1>2, <1>4
  <2>4. crashes' = crashes + 1 /\ crashes' \in Nat
    BY <1>4
  <2> QED BY <2>1, <2>2, <2>3, <2>4
<1>5. CASE UNCHANGED orphans /\ crashes' \in {crashes, crashes + 1}
  BY <1>2, <1>5
<1> QED BY <1>1, <1>3, <1>4, <1>5

LEMMA OrphansInit == Init => OrphansCounted
BY FS_EmptySet DEF Init, OrphansCounted

LEMMA OrphansHold == SafeSpec => []OrphansCounted
BY LeaseInvHolds, OrphansInit, OrphansStep, PTL DEF SafeSpec

-----------------------------------------------------------------------------
\* The agents of the manifest are those of StoryAgents.

\* A story's agent, as StoryAgents sees it.
LEMMA AgentSeen == ASSUME AgentInv, Numbered, NEW s \in Stories
                   PROVE  /\ live[s] = {} => AtWork(s) = 0 /\ Named(s) = 0
                          /\ \A n : live[s] = {n} => AtWork(s) = n /\ n # 0
                          /\ Named(s) \in {0, AtWork(s)}
<1>1. CASE live[s] = {}
  BY <1>1 DEF AtWork, Named, Running
<1>2. ASSUME NEW n \in Nat, live[s] = {n} PROVE AtWork(s) = n /\ n # 0 /\ Named(s) \in {0, n}
  BY <1>2 DEF AtWork, Named, Running, Numbered
<1> QED BY <1>1, <1>2, OneAgent

\* In most steps some agents end, and the others are named as they were.
LEMMA EndsOrStays ==
    ASSUME AgentInv, Numbered, UNCHANGED launches,
           \A s \in Stories :
              \/ live'[s] = {}
              \/ live'[s] = live[s] /\ status'[s] = status[s] /\ agent'[s] = agent[s]
    PROVE  \E ss \in SUBSET Stories : Agents!End(ss)
<1> DEFINE ss == {s \in Stories : live'[s] = {}}
<1>1. ASSUME NEW s \in ss PROVE AtWork(s)' = 0 /\ Named(s)' = 0
  BY DEF AtWork, Named, Running
<1>2. ASSUME NEW s \in Stories \ ss PROVE AtWork(s)' = AtWork(s) /\ Named(s)' = Named(s)
  <2>1. PICK n \in Nat : live[s] = {n}
    BY OneAgent
  <2>2. live'[s] = {n} /\ status'[s] = status[s] /\ agent'[s] = agent[s]
    BY <2>1
  <2>3. AtWork(s) = n /\ AtWork(s)' = n
    BY <2>1, <2>2 DEF AtWork
  <2>4. s \in Running' <=> s \in Running
    BY <2>1, <2>2 DEF Running
  <2> QED BY <2>2, <2>3, <2>4 DEF Named
<1> HIDE DEF ss
<1>3. Agents!End(ss)
  BY <1>1, <1>2 DEF Agents!End
<1>4. ss \in SUBSET Stories
  BY DEF ss
<1> QED BY <1>3, <1>4

\* Outside the recording of a launch an agent at work is the one on record, so
\* an interrupted story is left with none.
LEMMA InterruptedEnds ==
    ASSUME AgentInv, \A x \in Actors : pc[x] # "record", NEW ss, Interrupted(ss), UNCHANGED agent
    PROVE  \A s \in Stories :
              \/ live'[s] = {}
              \/ live'[s] = live[s] /\ status'[s] = status[s] /\ agent'[s] = agent[s]
<1>1. \A s \in Stories : live[s] \subseteq {agent[s]}
  BY DEF NoStrayAgent
<1> QED BY <1>1 DEF Interrupted

LEMMA LaunchImplements == ASSUME AgentInv, Numbered, NEW a \in Actors, Launch(a)
                          PROVE  Agents!Launch(job[a])
<1>1. PICK s \in Stories : s = job[a]
  BY DEF Launch
<1>2. live[s] = {}
  BY <1>1 DEF Launch, OperatorsWait, WindowIsQuiet, InWindow
<1>3. /\ live' = [live EXCEPT ![s] = {launches[s] + 1}]
      /\ launches' = [launches EXCEPT ![s] = @ + 1]
      /\ UNCHANGED <<status, agent>>
  BY <1>1, <1>2 DEF Launch
<1>4. AtWork(s) = 0 /\ Named(s) = 0 /\ AtWork(s)' = launches[s] + 1 /\ Named(s)' = 0
  <2>1. AtWork(s) = 0 /\ Named(s) = 0
    BY <1>2 DEF AtWork, Named, Running
  <2>2. live'[s] = {launches[s] + 1}
    BY <1>3
  <2>3. AtWork(s)' = launches[s] + 1
    BY <2>2 DEF AtWork
  <2>4. Named(s)' = 0
    BY <1>3, <2>2 DEF Named, Running, Numbered
  <2> QED BY <2>1, <2>3, <2>4
<1>5. \A x \in Stories \ {s} : AtWork(x)' = AtWork(x) /\ Named(x)' = Named(x)
  BY <1>3 DEF AtWork, Named, Running
<1> QED BY <1>1, <1>3, <1>4, <1>5 DEF Agents!Launch

LEMMA RecordImplements == ASSUME AgentInv, Numbered, NEW a \in Actors, Record(a)
                          PROVE  Agents!Name(job[a]) \/ UNCHANGED Agents!vars
<1>1. PICK s \in Stories : s = job[a]
  BY DEF Record
<1>2. live[s] \subseteq {launches[s]}
  BY <1>1 DEF Record, OperatorsWait, WindowIsQuiet, InWindow
<1>3. /\ UNCHANGED <<live, launches>>
      /\ status'[s] = "in_progress" /\ agent'[s] = launches[s]
      /\ \A x \in Stories \ {s} : status'[x] = status[x] /\ agent'[x] = agent[x]
  BY <1>1 DEF Record
<1>4. \A x \in Stories : AtWork(x)' = AtWork(x)
  BY <1>3 DEF AtWork
<1>5. \A x \in Stories \ {s} : Named(x)' = Named(x)
  BY <1>3 DEF Named, Running
<1>6. CASE live[s] = {}
  <2>1. Named(s)' = Named(s)
    BY <1>3, <1>6 DEF Named, Running
  <2> QED BY <1>3, <1>4, <1>5, <2>1 DEF Agents!vars
<1>7. CASE live[s] = {launches[s]}
  <2>1. AtWork(s) = launches[s] /\ launches[s] # 0
    BY <1>7, AgentSeen
  <2>2. Named(s)' = launches[s]
    BY <1>3, <1>7 DEF Named, Running
  <2>3. Agents!Name(s)
    <3>1. [x \in Stories |-> AtWork(x)]' = [x \in Stories |-> AtWork(x)]
      BY <1>4
    <3>2. [x \in Stories |-> Named(x)]' = [[x \in Stories |-> Named(x)] EXCEPT ![s] = AtWork(s)]
      BY <1>5, <2>1, <2>2
    <3> QED BY <1>3, <2>1, <3>1, <3>2 DEF Agents!Name
  <2> QED BY <1>1, <2>3
<1> QED BY <1>2, <1>6, <1>7

LEMMA AgentsStep == ASSUME AgentInv, Numbered, ~OperatorsDispatch, [Next]_vars
                    PROVE  [Agents!Next]_(Agents!vars)
<1> DEFINE Kept(s) == live'[s] = live[s] /\ status'[s] = status[s] /\ agent'[s] = agent[s]
<1>1. ASSUME UNCHANGED launches, \A s \in Stories : live'[s] = {} \/ Kept(s)
      PROVE  [Agents!Next]_(Agents!vars)
  BY <1>1, EndsOrStays DEF Agents!Next
<1>2. ASSUME NEW a \in Actors, Launch(a) PROVE [Agents!Next]_(Agents!vars)
  <2>1. job[a] \in Stories
    BY <1>2 DEF Launch
  <2> QED BY <1>2, <2>1, LaunchImplements DEF Agents!Next
<1>3. ASSUME NEW a \in Actors, Record(a) PROVE [Agents!Next]_(Agents!vars)
  <2>1. job[a] \in Stories
    BY <1>3 DEF Record
  <2> QED BY <1>3, <2>1, RecordImplements DEF Agents!Next
<1>4. ASSUME NEW a \in Actors, Park(a)
      PROVE  UNCHANGED launches /\ \A s \in Stories : live'[s] = {} \/ Kept(s)
  <2>1. job[a] \in Stories /\ live[job[a]] = {}
    BY <1>4 DEF Park, OperatorsWait, WindowIsQuiet, InWindow
  <2> QED BY <1>4, <2>1 DEF Park
<1>5. ASSUME NEW t \in Tickers, TickPaused(t) \/ StartTick(t)
      PROVE  UNCHANGED launches /\ \A s \in Stories : live'[s] = {} \/ Kept(s)
  <2>1. \A x \in Actors : pc[x] # "record"
    BY <1>5 DEF TickPaused, StartTick
  <2>2. UNCHANGED <<launches, agent>> /\ \E ss : Interrupted(ss)
    BY <1>5 DEF TickPaused, StartTick
  <2> QED BY <2>1, <2>2, InterruptedEnds
<1>6. ASSUME NEW t \in Tickers, PollGone(t)
      PROVE  UNCHANGED launches /\ \A s \in Stories : live'[s] = {} \/ Kept(s)
  <2>1. \A x \in Actors : pc[x] # "record"
    BY <1>6 DEF PollGone
  <2>2. \A s \in Stories : live[s] \subseteq {agent[s]}
    BY <2>1 DEF NoStrayAgent
  <2> QED BY <1>6, <2>2 DEF PollGone, Escalate
<1>7. ASSUME NEW t \in Tickers, PollHung(t)
      PROVE  UNCHANGED launches /\ \A s \in Stories : live'[s] = {} \/ Kept(s)
  <2>1. \A x \in Actors : pc[x] # "record"
    BY <1>7 DEF PollHung
  <2>2. \A s \in Stories : live[s] \subseteq {agent[s]}
    BY <2>1 DEF NoStrayAgent
  <2> QED BY <1>7, <2>2 DEF PollHung, Escalate, Running
<1>8. ASSUME NEW t \in Tickers, SettleRefused(t)
      PROVE  UNCHANGED launches /\ \A s \in Stories : live'[s] = {} \/ Kept(s)
  <2>1. job[t] \in Stories /\ live[job[t]] = {}
    BY <1>8 DEF SettleRefused, WindowIsQuiet, InWindow
  <2> QED BY <1>8, <2>1 DEF SettleRefused, Settle
<1>9. ASSUME NEW o \in Operators, Interrupt(o)
      PROVE  UNCHANGED launches /\ \A s \in Stories : live'[s] = {} \/ Kept(s)
  <2>1. \A x \in Actors : pc[x] # "record"
    BY <1>9 DEF Interrupt
  <2>2. UNCHANGED <<launches, agent>> /\ \E ss : Interrupted(ss)
    BY <1>9 DEF Interrupt
  <2> QED BY <2>1, <2>2, InterruptedEnds
<1>10. ASSUME NEW o \in Operators, Retry(o)
       PROVE  UNCHANGED launches /\ \A s \in Stories : live'[s] = {} \/ Kept(s)
  <2>1. PICK s \in Stories : status[s] \in {"failed", "parked"} /\ Set(s, "todo")
    BY <1>10 DEF Retry
  <2>2. \A x \in Actors : pc[x] # "record"
    BY <1>10 DEF Retry
  <2>3. live[s] = {}
    BY <2>1, <2>2 DEF NoStrayAgent
  <2> QED BY <1>10, <2>1, <2>3 DEF Retry
<1>11. CASE AgentExits
  <2>1. UNCHANGED <<launches, status, agent>>
    BY <1>11 DEF AgentExits
  <2>2. \A s \in Stories : live'[s] = {} \/ live'[s] = live[s]
    BY <1>11, OneAgent DEF AgentExits
  <2> QED BY <1>1, <2>1, <2>2
<1>12. ASSUME NEW t \in Tickers, Crash(t)
       PROVE  UNCHANGED launches /\ \A s \in Stories : live'[s] = {} \/ Kept(s)
  <2>1. UNCHANGED <<launches, status, agent>>
    BY <1>12 DEF Crash
  <2>2. CASE pc[t] = "record"
    <3>1. live[job[t]] \subseteq {launches[job[t]]}
      BY <2>2 DEF WindowIsQuiet, InWindow
    <3> QED BY <1>12, <2>1, <3>1 DEF Crash
  <2>3. CASE pc[t] # "record"
    BY <1>12, <2>1, <2>3 DEF Crash
  <2> QED BY <2>2, <2>3
<1>13. ASSUME NEW t \in Tickers,
              \/ SkipStory(t) \/ Claim(t) \/ EndDispatch(t) \/ EndTick(t) \/ DispatchLocked(t)
              \/ EnterDispatch(t) \/ SettleReturned(t) \/ ReacquireTimeout(t)
       PROVE  UNCHANGED <<launches, live, status, agent>>
  BY <1>13 DEF SkipStory, Claim, EndDispatch, EndTick, DispatchLocked, EnterDispatch,
     SettleReturned, Settle, ReacquireTimeout
<1>14. ASSUME NEW o \in Operators, OperatorDispatch(o) \/ SetPlanPaused(o)
       PROVE  UNCHANGED <<launches, live, status, agent>>
  BY <1>14 DEF OperatorDispatch, SetPlanPaused
<1>15. ASSUME NEW a \in Actors, Refuse(a) PROVE UNCHANGED <<launches, live, status, agent>>
  BY <1>15 DEF Refuse
<1>16. CASE (\E s \in Stories : LeaseLapses(s)) \/ UNCHANGED vars
  BY <1>1, <1>16 DEF LeaseLapses, vars
<1>17. CASE \E t \in Tickers : TickStep(t)
  BY <1>1, <1>5, <1>6, <1>7, <1>8, <1>13, <1>17 DEF TickStep
<1>18. CASE \E o \in Operators : OperatorStep(o)
  BY <1>1, <1>9, <1>10, <1>14, <1>18 DEF OperatorStep
<1>19. CASE \E a \in Actors : Dispatch(a)
  BY <1>1, <1>2, <1>3, <1>4, <1>15, <1>19 DEF Dispatch
<1>20. CASE \E t \in Tickers : Crash(t)
  BY <1>1, <1>12, <1>20
<1> QED BY <1>11, <1>16, <1>17, <1>18, <1>19, <1>20 DEF Next

LEMMA AgentsInit == Init => Agents!Init
BY DEF Init, Agents!Init, AtWork, Named, Running

LEMMA NumberedInit == Init => Numbered
BY DEF Init, Numbered

-----------------------------------------------------------------------------
(* The cap on agents, for the daemon's one tick per plan. *)

Working == UNION {{s} \X live[s] : s \in Stories}

(* The slots a tick has counted and not used yet are still free, and so is *)
(* the one that it has claimed a story for.                                *)
SlotsAreFree ==
    /\ IsFiniteSet(Working) /\ slots \in [Tickers -> Nat]
    /\ Cardinality(Working) <= MaxAgents
    /\ \A t \in Tickers :
        /\ pc[t] \in {"claim", "record", "reacquire"} => Cardinality(Working) + slots[t] <= MaxAgents
        /\ pc[t] \in {"window", "dispatch"} => Cardinality(Working) + 1 + slots[t] <= MaxAgents

LEMMA WorkingShrinks ==
    ASSUME IsFiniteSet(Working), \A s \in Stories : live'[s] \subseteq live[s]
    PROVE  /\ IsFiniteSet(Working') /\ Cardinality(Working') <= Cardinality(Working)
           /\ Cardinality(Working) \in Nat /\ Cardinality(Working') \in Nat
<1>1. Working' \subseteq Working
  BY DEF Working
<1> QED BY <1>1, FS_Subset, FS_CardinalityType

\* With no launch to be recorded there are no more agents at work than stories
\* that hold a slot.
LEMMA WorkingCounted ==
    ASSUME AgentInv, \A x \in Actors : pc[x] # "record", IsFiniteSet(Working),
           NEW gated \in SUBSET Stories, Interrupted(gated)
    PROVE  /\ IsFiniteSet(Running \ gated)
           /\ Cardinality(Working') <= Cardinality(Running \ gated)
<1> DEFINE R == Running \ gated
           Busy == {p[1] : p \in Working}
           Pairs == {<<s, agent[s]>> : s \in R}
<1>1. \A s \in Stories : \A n \in live[s] : status[s] = "in_progress" /\ agent[s] = n
  BY DEF NoStrayAgent
<1>2. IsFiniteSet(Busy)
  <2>1. [p \in Working |-> p[1]] \in Surjection(Working, Busy)
    BY DEF Surjection
  <2> QED BY <2>1, FS_Surjection
<1>3. R \subseteq Busy
  <2>1. ASSUME NEW s \in R PROVE s \in Busy
    <3>1. <<s, agent[s]>> \in Working /\ <<s, agent[s]>>[1] = s
      BY DEF Running, Working
    <3> QED BY <3>1
  <2> QED BY <2>1
<1>4. IsFiniteSet(R)
  BY <1>2, <1>3, FS_Subset
<1>5. Working' \subseteq Pairs
  <2>1. ASSUME NEW s \in Stories, NEW n \in live'[s] PROVE s \in R /\ n = agent[s]
    BY <1>1, <2>1 DEF Interrupted, Running
  <2> HIDE DEF R
  <2> QED BY <2>1 DEF Working
<1>6. IsFiniteSet(Pairs) /\ Cardinality(Pairs) <= Cardinality(R)
  <2>1. [s \in R |-> <<s, agent[s]>>] \in Surjection(R, Pairs)
    BY DEF Surjection
  <2> HIDE DEF R, Pairs
  <2> QED BY <1>4, <2>1, FS_Surjection
<1>7. /\ Cardinality(Working') <= Cardinality(Pairs)
      /\ Cardinality(Working') \in Nat /\ Cardinality(Pairs) \in Nat
      /\ Cardinality(R) \in Nat
  <2> HIDE DEF R, Pairs
  <2> QED BY <1>4, <1>5, <1>6, FS_Subset, FS_CardinalityType
<1> QED
  <2> HIDE DEF Pairs
  <2> QED BY <1>4, <1>6, <1>7

LEMMA SlotsStep ==
    ASSUME AgentInv, SlotsAreFree, ~OperatorsDispatch, MaxAgents > 0,
           NEW t, Tickers = {t}, [Next]_vars
    PROVE  SlotsAreFree'
<1> DEFINE N == Cardinality(Working)
<1>0. N \in Nat
  BY FS_CardinalityType DEF SlotsAreFree
<1>1. ASSUME \A s \in Stories : live'[s] \subseteq live[s], UNCHANGED slots,
             \/ pc'[t] = pc[t] \/ pc'[t] \in {"idle", "poll"}
             \/ pc[t] \in {"window", "dispatch"} /\ pc'[t] \in {"dispatch", "reacquire"}
             \/ pc[t] \in {"record", "reacquire"} /\ pc'[t] \in {"reacquire", "claim"}
      PROVE  SlotsAreFree'
  <2>1. /\ IsFiniteSet(Working') /\ Cardinality(Working') <= N
        /\ Cardinality(Working') \in Nat
    BY <1>1, WorkingShrinks DEF SlotsAreFree
  <2> HIDE DEF N
  <2>2. N <= MaxAgents /\ slots[t] \in Nat
    BY DEF SlotsAreFree, N
  <2>3. /\ pc[t] \in {"claim", "record", "reacquire"} => N + slots[t] <= MaxAgents
        /\ pc[t] \in {"window", "dispatch"} => N + 1 + slots[t] <= MaxAgents
    BY DEF SlotsAreFree, N
  <2>4. \/ pc'[t] \in {"claim", "record", "reacquire"} /\ N + slots[t] <= MaxAgents
        \/ pc'[t] \in {"window", "dispatch"} /\ N + 1 + slots[t] <= MaxAgents
        \/ pc'[t] \notin {"claim", "record", "reacquire", "window", "dispatch"}
    BY <1>0, <1>1, <2>2, <2>3
  <2> QED BY <1>0, <1>1, <2>1, <2>2, <2>4 DEF SlotsAreFree
<1>2. CASE StartTick(t)
  <2>1. PICK gated \in SUBSET {s \in Stories : status[s] = "in_progress" /\ agent[s] # 0} :
           /\ Interrupted(gated)
           /\ slots' = [slots EXCEPT ![t] =
                  LET busy == Cardinality(Running \ gated)
                  IN  IF busy < MaxAgents THEN MaxAgents - busy ELSE 0]
    BY <1>2 DEF StartTick
  <2>2. \A x \in Actors : pc[x] # "record"
    BY <1>2 DEF StartTick
  <2>3. /\ IsFiniteSet(Running \ gated)
        /\ Cardinality(Working') <= Cardinality(Running \ gated)
    BY <2>1, <2>2, WorkingCounted DEF SlotsAreFree
  <2>4. /\ IsFiniteSet(Working') /\ Cardinality(Working') <= N
        /\ Cardinality(Working') \in Nat /\ Cardinality(Running \ gated) \in Nat
    <3>1. \A s \in Stories : live'[s] \subseteq live[s]
      BY <2>1 DEF Interrupted
    <3> QED BY <2>3, <3>1, WorkingShrinks, FS_CardinalityType DEF SlotsAreFree
  <2> HIDE DEF N
  <2>5. N <= MaxAgents
    BY DEF SlotsAreFree, N
  <2>6. slots'[t] \in Nat /\ Cardinality(Working') + slots'[t] <= MaxAgents
    BY <1>0, <2>1, <2>3, <2>4, <2>5 DEF SlotsAreFree
  <2>7. pc'[t] = "claim"
    BY <1>2 DEF StartTick
  <2>8. slots' \in [Tickers -> Nat]
    BY <2>1, <2>6 DEF SlotsAreFree
  <2> QED BY <2>4, <2>6, <2>7, <2>8 DEF SlotsAreFree
<1>3. CASE Claim(t)
  <2>1. /\ slots[t] > 0 /\ slots' = [slots EXCEPT ![t] = slots[t] - 1]
        /\ pc[t] = "claim" /\ pc'[t] = "window" /\ UNCHANGED live
    <3>1. /\ MaxAgents = 0 \/ slots[t] > 0
          /\ slots' = [slots EXCEPT ![t] = IF @ > 0 THEN @ - 1 ELSE 0]
      BY <1>3 DEF Claim
    <3>2. slots[t] > 0
      BY <3>1
    <3>3. pc[t] = "claim" /\ pc'[t] = "window" /\ UNCHANGED live
      BY <1>3 DEF Claim
    <3> QED BY <3>1, <3>2, <3>3
  <2>2. Working' = Working
    BY <2>1 DEF Working
  <2>3. slots'[t] = slots[t] - 1 /\ slots[t] - 1 \in Nat /\ slots' \in [Tickers -> Nat]
    BY <2>1 DEF SlotsAreFree
  <2>4. N + slots[t] <= MaxAgents
    BY <2>1 DEF SlotsAreFree
  <2>5. N + 1 + slots'[t] <= MaxAgents
    <3> HIDE DEF N
    <3>1. slots[t] \in Nat
      BY DEF SlotsAreFree
    <3>2. slots'[t] = slots[t] - 1
      BY <2>3
    <3> QED BY <1>0, <2>4, <3>1, <3>2
  <2> QED BY <2>1, <2>2, <2>3, <2>5 DEF SlotsAreFree
<1>4. ASSUME NEW a \in Actors, Launch(a) PROVE SlotsAreFree'
  <2>1. a = t /\ pc[t] = "dispatch" /\ pc'[t] = "record" /\ slots' = slots
    BY <1>4 DEF Launch, OperatorsWait
  <2>2. PICK s \in Stories : live' = [live EXCEPT ![s] = @ \cup {launches[s] + 1}]
    BY <1>4 DEF Launch
  <2>3. Working' \subseteq Working \cup {<<s, launches[s] + 1>>}
    BY <2>2 DEF Working
  <2>4. /\ IsFiniteSet(Working \cup {<<s, launches[s] + 1>>})
        /\ Cardinality(Working \cup {<<s, launches[s] + 1>>}) <= N + 1
    <3>1. PICK W : W = Working
      OBVIOUS
    <3>2. /\ IsFiniteSet(W \cup {<<s, launches[s] + 1>>})
          /\ Cardinality(W \cup {<<s, launches[s] + 1>>}) \in {Cardinality(W), Cardinality(W) + 1}
      BY <3>1, FS_AddElement DEF SlotsAreFree
    <3> QED BY <1>0, <3>1, <3>2
  <2>5. IsFiniteSet(Working') /\ Cardinality(Working') <= N + 1 /\ Cardinality(Working') \in Nat
    BY <1>0, <2>3, <2>4, FS_Subset, FS_CardinalityType
  <2>6. N + 1 + slots[t] <= MaxAgents /\ slots[t] \in Nat
    BY <2>1 DEF SlotsAreFree
  <2> HIDE DEF N
  <2>7. Cardinality(Working') + slots[t] <= MaxAgents /\ Cardinality(Working') <= MaxAgents
    BY <1>0, <2>5, <2>6
  <2> QED BY <2>1, <2>5, <2>7 DEF SlotsAreFree
<1>5. ASSUME NEW a \in Actors, Refuse(a) \/ Park(a) \/ Record(a) PROVE SlotsAreFree'
  <2>1. a = t /\ UNCHANGED <<live, slots>> /\ pc[t] \in {"dispatch", "record"} /\ pc'[t] = "reacquire"
    BY <1>5 DEF Refuse, Park, Record, Return, OperatorsWait
  <2> QED BY <1>1, <2>1
<1>6. CASE TickPaused(t) \/ SkipStory(t) \/ EndDispatch(t) \/ PollGone(t) \/ PollHung(t)
           \/ EndTick(t) \/ DispatchLocked(t) \/ EnterDispatch(t) \/ SettleReturned(t)
           \/ SettleRefused(t) \/ ReacquireTimeout(t)
  <2>1. /\ UNCHANGED slots
        /\ \/ pc'[t] = pc[t] \/ pc'[t] \in {"idle", "poll"}
           \/ pc[t] \in {"window", "dispatch"} /\ pc'[t] \in {"dispatch", "reacquire"}
           \/ pc[t] \in {"record", "reacquire"} /\ pc'[t] \in {"reacquire", "claim"}
    BY <1>6 DEF TickPaused, SkipStory, EndDispatch, PollGone, PollHung, EndTick, DispatchLocked,
       EnterDispatch, SettleReturned, SettleRefused, Settle, ReacquireTimeout
  <2>2. \A s \in Stories : live'[s] \subseteq live[s]
    BY <1>6 DEF TickPaused, Interrupted, SkipStory, EndDispatch, PollGone, PollHung, EndTick,
       DispatchLocked, EnterDispatch, SettleReturned, SettleRefused, ReacquireTimeout
  <2> QED BY <1>1, <2>1, <2>2
<1>7. CASE Crash(t)
  <2>1. UNCHANGED slots /\ pc'[t] = "idle" /\ \A s \in Stories : live'[s] \subseteq live[s]
    BY <1>7 DEF Crash
  <2> QED BY <1>1, <2>1
<1>8. ASSUME NEW o \in Operators, OperatorStep(o) PROVE SlotsAreFree'
  <2>1. UNCHANGED <<slots, pc>> /\ \A s \in Stories : live'[s] \subseteq live[s]
    BY <1>8 DEF OperatorStep, OperatorDispatch, Interrupt, Interrupted, Retry, SetPlanPaused
  <2> QED BY <1>1, <2>1
<1>9. CASE AgentExits
  <2>1. UNCHANGED <<slots, pc>> /\ \A s \in Stories : live'[s] \subseteq live[s]
    BY <1>9 DEF AgentExits
  <2> QED BY <1>1, <2>1
<1>10. CASE (\E s \in Stories : LeaseLapses(s)) \/ UNCHANGED vars
  <2>1. UNCHANGED <<slots, pc, live>>
    BY <1>10 DEF LeaseLapses, vars
  <2> QED BY <1>1, <2>1
<1> QED BY <1>2, <1>3, <1>4, <1>5, <1>6, <1>7, <1>8, <1>9, <1>10 DEF Next, TickStep, Dispatch

LEMMA SlotsInit == Init => SlotsAreFree
<1> SUFFICES ASSUME Init PROVE SlotsAreFree
  OBVIOUS
<1>1. Working = {}
  BY DEF Init, Working
<1>2. IsFiniteSet(Working) /\ Cardinality(Working) = 0
  BY <1>1, FS_EmptySet
<1> QED BY <1>2 DEF Init, SlotsAreFree

-----------------------------------------------------------------------------
\* From the claim to the settling of the result the lease on disk is that of
\* the tick in its window, whatever other ticks, operators, timeouts and
\* crashes do while it has dropped the plan lock.
THEOREM LeaseCoversWindowHolds == Spec => []LeaseCoversWindow
BY LeaseInvHolds, PTL DEF Spec

\* Ticks, operators, windows, timeouts and crashes use the plan lock as the
\* mutex that PlanLock implements: every step enters it when it is free,
\* leaves it as its holder, or leaves it alone.
THEOREM DispatchUsesMutex == Spec => Lock!Spec
<1>1. Init => Lock!Init
  BY DEF Init, Lock!Init
<1>2. LeaseInv /\ [Next]_vars => [Lock!Next]_holders
  <2> SUFFICES ASSUME LeaseInv, [Next]_vars PROVE \/ UNCHANGED holders
                                                 \/ \E x \in Actors : Lock!Enter(x) \/ Lock!Leave(x)
    BY DEF Lock!Next
  <2>1. CASE \E t \in Tickers : Crash(t)
    <3>1. PICK t \in Tickers : Crash(t)
      BY <2>1
    <3>2. holders' = holders \ {t}
      BY <3>1 DEF Crash
    <3>3. CASE t \in holders
      <4>1. holders = {t} /\ holders' = {}
        BY <3>2, <3>3
      <4> QED BY <4>1
    <3> QED BY <3>2, <3>3
  <2>2. CASE \E t \in Tickers : TickStep(t)
    BY <2>2 DEF TickStep, TickPaused, StartTick, SkipStory, Claim, EndDispatch, PollGone,
       PollHung, EndTick, DispatchLocked, EnterDispatch, SettleReturned, SettleRefused,
       ReacquireTimeout
  <2>3. CASE \E o \in Operators : OperatorStep(o)
    BY <2>3 DEF OperatorStep, OperatorDispatch, Interrupt, Retry, SetPlanPaused
  <2>4. CASE \E x \in Actors : Dispatch(x)
    BY <2>4 DEF Dispatch, Refuse, Park, Launch, Record, Return
  <2>5. CASE AgentExits \/ (\E s \in Stories : LeaseLapses(s)) \/ UNCHANGED vars
    BY <2>5 DEF AgentExits, LeaseLapses, vars
  <2> QED BY <2>1, <2>2, <2>3, <2>4, <2>5 DEF Next
<1> QED BY LeaseInvHolds, <1>1, <1>2, PTL DEF Spec, SafeSpec, Lock!Spec

\* No agent is at work that the manifest does not name, or is about to name,
\* as the agent of a story in progress: no poll, pause or watchdog misses one.
THEOREM NoStrayAgentHolds == ASSUME ~OperatorsDispatch PROVE Spec => []NoStrayAgent
BY AgentInvHolds, PTL DEF Spec

\* Ticks never put two agents to work in one worktree, for any number of ticks
\* and stories; operators who call dispatch_story themselves can.  Every agent
\* that nobody finds any more is that of a crash of its own.
THEOREM OneWorkingAgentHolds == ASSUME ~OperatorsDispatch PROVE Spec => []OneWorkingAgent
<1>1. AgentInv /\ OrphansCounted => OneWorkingAgent
  <2> SUFFICES ASSUME AgentInv, OrphansCounted, NEW s \in Stories
               PROVE  Cardinality(live[s]) <= 1 /\ Cardinality(orphans[s]) <= crashes
    BY DEF OneWorkingAgent
  <2>1. CASE live[s] = {}
    BY <2>1, FS_EmptySet DEF OrphansCounted
  <2>2. CASE \E n \in Nat : live[s] = {n}
    <3>1. PICK n \in Nat : live[s] = {n}
      BY <2>2
    <3>2. Cardinality(live[s]) = 1
      BY <3>1, FS_Singleton
    <3> QED BY <3>2 DEF OrphansCounted
  <2> QED BY <2>1, <2>2, OneAgent
<1> QED BY <1>1, AgentInvHolds, OrphansHold, PTL DEF Spec

\* The docstring of dispatch_story, as far as it goes: until a ticker crashes,
\* no two agents are in one worktree when operators do not dispatch.  Both
\* conditions are needed: a run of this project shows what operators do, and an
\* agent that a crash orphaned stays in the worktree beside the next one.
THEOREM OneAgentPerWorktreeHolds ==
    ASSUME ~OperatorsDispatch PROVE Spec => [](crashes = 0 => OneAgentPerWorktree)
<1>1. AgentInv /\ OrphansCounted => (crashes = 0 => OneAgentPerWorktree)
  <2> SUFFICES ASSUME AgentInv, OrphansCounted, crashes = 0, NEW s \in Stories
               PROVE  Cardinality(live[s] \cup orphans[s]) <= 1
    BY DEF OneAgentPerWorktree
  <2>1. orphans[s] = {}
    <3>1. IsFiniteSet(orphans[s]) /\ Cardinality(orphans[s]) <= 0
      BY DEF OrphansCounted
    <3>2. Cardinality(orphans[s]) = 0
      BY <3>1, FS_CardinalityType
    <3> QED BY <3>1, <3>2, FS_EmptySet
  <2>2. CASE live[s] = {}
    BY <2>1, <2>2, FS_EmptySet
  <2>3. CASE \E n \in Nat : live[s] = {n}
    <3>1. PICK n \in Nat : live[s] \cup orphans[s] = {n}
      BY <2>1, <2>3
    <3>2. Cardinality(live[s] \cup orphans[s]) = 1
      BY <3>1, FS_Singleton
    <3> QED BY <3>2
  <2> QED BY <2>2, <2>3, OneAgent
<1> QED BY <1>1, AgentInvHolds, OrphansHold, PTL DEF Spec

\* A failed attempt is never counted against a story whose agent is at work:
\* neither the settling of a tick's window nor a poll mistakes a dispatch that
\* succeeded for one that failed.
THEOREM FailuresAreRealHolds == ASSUME ~OperatorsDispatch PROVE Spec => FailuresAreReal
<1>1. ASSUME AgentInv, [Next]_vars, NEW s \in Stories, attempts'[s] > attempts[s]
      PROVE  live[s] = {}
  <2>1. CASE \E t \in Tickers : PollGone(t)
    <3>1. PICK t \in Tickers : PollGone(t)
      BY <2>1
    <3>2. agent[s] \notin live[s] /\ pc[t] = "poll"
      BY <1>1, <3>1 DEF PollGone, Escalate
    <3>3. \A x \in Actors : pc[x] # "record"
      BY <1>1, <3>2
    <3> QED BY <1>1, <3>2, <3>3 DEF NoStrayAgent
  <2>2. CASE \E t \in Tickers : SettleRefused(t)
    <3>1. PICK t \in Tickers : SettleRefused(t)
      BY <2>2
    <3>2. s = job[t] /\ InWindow(t, s) /\ pc[t] = "reacquire" /\ outcome[t] = "refused"
      BY <1>1, <3>1 DEF SettleRefused, Settle, InWindow
    <3> QED BY <1>1, <3>1, <3>2 DEF WindowIsQuiet
  <2>3. CASE \E t \in Tickers : PollHung(t)
    BY <1>1, <2>3 DEF PollHung, Escalate
  <2>4. \/ \E t \in Tickers : PollGone(t) \/ SettleRefused(t) \/ PollHung(t)
        \/ attempts' = attempts
    BY <1>1 DEF Next, TickStep, OperatorStep, Dispatch, vars, TickPaused, StartTick, SkipStory,
       Claim, EndDispatch, EndTick, DispatchLocked, EnterDispatch, SettleReturned,
       ReacquireTimeout, Crash, OperatorDispatch, Interrupt, Retry, SetPlanPaused, Refuse,
       Park, Launch, Record, AgentExits, LeaseLapses
  <2> QED BY <1>1, <2>1, <2>2, <2>3, <2>4
<1>2. AgentInv /\ [Next]_vars => [\A s \in Stories : attempts'[s] > attempts[s] => live[s] = {}]_vars
  BY <1>1
<1> QED BY <1>2, AgentInvHolds, PTL DEF Spec, SafeSpec, FailuresAreReal

\* The dispatch of stories implements StoryAgents: with every window, lease,
\* timeout, pause, interrupt and crash left out, the agents of a story come one
\* after the other, and the manifest names the one at work or none.
THEOREM StoryAgentsImplemented == ASSUME ~OperatorsDispatch PROVE Spec => ImplementsStoryAgents
<1>1. AgentInv /\ Numbered /\ [Next]_vars => Numbered'
  BY NumberedStep
<1>2. AgentInv /\ Numbered /\ [Next]_vars => [Agents!Next]_(Agents!vars)
  BY AgentsStep
<1>3. Spec => []Numbered
  BY AgentInvHolds, NumberedInit, <1>1, PTL DEF Spec, SafeSpec
<1> QED BY AgentInvHolds, AgentsInit, <1>2, <1>3, PTL
        DEF Spec, SafeSpec, ImplementsStoryAgents, Agents!Spec

\* The comment on MAX_CONCURRENT_AGENTS, as far as it goes: the cap holds when
\* one process at a time runs the ticks of the plan, whatever its timeouts and
\* crashes.  A tick counts the free slots once, so the windows of two processes
\* can pass it together: a run of this project shows that.
THEOREM WithinCapHolds ==
    ASSUME ~OperatorsDispatch, NEW CONSTANT t, Tickers = {t} PROVE Spec => []WithinCap
<1>1. CASE MaxAgents > 0
  <2>1. AgentInv /\ SlotsAreFree /\ [Next]_vars => SlotsAreFree'
    BY <1>1, SlotsStep
  <2>2. SlotsAreFree => WithinCap
    BY DEF SlotsAreFree, Working, WithinCap
  <2> QED BY AgentInvHolds, SlotsInit, <2>1, <2>2, PTL DEF Spec, SafeSpec
<1>2. CASE ~(MaxAgents > 0)
  <2>1. WithinCap
    BY <1>2 DEF WithinCap
  <2> QED BY <2>1, PTL
<1> QED BY <1>1, <1>2
=============================================================================
