----------------------- MODULE GracefulShutdownProofs -----------------------
(***************************************************************************)
(* Theorems of GracefulShutdown: what a clean exit guarantees, whatever    *)
(* calls reject and in whatever order the loop, the steps, the timer and   *)
(* the framework's hooks run.                                              *)
(***************************************************************************)
EXTENDS GracefulShutdown, TLAPS

\* While a job is executed, it is the one stop() would release.
LoopInv ==
    loop \in InExecute => /\ running \in Jobs
                          /\ currentJob = running
                          /\ job[running] # "PENDING"

\* Past "stop" the loop is over, and past "release" there is no job left.
HandlerInv ==
    /\ handler \in Steps \ {"stop"} => loop = "ended"
    /\ handler = "release" => currentJob # None
    /\ handler \in {"pool", "poolWait", "close"} => currentJob = None

\* The process knows every job it has leased, or has lost track of it.
LeaseInv == \A j \in Jobs : job[j] = "LEASED" => j \in forgotten \cup {currentJob}

\* Whoever is past the pool's shutdown has seen it begun.
PoolInv ==
    /\ handler \in {"poolWait", "close"} => pool # "up"
    /\ hooks \in {"poolWait", "raise"} => pool # "up"
    /\ exit = "clean" => handler = "close"

ShutdownInv == TypeOK /\ LoopInv /\ HandlerInv /\ LeaseInv /\ PoolInv

USE DEF InExecute, Steps, ShutdownAssumption

\* The invariant holds at first.
LEMMA InitInv == Init => ShutdownInv
  BY ShutdownAssumption
  DEF Init, ShutdownInv, TypeOK, LoopInv, HandlerInv, LeaseInv, PoolInv

\* The poller's loop preserves the invariant.
LEMMA LoopPreserves ==
  ASSUME ShutdownInv, exit = "running", Loop PROVE ShutdownInv'
<1> USE ShutdownAssumption
    DEF ShutdownInv, TypeOK, LoopInv, HandlerInv, LeaseInv, PoolInv
<1>1. CASE LoopTop
  BY <1>1 DEF LoopTop, GoesOn
<1>2. CASE \E j \in Jobs : Claim(j)
  BY <1>2 DEF Claim
<1>3. CASE ClaimNothing
  BY <1>3 DEF ClaimNothing
<1>4. CASE ClaimFails
  BY <1>4 DEF ClaimFails
<1>5. CASE Wake
  BY <1>5 DEF Wake
<1>6. CASE Open
  BY <1>6 DEF Open
<1>7. CASE ScoreBatch
  BY <1>7 DEF ScoreBatch
<1>8. CASE BatchScored
  BY <1>8 DEF BatchScored
<1>9. CASE ExecuteFails
  BY <1>9 DEF ExecuteFails
<1>10. CASE Complete
  BY <1>10 DEF Complete, Return
<1>11. CASE MarkFailed
  BY <1>11 DEF MarkFailed, Return
<1>12. CASE Escape
  BY <1>12 DEF Escape
<1> QED
  BY <1>1, <1>2, <1>3, <1>4, <1>5, <1>6, <1>7, <1>8, <1>9, <1>10, <1>11, <1>12
  DEF Loop

\* So do signals, the steps, the timer and the framework's hooks.
LEMMA ShutdownPreserves ==
  ASSUME ShutdownInv, exit = "running",
         Signal \/ Handler \/ Terminated \/ ForceExit \/ Hooks
  PROVE  ShutdownInv'
<1> USE ShutdownAssumption
    DEF ShutdownInv, TypeOK, LoopInv, HandlerInv, LeaseInv, PoolInv, loopVars
<1>1. CASE Signal
  BY <1>1 DEF Signal, HandleSignal
<1>2. CASE PollerStopped
  BY <1>2 DEF PollerStopped
<1>3. CASE ReleaseLease
  BY <1>3 DEF ReleaseLease
<1>4. CASE ReleaseFails
  BY <1>4 DEF ReleaseFails
<1>5. CASE StopPool
  BY <1>5 DEF StopPool, ShutdownPool
<1>6. CASE CloseContext
  BY <1>6 DEF CloseContext
<1>7. CASE Terminated
  BY <1>7 DEF Terminated
<1>8. CASE ForceExit
  BY <1>8 DEF ForceExit
<1>9. CASE Disconnect
  BY <1>9 DEF Disconnect
<1>10. CASE ShutdownHook
  BY <1>10 DEF ShutdownHook, ShutdownPool
<1>11. CASE RaiseAgain
  BY <1>11 DEF RaiseAgain, HandleSignal
<1> QED
  BY <1>1, <1>2, <1>3, <1>4, <1>5, <1>6, <1>7, <1>8, <1>9, <1>10, <1>11
  DEF Handler, Hooks

\* ShutdownInv is an invariant.
LEMMA Invariance == Spec => []ShutdownInv
<1>1. ShutdownInv /\ [Next]_vars => ShutdownInv'
  <2> SUFFICES ASSUME ShutdownInv, [Next]_vars PROVE ShutdownInv'
    OBVIOUS
  <2>1. CASE Next
    BY <2>1, LoopPreserves, ShutdownPreserves DEF Next
  <2>2. CASE UNCHANGED vars
    BY <2>2 DEF vars, loopVars, ShutdownInv, TypeOK, LoopInv, HandlerInv, LeaseInv, PoolInv
  <2> QED
    BY <2>1, <2>2
<1> QED
  BY InitInv, <1>1, PTL DEF Spec

\* Type correctness.
THEOREM TypeCorrect == Spec => []TypeOK
<1>1. ShutdownInv => TypeOK
  BY DEF ShutdownInv
<1> QED
  BY Invariance, <1>1, PTL

\* stop() never puts back a job that is still being executed.
THEOREM ReleasesOnlyAfterTheLoop == Spec => []ExecutedIsNotReleased
<1>1. ShutdownInv => ExecutedIsNotReleased
  BY DEF ShutdownInv, LoopInv, ExecutedIsNotReleased
<1> QED
  BY Invariance, <1>1, PTL

\* exit(0) leaves behind no lease the process knows of.
THEOREM CleanExitReleases == Spec => []CleanExitLeavesNoLease
<1>1. ShutdownInv => CleanExitLeavesNoLease
  BY ShutdownAssumption
  DEF ShutdownInv, HandlerInv, LeaseInv, PoolInv, CleanExitLeavesNoLease
<1> QED
  BY Invariance, <1>1, PTL

\* exit(0) comes after the loop has ended and the pool was told to stop.
THEOREM CleanExitOrdered == Spec => []CleanExitIsOrderly
<1>1. ShutdownInv => CleanExitIsOrderly
  BY DEF ShutdownInv, HandlerInv, PoolInv, CleanExitIsOrderly
<1> QED
  BY Invariance, <1>1, PTL

\* After a signal no further claim is started.
THEOREM NoLateClaim == Spec => NoClaimAfterSignal
<1>1. [Next]_vars => (handler # "idle" /\ loop' = "claiming" => loop = "claiming")
  BY DEF Next, vars, loopVars, Loop, Handler, Hooks, LoopTop, GoesOn, Claim, ClaimNothing,
         ClaimFails, Wake, Open, ScoreBatch, BatchScored, ExecuteFails, Complete,
         MarkFailed, Return, Escape, Signal, HandleSignal, PollerStopped, ReleaseLease,
         ReleaseFails, StopPool, ShutdownPool, CloseContext, Terminated, ForceExit,
         Disconnect, ShutdownHook, RaiseAgain
<1> QED
  BY <1>1, PTL DEF Spec, NoClaimAfterSignal
=============================================================================
