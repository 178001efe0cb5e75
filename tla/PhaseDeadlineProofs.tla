------------------------ MODULE PhaseDeadlineProofs ------------------------
(***************************************************************************)
(* PhaseDeadline: for every number of attempts the invariant of a watchdog *)
(* is inductive, a task is never left unwatched, work done in time counts, *)
(* and the caller is given what BoundedCall promises.                      *)
(***************************************************************************)
EXTENDS PhaseDeadline, TLAPS

(* The task's steps keep the invariant: it may end while it is drained or   *)
(* after it was given up on, and a task that ends late is never in time.   *)
LEMMA TaskKeepsInvariant ==
  ASSUME IInv, TaskStep
  PROVE  IInv'
<1> USE DeadlineAssumption DEF None, IInv, TypeOK, TaskIsSeenOff, WorkInTimeCounts, CancellationIsKept,
        Results, Answers
<1> USE DEF taskVars, watchVars
<1>1. ASSUME NEW r \in Results, TaskEnds(r) PROVE IInv'
  <2>1. TypeOK'  BY <1>1 DEF TaskEnds
  <2>2. TaskIsSeenOff'  BY <1>1 DEF TaskEnds
  <2>3. WorkInTimeCounts'  BY <1>1 DEF TaskEnds
  <2> QED BY <1>1, <2>1, <2>2, <2>3 DEF TaskEnds
<1>2. CASE TaskSwallows  BY <1>2 DEF TaskSwallows
<1> QED BY <1>1, <1>2 DEF TaskStep

(* One turn of the drain keeps the invariant, whatever led to it.           *)
LEMMA DrainTurnKeepsInvariant ==
  ASSUME IInv, NEW t \in {"deadline", "external_cancel"}, DrainTurn(t),
         watchdog \in {"waiting", "draining"},
         t = "deadline" => expired /\ ~ inTime,
         t = "external_cancel" => calledOff
  PROVE  IInv'
<1> USE DeadlineAssumption DEF None, IInv, TypeOK, TaskIsSeenOff, WorkInTimeCounts, CancellationIsKept,
        Results, Answers
<1>1. CASE DrainIsOver
  <2> USE <1>1 DEF DrainTurn, LeavesDrain, Returns, Farewell, AnswerAfter, DrainIsOver
  <2>1. TypeOK'  OBVIOUS
  <2>2. TaskIsSeenOff'  OBVIOUS
  <2>3. WorkInTimeCounts'  OBVIOUS
  <2> QED BY <2>1, <2>2, <2>3
<1>2. CASE ~ DrainIsOver
  <2> USE <1>2 DEF DrainTurn, DrainIsOver
  <2>1. asks' \in 0 .. Attempts  OBVIOUS
  <2>2. TypeOK'  BY <2>1
  <2> QED BY <2>2
<1> QED BY <1>1, <1>2

(* The watchdog's steps keep the invariant, one step for each of them.      *)
LEMMA WatchdogKeepsInvariant ==
  ASSUME IInv, WatchdogStep
  PROVE  IInv'
<1> USE DeadlineAssumption DEF None, IInv, TypeOK, TaskIsSeenOff, WorkInTimeCounts, CancellationIsKept,
        Results, Answers
<1> USE DEF taskVars
<1>1. CASE EntersTooLate
  <2>1. CancellationIsKept'  BY <1>1 DEF EntersTooLate, Returns
  <2>2. TypeOK'  BY <1>1 DEF EntersTooLate, Returns
  <2> QED BY <1>1, <2>1, <2>2 DEF EntersTooLate, Returns
<1>2. CASE StartsTask
  <2>1. TypeOK'  BY <1>2 DEF StartsTask
  <2> QED BY <1>2, <2>1 DEF StartsTask
<1>3. CASE ReturnsResult  BY <1>3 DEF ReturnsResult, Returns
<1>4. CASE DeadlineFires
  BY <1>4, DrainTurnKeepsInvariant DEF DeadlineFires, Overdue
<1>5. CASE IsCancelled  BY <1>5, DrainTurnKeepsInvariant DEF IsCancelled
<1>6. CASE SliceEnds  BY <1>6, DrainTurnKeepsInvariant DEF SliceEnds
<1>7. CASE DrainIsCancelled
  BY <1>7 DEF DrainIsCancelled, LeavesDrain, Returns, Farewell, AnswerAfter
<1> QED BY <1>1, <1>2, <1>3, <1>4, <1>5, <1>6, <1>7 DEF WatchdogStep

(* The invariant is inductive: it holds at the start and no step of the     *)
(* watchdog, the task, the clock or the canceller breaks it.               *)
THEOREM WatchdogInvariant == Spec => []IInv
<1>1. Init => IInv
  <2> SUFFICES ASSUME Init PROVE IInv  OBVIOUS
  <2>1. asks \in 0 .. Attempts  BY DeadlineAssumption DEF Init
  <2>2. TypeOK  BY <2>1 DEF Init, TypeOK
  <2> QED BY <2>2 DEF Init, None, IInv, TaskIsSeenOff, WorkInTimeCounts, CancellationIsKept
<1>2. IInv /\ [Next]_vars => IInv'
  <2> SUFFICES ASSUME IInv, [Next]_vars PROVE IInv'  OBVIOUS
  <2>1. CASE WatchdogStep  BY <2>1, WatchdogKeepsInvariant
  <2>2. CASE TaskStep  BY <2>2, TaskKeepsInvariant
  <2> USE DEF IInv, TypeOK, TaskIsSeenOff, WorkInTimeCounts, CancellationIsKept, taskVars,
            watchVars
  <2>3. CASE TimePasses  BY <2>3 DEF TimePasses
  <2>4. CASE ExternalCancel  BY <2>4 DEF ExternalCancel
  <2>5. CASE UNCHANGED vars  BY <2>5 DEF vars
  <2> QED BY <2>1, <2>2, <2>3, <2>4, <2>5 DEF Next
<1> QED BY <1>1, <1>2, PTL DEF Spec

(* No task is left unwatched, however often it swallows a cancellation.     *)
THEOREM TaskSeenOff == Spec => []TaskIsSeenOff
<1>1. IInv => TaskIsSeenOff  BY DEF IInv
<1> QED BY <1>1, WatchdogInvariant, PTL

(* A phase that ended in time is never reported as late.                    *)
THEOREM InTimeCounts == Spec => []WorkInTimeCounts
<1>1. IInv => WorkInTimeCounts  BY DEF IInv
<1> QED BY <1>1, WatchdogInvariant, PTL

-----------------------------------------------------------------------------
(* The refinement: one step here is one step of the contract or none.      *)

(* A turn of the drain shows only when it is the last, and then its answer  *)
(* has its cause.                                                          *)
LEMMA DrainTurnMeetsContract ==
  ASSUME IInv, NEW t \in {"deadline", "external_cancel"}, DrainTurn(t), answer = None,
         t = "deadline" => expired,
         t = "external_cancel" => calledOff
  PROVE  [Contract!CallNext]_(Contract!callVars)
<1> USE DEF None, IInv, TypeOK, Contract!callVars, Contract!Tell
<1>1. CASE ~ DrainIsOver  BY <1>1 DEF DrainTurn
<1>2. CASE DrainIsOver /\ t = "deadline"
  <2>1. Contract!TellTimeout
    BY <1>2 DEF DrainTurn, LeavesDrain, Returns, AnswerAfter, Contract!TellTimeout
  <2> QED BY <2>1 DEF Contract!CallNext
<1>3. CASE DrainIsOver /\ t = "external_cancel"
  <2>1. Contract!TellCancelled
    BY <1>3 DEF DrainTurn, LeavesDrain, Returns, AnswerAfter, Contract!TellCancelled
  <2> QED BY <2>1 DEF Contract!CallNext
<1> QED BY <1>1, <1>2, <1>3

(* The watchdog answers once, with a result, a timeout or a cancellation,   *)
(* and each for its reason.                                                *)
LEMMA WatchdogMeetsContract ==
  ASSUME IInv, WatchdogStep
  PROVE  [Contract!CallNext]_(Contract!callVars)
<1> USE DEF None, IInv, TypeOK, Contract!callVars, Contract!Tell
<1> USE DEF taskVars
<1>1. CASE EntersTooLate
  <2>1. Contract!TellTimeout
    BY <1>1 DEF EntersTooLate, Returns, Contract!TellTimeout
  <2> QED BY <2>1 DEF Contract!CallNext
<1>2. CASE StartsTask  BY <1>2 DEF StartsTask
<1>3. CASE ReturnsResult
  <2>1. Contract!TellResult
    BY <1>3 DEF ReturnsResult, Returns, Contract!TellResult
  <2> QED BY <2>1 DEF Contract!CallNext
<1>4. CASE DeadlineFires
  BY <1>4, DrainTurnMeetsContract DEF DeadlineFires, Overdue
<1>5. CASE IsCancelled  BY <1>5, DrainTurnMeetsContract DEF IsCancelled
<1>6. CASE SliceEnds  BY <1>6, DrainTurnMeetsContract DEF SliceEnds
<1>7. CASE DrainIsCancelled
  <2>1. CASE trigger = "deadline"
    <3>1. Contract!TellTimeout
      BY <1>7, <2>1 DEF DrainIsCancelled, LeavesDrain, Returns, AnswerAfter,
                        Contract!TellTimeout
    <3> QED BY <3>1 DEF Contract!CallNext
  <2>2. CASE trigger = "external_cancel"
    <3>1. Contract!TellCancelled
      BY <1>7, <2>2 DEF DrainIsCancelled, LeavesDrain, Returns, AnswerAfter,
                        Contract!TellCancelled
    <3> QED BY <3>1 DEF Contract!CallNext
  <2> QED BY <1>7, <2>1, <2>2 DEF DrainIsCancelled
<1> QED BY <1>1, <1>2, <1>3, <1>4, <1>5, <1>6, <1>7 DEF WatchdogStep

(* The caller of a phase gets its result or a reason why not: every         *)
(* behaviour of the watchdog is one of BoundedCall.                        *)
THEOREM WatchdogMeetsItsContract == Spec => MeetsContract
<1>1. Init => Contract!CallInit  BY DEF Init, Contract!CallInit, None
<1>2. IInv /\ [Next]_vars => [Contract!CallNext]_(Contract!callVars)
  <2> SUFFICES ASSUME IInv, [Next]_vars PROVE [Contract!CallNext]_(Contract!callVars)
    OBVIOUS
  <2> USE DEF taskVars, watchVars, None, IInv, Contract!callVars, Contract!Tell
  <2>1. CASE WatchdogStep  BY <2>1, WatchdogMeetsContract
  <2>2. ASSUME NEW r \in Results, TaskEnds(r)
        PROVE  Contract!CallNext
    <3>1. Contract!Produce  BY <2>2 DEF TaskEnds, Contract!Produce
    <3> QED BY <3>1 DEF Contract!CallNext
  <2>3. CASE TaskSwallows  BY <2>3 DEF TaskSwallows
  <2>4. CASE TimePasses
    <3>1. Contract!Expire  BY <2>4 DEF TimePasses, Contract!Expire
    <3> QED BY <3>1 DEF Contract!CallNext
  <2>5. CASE ExternalCancel
    <3>1. Contract!CallOff  BY <2>5 DEF ExternalCancel, Contract!CallOff
    <3> QED BY <3>1 DEF Contract!CallNext
  <2>6. CASE UNCHANGED vars  BY <2>6 DEF vars
  <2> QED BY <2>1, <2>2, <2>3, <2>4, <2>5, <2>6 DEF Next, TaskStep
<1> QED BY <1>1, <1>2, WatchdogInvariant, PTL DEF Spec, MeetsContract, Contract!CallSpec
=============================================================================
