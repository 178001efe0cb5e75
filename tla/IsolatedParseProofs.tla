------------------------ MODULE IsolatedParseProofs ------------------------
(***************************************************************************)
(* IsolatedParse: its invariant is inductive, no process outlives its      *)
(* call, and the caller is given what BoundedCall promises.                *)
(***************************************************************************)
EXTENDS IsolatedParse, TLAPS

USE DEF None

(* The caller decides what to report: its report has its cause, for every   *)
(* branch of the loop that polls the pipe.                                 *)
LEMMA DecisionsHaveTheirCause ==
  ASSUME IInv, NEW s \in Statuses, Decides(s), ~ ReadEndClosed, caller # "entering",
         s \in Verdicts => pipe = "whole" /\ s = verdict,
         s = "timeout" => expired,
         s = "lost" => WriteEndClosed,
         s = "lost" /\ pipe # "empty" => worker = "exited",
         s = "broken" => pipe = "part" /\ WriteEndClosed
  PROVE  IInv'
<1>1. /\ status' = s /\ caller' \in {"stopping", "joining"}
      /\ UNCHANGED <<expired, worker, verdict, pipe, signal>>
  BY DEF Decides, Disposal
<1>2. TypeOK'  BY <1>1 DEF IInv, TypeOK, Callers
<1>3. PipeFollowsWorker'
  BY <1>1 DEF IInv, PipeFollowsWorker, ReadEndClosed
<1>4. StatusHasItsCause'
  <2>1. s # None  BY DEF Statuses, Verdicts, Shapes
  <2>2. ReadEndClosed'  BY <1>1 DEF ReadEndClosed
  <2>3. WriteEndClosed' = WriteEndClosed  BY <1>1 DEF WriteEndClosed
  <2> QED BY <1>1, <2>1, <2>2, <2>3 DEF StatusHasItsCause
<1>5. NoWorkerIsLeft' /\ caller' \notin {"unable", "terminating", "killing"}
  BY <1>1 DEF NoWorkerIsLeft
<1> QED BY <1>2, <1>3, <1>4, <1>5 DEF IInv

(* The worker's steps leave the caller's decision its cause: a closed pipe  *)
(* stays closed, and nothing is sent once nobody reads.                    *)
LEMMA WorkerKeepsInvariant ==
  ASSUME IInv, WorkerStep
  PROVE  IInv'
<1> USE DEF IInv, TypeOK, PipeFollowsWorker, StatusHasItsCause, NoWorkerIsLeft,
            ReadEndClosed, WriteEndClosed, Running, Callers, Workers
<1>1. CASE WorkerBoots  BY <1>1 DEF WorkerBoots
<1>2. ASSUME NEW v \in Verdicts, WorkerSends(v) PROVE IInv'
  BY <1>2 DEF WorkerSends
<1>3. CASE WorkerHasSent  BY <1>3 DEF WorkerHasSent
<1>4. CASE WorkerCloses  BY <1>4 DEF WorkerCloses
<1>5. CASE WorkerExits  BY <1>5 DEF WorkerExits
<1>6. CASE WorkerDies  BY <1>6 DEF WorkerDies
<1> QED BY <1>1, <1>2, <1>3, <1>4, <1>5, <1>6 DEF WorkerStep

(* The caller's steps keep the invariant: the decisions by the lemma above, *)
(* the ways out of a call by what Stops and Kills see of the process.      *)
LEMMA CallerKeepsInvariant ==
  ASSUME IInv, CallerStep
  PROVE  IInv'
<1>1. ASSUME NEW c \in {"polling", "receiving", "asking", "checking"}, GoesTo(c),
             ~ ReadEndClosed, caller # "entering"
      PROVE  IInv'
  BY <1>1 DEF GoesTo, IInv, TypeOK, PipeFollowsWorker, StatusHasItsCause,
              NoWorkerIsLeft, ReadEndClosed, WriteEndClosed, Running, Callers
<1>2. CASE EntersTooLate
  BY <1>2 DEF EntersTooLate, Answers, IInv, TypeOK, PipeFollowsWorker, StatusHasItsCause,
              NoWorkerIsLeft, ReadEndClosed, WriteEndClosed, Running, Callers, Statuses,
              Verdicts, Shapes
<1>3. CASE CannotStart
  BY <1>3 DEF CannotStart, IInv, TypeOK, PipeFollowsWorker, StatusHasItsCause,
              NoWorkerIsLeft, ReadEndClosed, WriteEndClosed, Running, Callers, Workers,
              Statuses, Verdicts, Shapes
<1>4. CASE Starts
  BY <1>4 DEF Starts, IInv, TypeOK, PipeFollowsWorker, StatusHasItsCause,
              NoWorkerIsLeft, ReadEndClosed, WriteEndClosed, Running, Callers, Workers
<1>5. CASE ChecksTime
  <2>1. ~ ReadEndClosed /\ caller # "entering"  BY <1>5 DEF ChecksTime, ReadEndClosed
  <2>2. CASE expired
    BY <1>5, <2>1, <2>2, DecisionsHaveTheirCause
       DEF ChecksTime, TimeIsUp, Statuses, Verdicts, Shapes
  <2>3. CASE ~ expired  BY <1>1, <1>5, <2>1, <2>3 DEF ChecksTime, TimeIsUp
  <2> QED BY <2>2, <2>3
<1>6. CASE Polls
  <2>1. ~ ReadEndClosed /\ caller # "entering"  BY <1>6 DEF Polls, ReadEndClosed
  <2> QED BY <1>1, <1>6, <2>1 DEF Polls
<1>7. CASE Receives
  <2>1. ~ ReadEndClosed /\ caller # "entering"  BY <1>7 DEF Receives, ReadEndClosed
  <2>2. CASE pipe = "whole" /\ Decides(Received(verdict))
    <3>1. verdict \in Verdicts  BY <2>2 DEF IInv, PipeFollowsWorker
    <3> QED BY <2>1, <2>2, <3>1, DecisionsHaveTheirCause DEF Received, Statuses, Verdicts, Shapes
  <2>3. CASE pipe = "empty" /\ WriteEndClosed /\ Decides(Received("lost"))
    BY <2>1, <2>3, DecisionsHaveTheirCause DEF Received, Statuses, Verdicts, Shapes
  <2>4. CASE pipe = "part" /\ WriteEndClosed /\ Decides("broken")
    BY <2>1, <2>4, DecisionsHaveTheirCause DEF Statuses, Verdicts, Shapes
  <2>5. CASE pipe = "part" /\ WriteEndClosed /\ Decides(Received("lost"))
    <3>1. worker = "exited"
      BY <2>1, <2>5 DEF WriteEndClosed, IInv, PipeFollowsWorker
    <3> QED BY <2>1, <2>5, <3>1, DecisionsHaveTheirCause DEF Received, Statuses, Verdicts, Shapes
  <2> QED BY <1>7, <2>2, <2>3, <2>4, <2>5 DEF Receives
<1>8. CASE AsksAlive
  <2>1. ~ ReadEndClosed /\ caller # "entering"  BY <1>8 DEF AsksAlive, ReadEndClosed
  <2>2. CASE Running  BY <1>1, <1>8, <2>1, <2>2 DEF AsksAlive
  <2>3. CASE ~ Running
    <3>1. worker # "absent"
      BY <1>8 DEF AsksAlive, IInv, PipeFollowsWorker
    <3>2. worker = "exited" /\ WriteEndClosed  BY <2>3, <3>1 DEF Running, WriteEndClosed
    <3> QED BY <1>8, <2>1, <2>3, <3>2, DecisionsHaveTheirCause
            DEF AsksAlive, Statuses, Verdicts, Shapes
  <2> QED BY <2>2, <2>3
<1>9. CASE Joins \/ Stops \/ Kills \/ Leaves
  <2> USE DEF GoesTo, IInv, TypeOK, PipeFollowsWorker, StatusHasItsCause, NoWorkerIsLeft,
              ReadEndClosed, WriteEndClosed, Running, Callers, Statuses, Verdicts, Shapes
  <2>1. CASE Joins  BY <2>1 DEF Joins
  <2>2. CASE Stops  BY <2>2 DEF Stops
  <2>3. CASE Kills  BY <2>3 DEF Kills
  <2>4. CASE Leaves  BY <2>4 DEF Leaves
  <2> QED BY <1>9, <2>1, <2>2, <2>3, <2>4
<1> QED BY <1>2, <1>3, <1>4, <1>5, <1>6, <1>7, <1>8, <1>9 DEF CallerStep

(* The invariant is inductive: it holds at the start and no step of the     *)
(* worker, its caller or the clock breaks it.                              *)
THEOREM ParseInvariant == Spec => []IInv
<1>1. Init => IInv
  BY DEF Init, IInv, TypeOK, PipeFollowsWorker, StatusHasItsCause, NoWorkerIsLeft,
         ReadEndClosed, WriteEndClosed, Running, Callers, Workers, Verdicts, Shapes
<1>2. IInv /\ [Next]_vars => IInv'
  <2> SUFFICES ASSUME IInv, [Next]_vars PROVE IInv'  OBVIOUS
  <2>1. CASE WorkerStep  BY <2>1, WorkerKeepsInvariant
  <2>2. CASE CallerStep  BY <2>2, CallerKeepsInvariant
  <2>3. CASE TimePasses
    BY <2>3 DEF TimePasses, IInv, TypeOK, PipeFollowsWorker, StatusHasItsCause,
                NoWorkerIsLeft, ReadEndClosed, WriteEndClosed, Running
  <2>4. CASE UNCHANGED vars
    BY <2>4 DEF vars, IInv, TypeOK, PipeFollowsWorker, StatusHasItsCause,
                NoWorkerIsLeft, ReadEndClosed, WriteEndClosed, Running
  <2> QED BY <2>1, <2>2, <2>3, <2>4 DEF Next
<1> QED BY <1>1, <1>2, PTL DEF Spec

(* No process outlives its call: when the caller answers, the worker has    *)
(* exited or has been killed.                                              *)
THEOREM WorkerStopped == Spec => []NoWorkerIsLeft
<1>1. IInv => NoWorkerIsLeft  BY DEF IInv
<1> QED BY <1>1, ParseInvariant, PTL

-----------------------------------------------------------------------------
(* The refinement: one step of a call is one step of its contract or none. *)

USE DEF Contract!callVars, Contract!Tell

(* A verdict arrives in the pipe, and a closed pipe stays closed.           *)
LEMMA WorkerStepMeetsContract ==
  ASSUME IInv, WorkerStep
  PROVE  [Contract!CallNext]_(Contract!callVars)
<1> USE DEF WriteEndClosed
<1>1. CASE WorkerBoots  BY <1>1 DEF WorkerBoots
<1>2. ASSUME NEW v \in Verdicts, WorkerSends(v)
      PROVE  UNCHANGED Contract!callVars
  BY <1>2 DEF WorkerSends, IInv, PipeFollowsWorker
<1>3. CASE WorkerHasSent
  <2>1. verdict \in Verdicts  BY <1>3 DEF WorkerHasSent, IInv, PipeFollowsWorker
  <2>2. verdict # None  BY <2>1 DEF Verdicts, Shapes
  <2>3. Contract!Produce
    BY <1>3, <2>1, <2>2 DEF WorkerHasSent, IInv, PipeFollowsWorker, Contract!Produce
  <2> QED BY <2>3 DEF Contract!CallNext
<1>4. CASE WorkerCloses \/ WorkerExits \/ WorkerDies
  <2>1. Contract!Vanish
    BY <1>4 DEF WorkerCloses, WorkerExits, WorkerDies, Contract!Vanish
  <2> QED BY <2>1 DEF Contract!CallNext
<1> QED BY <1>1, <1>2, <1>3, <1>4 DEF WorkerStep, Contract!CallNext

(* The caller answers what it has made up its mind to report, and that has  *)
(* its cause.                                                              *)
LEMMA AnswersMeetContract ==
  ASSUME IInv, GoesTo("answered"), ReadEndClosed, caller # "answered"
  PROVE  Contract!CallNext
<1> USE DEF GoesTo, WriteEndClosed
<1>1. status \in Statuses  BY DEF IInv, TypeOK, StatusHasItsCause
<1>2. CASE status \in Verdicts
  <2>1. status # None  BY <1>2 DEF Verdicts, Shapes
  <2>2. Contract!TellResult
    BY <1>2, <2>1 DEF IInv, StatusHasItsCause, Contract!TellResult
  <2> QED BY <2>2 DEF Contract!CallNext
<1>3. CASE status = "timeout"
  <2>1. Contract!TellTimeout
    BY <1>3 DEF IInv, StatusHasItsCause, Contract!TellTimeout
  <2> QED BY <2>1 DEF Contract!CallNext
<1>4. CASE status \in {"lost", "broken"}
  <2>1. Contract!TellLost
    BY <1>4 DEF IInv, StatusHasItsCause, Contract!TellLost
  <2> QED BY <2>1 DEF Contract!CallNext
<1> QED BY <1>1, <1>2, <1>3, <1>4 DEF Statuses

(* Before its answer nothing a caller does shows; then it answers.          *)
LEMMA CallerStepMeetsContract ==
  ASSUME IInv, CallerStep
  PROVE  [Contract!CallNext]_(Contract!callVars)
<1> USE DEF GoesTo, WriteEndClosed
<1>1. CASE EntersTooLate
  <2>1. Contract!TellTimeout
    BY <1>1 DEF EntersTooLate, Answers, Contract!TellTimeout
  <2> QED BY <2>1 DEF Contract!CallNext
<1>2. CASE CannotStart
  <2>1. Contract!Vanish  BY <1>2 DEF CannotStart, Contract!Vanish
  <2> QED BY <2>1 DEF Contract!CallNext
<1>3. CASE Starts
  BY <1>3 DEF Starts, IInv, PipeFollowsWorker
<1>4. ASSUME NEW s \in Statuses, Decides(s), caller # "answered"
      PROVE  UNCHANGED Contract!callVars
  BY <1>4 DEF Decides, Disposal
<1>5. CASE ChecksTime \/ Polls \/ Receives \/ AsksAlive
  <2>1. UNCHANGED Contract!callVars
    BY <1>4, <1>5 DEF ChecksTime, Polls, Receives, AsksAlive, Decides, Disposal
  <2> QED BY <2>1
<1>6. CASE Joins  BY <1>6 DEF Joins
<1>7. CASE Stops
  <2>1. CASE Running  BY <1>7, <2>1 DEF Stops
  <2>2. CASE ~ Running
    BY <1>7, <2>2, AnswersMeetContract DEF Stops, ReadEndClosed
  <2> QED BY <2>1, <2>2
<1>8. CASE Kills
  <2>1. CASE Running  BY <1>8, <2>1 DEF Kills
  <2>2. CASE ~ Running
    BY <1>8, <2>2, AnswersMeetContract DEF Kills, ReadEndClosed
  <2> QED BY <2>1, <2>2
<1>9. CASE Leaves
  BY <1>9, AnswersMeetContract DEF Leaves, ReadEndClosed
<1> QED BY <1>1, <1>2, <1>3, <1>5, <1>6, <1>7, <1>8, <1>9 DEF CallerStep

(* The caller of a parse gets what the worker found, or a reason why not:   *)
(* every behaviour of a call is one of BoundedCall.                        *)
THEOREM ParseMeetsContract == Spec => MeetsContract
<1>1. Init => Contract!CallInit
  BY DEF Init, Contract!CallInit, WriteEndClosed
<1>2. IInv /\ [Next]_vars => [Contract!CallNext]_(Contract!callVars)
  <2> SUFFICES ASSUME IInv, [Next]_vars PROVE [Contract!CallNext]_(Contract!callVars)
    OBVIOUS
  <2>1. CASE WorkerStep  BY <2>1, WorkerStepMeetsContract
  <2>2. CASE CallerStep  BY <2>2, CallerStepMeetsContract
  <2>3. CASE TimePasses
    <3>1. Contract!Expire
      BY <2>3 DEF TimePasses, Contract!Expire, WriteEndClosed
    <3> QED BY <3>1 DEF Contract!CallNext
  <2>4. CASE UNCHANGED vars  BY <2>4 DEF vars, WriteEndClosed
  <2> QED BY <2>1, <2>2, <2>3, <2>4 DEF Next
<1> QED BY <1>1, <1>2, ParseInvariant, PTL DEF Spec, MeetsContract, Contract!CallSpec
=============================================================================
