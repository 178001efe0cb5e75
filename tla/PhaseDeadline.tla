--------------------------- MODULE PhaseDeadline ---------------------------
(***************************************************************************)
(* _run_before_deadline and _cancel_and_drain (workflow.py): one phase, or *)
(* one step of the final acceptance, run as a task of its own under a      *)
(* watchdog, because AgentScope swallows cancellations.                    *)
(*                                                                         *)
(* The watchdog and the task share one event loop; a step of either is     *)
(* what it does between two awaits.                                        *)
(***************************************************************************)
EXTENDS Naturals

CONSTANT Attempts   \* _DRAIN_CANCEL_ATTEMPTS

ASSUME DeadlineAssumption == Attempts \in Nat \ {0}

VARIABLES
  watchdog,     \* "entering", "waiting" for the task, "draining" it, "returned"
  trigger,      \* why it drains: "none", "deadline", "external_cancel"
  asks,         \* cancellations it has sent to the task
  expired,      \* time.monotonic() is past the deadline
  interrupted,  \* a cancellation of the watchdog itself is to be delivered
  calledOff,    \* there has been one
  task,         \* "absent", "running", "done"
  result,       \* what the task ended with
  inTime,       \* it ended before the deadline
  asked,        \* a cancellation of the task is to be delivered
  seenOff,      \* how its end is observed: "none", "awaited", "callback"
  answer        \* what the caller is told

taskVars == <<task, result, inTime, asked>>
watchVars == <<watchdog, trigger, asks, interrupted, seenOff, answer>>
vars == <<taskVars, watchVars, expired, calledOff>>

None == "none"
Results == {"value", "raised", "stopped"}
Answers == Results \cup {"timeout", "cancelled"}

Init ==
  /\ watchdog = "entering"
  /\ trigger = None
  /\ asks = 0
  /\ expired \in BOOLEAN
  /\ interrupted = FALSE
  /\ calledOff = FALSE
  /\ task = "absent"
  /\ result = None
  /\ inTime = FALSE
  /\ asked = FALSE
  /\ seenOff = None
  /\ answer = None

-----------------------------------------------------------------------------
(* The task: an agent's phase, or a thread that is waited for.              *)

TaskEnds(r) ==
  /\ task = "running"
  /\ r = "stopped" => asked
  /\ task' = "done"
  /\ result' = r
  /\ inTime' = ~ expired
  /\ asked' = FALSE
  /\ UNCHANGED <<watchVars, expired, calledOff>>

(* AgentScope's model retry loop consumes the cancellation and goes on.     *)
TaskSwallows ==
  /\ task = "running"
  /\ asked
  /\ asked' = FALSE
  /\ UNCHANGED <<task, result, inTime, watchVars, expired, calledOff>>

TaskStep == (\E r \in Results : TaskEnds(r)) \/ TaskSwallows

TimePasses ==
  /\ watchdog # "entering"
  /\ expired' = TRUE
  /\ UNCHANGED <<taskVars, watchVars, calledOff>>

(* The request's own task is cancelled while it awaits the watchdog.        *)
ExternalCancel ==
  /\ watchdog \in {"waiting", "draining"}
  /\ interrupted' = TRUE
  /\ calledOff' = TRUE
  /\ UNCHANGED <<taskVars, watchdog, trigger, asks, seenOff, answer, expired>>

-----------------------------------------------------------------------------
(* The watchdog.                                                           *)

Returns(how, a) ==
  /\ watchdog' = "returned"
  /\ seenOff' = how
  /\ answer' = a

EntersTooLate ==
  /\ watchdog = "entering"
  /\ expired
  /\ Returns("none", "timeout")
  /\ UNCHANGED <<taskVars, trigger, asks, interrupted, expired, calledOff>>

StartsTask ==
  /\ watchdog = "entering"
  /\ ~ expired
  /\ watchdog' = "waiting"
  /\ task' = "running"
  /\ UNCHANGED <<result, inTime, asked, trigger, asks, interrupted, seenOff,
                 answer, expired, calledOff>>

(* A task that is done when the wait ends is not late, whatever the time.   *)
ReturnsResult ==
  /\ watchdog = "waiting"
  /\ ~ interrupted
  /\ task = "done"
  /\ Returns("awaited", result)
  /\ UNCHANGED <<taskVars, trigger, asks, interrupted, expired, calledOff>>

(* What the caller of a drain does next: raise again, or report a timeout.  *)
(* Mutation used by the runs: every drain is reported as a timeout.         *)
AnswerAfter_Timeout(t) == "timeout"
AnswerAfter(t) == IF t = "external_cancel" THEN "cancelled" ELSE "timeout"

Farewell == IF task = "done" THEN "awaited" ELSE "callback"

LeavesDrain(t) == Returns(Farewell, AnswerAfter(t)) /\ UNCHANGED <<asks, asked>>

(* One turn of the drain's loop.                                           *)
(* Mutation used by the runs: the task is told once more.                   *)
DrainIsOver_OnceMore == task = "done" \/ asks > Attempts
DrainIsOver == task = "done" \/ asks >= Attempts
DrainTurn(t) ==
  /\ trigger' = t
  /\ interrupted' = FALSE
  /\ IF DrainIsOver
       THEN LeavesDrain(t)
       ELSE /\ watchdog' = "draining"
            /\ asks' = asks + 1
            /\ asked' = TRUE
            /\ UNCHANGED <<seenOff, answer>>
  /\ UNCHANGED <<task, result, inTime, expired, calledOff>>

Overdue == expired /\ task # "done"

DeadlineFires ==
  /\ watchdog = "waiting"
  /\ ~ interrupted
  /\ Overdue
  /\ DrainTurn("deadline")

IsCancelled ==
  /\ watchdog = "waiting"
  /\ interrupted
  /\ DrainTurn("external_cancel")

(* The task is done, or a slice of the grace period is over.               *)
(* Mutation used by the runs: the task is waited for without a limit.       *)
SliceEnds_WhenDone ==
  /\ watchdog = "draining"
  /\ ~ interrupted
  /\ task = "done"
  /\ DrainTurn(trigger)
SliceEnds ==
  /\ watchdog = "draining"
  /\ ~ interrupted
  /\ DrainTurn(trigger)

(* A cancellation that arrives in the drain ends it.                       *)
DrainIsCancelled ==
  /\ watchdog = "draining"
  /\ interrupted
  /\ interrupted' = FALSE
  /\ LeavesDrain(trigger)
  /\ UNCHANGED <<trigger, task, result, inTime, expired, calledOff>>

WatchdogStep ==
  \/ EntersTooLate \/ StartsTask \/ ReturnsResult \/ DeadlineFires \/ IsCancelled
  \/ SliceEnds \/ DrainIsCancelled

Next == WatchdogStep \/ TaskStep \/ TimePasses \/ ExternalCancel

Spec == Init /\ [][Next]_vars

(* The clock runs and the event loop resumes the watchdog.  The task owes   *)
(* nothing: it may hang, and swallow whatever it is sent.                   *)
FairSpec == Spec /\ WF_vars(WatchdogStep) /\ WF_vars(TimePasses)

-----------------------------------------------------------------------------

(* Every variable has its type.                                            *)
TypeOK ==
  /\ watchdog \in {"entering", "waiting", "draining", "returned"}
  /\ trigger \in {None, "deadline", "external_cancel"}
  /\ asks \in 0 .. Attempts
  /\ expired \in BOOLEAN /\ interrupted \in BOOLEAN /\ calledOff \in BOOLEAN
  /\ task \in {"absent", "running", "done"}
  /\ result \in Results \cup {None}
  /\ inTime \in BOOLEAN /\ asked \in BOOLEAN
  /\ seenOff \in {None, "awaited", "callback"}
  /\ answer \in Answers \cup {None}

(* No task is left unwatched: when the watchdog returns, the task has ended *)
(* and been looked at, or it has been told to stop as often as allowed, or  *)
(* the drain was cut short, and its end will be looked at.                 *)
TaskIsSeenOff ==
  watchdog = "returned" /\ task # "absent" =>
    \/ task = "done" /\ seenOff # None
    \/ task = "running" /\ seenOff = "callback" /\ (asks = Attempts \/ calledOff)

(* A phase that ended in time is not reported as late, even if the watchdog *)
(* is resumed after the deadline.                                          *)
WorkInTimeCounts == answer = "timeout" => ~ inTime

(* A cancellation of the request reaches its caller, unless the deadline    *)
(* had passed first and the task was being drained for it.                 *)
CancellationIsKept ==
  watchdog = "returned" /\ calledOff => answer = "cancelled" \/ trigger = "deadline"

(* The inductive invariant.                                                *)
IInv ==
  /\ TypeOK
  /\ watchdog = "entering" <=> task = "absent" /\ answer = None
  /\ watchdog = "returned" <=> answer # None
  /\ task = "done" <=> result # None
  /\ watchdog \in {"entering", "waiting"} => trigger = None /\ asks = 0
  /\ trigger = "deadline" \/ answer = "timeout" => expired
  /\ watchdog = "draining" => trigger # None
  /\ trigger = "external_cancel" \/ interrupted => calledOff
  /\ watchdog = "draining" /\ trigger = "deadline" => ~ inTime
  /\ inTime => task = "done"
  /\ watchdog = "entering" => ~ calledOff
  /\ watchdog = "waiting" /\ calledOff => interrupted
  /\ TaskIsSeenOff
  /\ WorkInTimeCounts
  /\ CancellationIsKept

(* Once the deadline has passed or the request is cancelled, the watchdog   *)
(* returns, whatever the task does.                                        *)
WatchdogReturns == (expired \/ calledOff) ~> watchdog = "returned"

(* The caller of a phase gets its result, or a reason why not.              *)
Contract == INSTANCE BoundedCall WITH gone <- FALSE
MeetsContract == Contract!CallSpec

-----------------------------------------------------------------------------
(* What the repository says and the code does not do.                      *)

(* workflow.py: after an external cancellation that arrives mid-drain "the  *)
(* caller re-raises".                                                      *)
CancellationIsRaisedAgain ==
  watchdog = "returned" /\ calledOff => answer = "cancelled"
=============================================================================
