--------------------------- MODULE IsolatedParse ---------------------------
(***************************************************************************)
(* One isolated TTP parse (validation/ttp.py): the worker process that     *)
(* parses and reports its verdict over a pipe, the thread that polls the   *)
(* pipe, asks whether the process is alive and watches the deadline, and   *)
(* the way it gets rid of the process.                                     *)
(*                                                                         *)
(* The two sides run concurrently; a step of either is what it does        *)
(* between two points where the other or the clock can be observed.        *)
(***************************************************************************)
EXTENDS Naturals

VARIABLES
  caller,   \* where the calling thread is
  status,   \* what it will report
  expired,  \* time.monotonic() is past the deadline
  worker,   \* the life of the process
  verdict,  \* what the worker is to send
  pipe,     \* what of it is in the pipe
  signal    \* the strongest signal sent to the process

vars == <<caller, status, expired, worker, verdict, pipe, signal>>

None == "none"

(* What a worker sends: it makes a verdict of every exception.  A test of a *)
(* template knows fewer shapes than a submission; the caller passes on all. *)
Shapes == {"invalid_shape", "invalid_mapping", "invalid_record"}
Verdicts == Shapes \cup {"ok", "result_too_large", "worker_error"}
(* "lost" is ttp.worker_bootstrap_failed, or a worker that could not be    *)
(* started; "broken" is an OSError out of recv().                          *)
Statuses == Verdicts \cup {"timeout", "lost", "broken"}

Callers == {"entering", "checking", "polling", "receiving", "asking", "unable", "joining",
            "stopping", "terminating", "killing", "answered"}
Workers == {"absent", "starting", "parsing", "sending", "sent", "closed", "exited"}

Running == worker \notin {"absent", "exited"}
WriteEndClosed == worker \in {"closed", "exited"}
(* receive.close() comes first when the caller has made up its mind.       *)
ReadEndClosed == caller \in {"unable", "joining", "stopping", "terminating", "killing", "answered"}

Init ==
  /\ caller = "entering"
  /\ status = None
  /\ expired \in BOOLEAN
  /\ worker = "absent"
  /\ verdict = None
  /\ pipe = "empty"
  /\ signal = None

-----------------------------------------------------------------------------
(* The worker.                                                             *)

WorkerBoots ==
  /\ worker = "starting"
  /\ worker' = "parsing"
  /\ UNCHANGED <<caller, status, expired, verdict, pipe, signal>>

WorkerSends(v) ==
  /\ worker = "parsing"
  /\ ~ ReadEndClosed
  /\ worker' = "sending"
  /\ verdict' = v
  /\ pipe' = "part"
  /\ UNCHANGED <<caller, status, expired, signal>>

WorkerHasSent ==
  /\ worker = "sending"
  /\ ~ ReadEndClosed
  /\ worker' = "sent"
  /\ pipe' = "whole"
  /\ UNCHANGED <<caller, status, expired, verdict, signal>>

(* connection.close(), reached too when nothing can be sent: the verdict    *)
(* does not fit into memory, or nobody reads any more.                     *)
WorkerCloses ==
  /\ worker \in {"parsing", "sent"} \/ (worker = "sending" /\ ReadEndClosed)
  /\ worker' = "closed"
  /\ UNCHANGED <<caller, status, expired, verdict, pipe, signal>>

WorkerExits ==
  /\ worker = "closed"
  /\ worker' = "exited"
  /\ UNCHANGED <<caller, status, expired, verdict, pipe, signal>>

(* It crashes, is killed from outside, or obeys a signal.                   *)
WorkerDies ==
  /\ Running
  /\ worker' = "exited"
  /\ UNCHANGED <<caller, status, expired, verdict, pipe, signal>>

WorkerObeys == signal # None /\ WorkerDies

TimePasses ==
  /\ caller # "entering"
  /\ ~ expired
  /\ expired' = TRUE
  /\ UNCHANGED <<caller, status, worker, verdict, pipe, signal>>

-----------------------------------------------------------------------------
(* The caller.                                                             *)

(* What becomes of the process once the caller knows what to report.        *)
(* Mutation used by the runs: a worker that has reported is left alone.     *)
Disposal_TrustsReports(s) == IF s \in {"timeout", "lost"} THEN "stopping" ELSE "answered"
Disposal(s) == IF s \in {"timeout", "lost"} THEN "stopping" ELSE "joining"

Decides(s) ==
  /\ status' = s
  /\ caller' = Disposal(s)
  /\ UNCHANGED <<expired, worker, verdict, pipe, signal>>

Answers(s) ==
  /\ status' = s
  /\ caller' = "answered"
  /\ UNCHANGED <<expired, worker, verdict, pipe, signal>>

GoesTo(c) ==
  /\ caller' = c
  /\ UNCHANGED <<status, expired, worker, verdict, pipe, signal>>

EntersTooLate == caller = "entering" /\ expired /\ Answers("timeout")

(* The host cannot be imported again, or the process does not start.       *)
CannotStart ==
  /\ caller = "entering"
  /\ ~ expired
  /\ worker' = "exited"
  /\ status' = "lost"
  /\ caller' = "unable"
  /\ UNCHANGED <<expired, verdict, pipe, signal>>

Starts ==
  /\ caller = "entering"
  /\ ~ expired
  /\ worker' = "starting"
  /\ caller' = "checking"
  /\ UNCHANGED <<status, expired, verdict, pipe, signal>>

(* Mutation used by the runs: a worker that is still alive is waited for.   *)
TimeIsUp_WhenSilent == expired /\ ~ Running
TimeIsUp == expired

ChecksTime ==
  /\ caller = "checking"
  /\ IF TimeIsUp THEN Decides("timeout") ELSE GoesTo("polling")

(* A pipe is readable when something is in it or its write end is closed.  *)
Readable == pipe # "empty" \/ WriteEndClosed
Polls ==
  /\ caller = "polling"
  /\ GoesTo(IF Readable THEN "receiving" ELSE "asking")

(* A verdict that comes after the deadline is not used.                     *)
Received(s) == IF expired THEN "timeout" ELSE s

(* recv() waits for a whole message or the end of the pipe, which is an     *)
(* error only inside the message: between its header and its body it is    *)
(* the end like any other.                                                 *)
Receives ==
  /\ caller = "receiving"
  /\ \/ pipe = "whole" /\ Decides(Received(verdict))
     \/ pipe = "empty" /\ WriteEndClosed /\ Decides(Received("lost"))
     \/ pipe = "part" /\ WriteEndClosed /\ Decides(Received("lost"))
     \/ pipe = "part" /\ WriteEndClosed /\ Decides("broken")

(* Mutation used by the runs: one silent poll is enough to give up.         *)
AsksAlive_Impatient == caller = "asking" /\ Decides("lost")
AsksAlive ==
  /\ caller = "asking"
  /\ IF Running THEN GoesTo("checking") ELSE Decides("lost")

(* Each join() waits for the exit or a tenth of a second.                  *)
Joins == caller = "joining" /\ GoesTo("stopping")

Stops ==
  /\ caller = "stopping"
  /\ IF Running
       THEN /\ signal' = "term"
            /\ caller' = "terminating"
            /\ UNCHANGED <<status, expired, worker, verdict, pipe>>
       ELSE GoesTo("answered")

Kills ==
  /\ caller = "terminating"
  /\ IF Running
       THEN /\ signal' = "kill"
            /\ caller' = "killing"
            /\ UNCHANGED <<status, expired, worker, verdict, pipe>>
       ELSE GoesTo("answered")

Leaves == caller \in {"unable", "killing"} /\ GoesTo("answered")

-----------------------------------------------------------------------------

WorkerStep ==
  \/ WorkerBoots \/ (\E v \in Verdicts : WorkerSends(v)) \/ WorkerHasSent
  \/ WorkerCloses \/ WorkerExits \/ WorkerDies

CallerStep ==
  \/ EntersTooLate \/ CannotStart \/ Starts \/ ChecksTime \/ Polls \/ Receives
  \/ AsksAlive \/ Joins \/ Stops \/ Kills \/ Leaves

Next == WorkerStep \/ CallerStep \/ TimePasses

Spec == Init /\ [][Next]_vars

(* The thread is scheduled, a message begun is sent or its sender dies,     *)
(* the clock runs, and a killed process ends.  Nothing else is asked of    *)
(* the worker: it may boot, parse or linger for ever.                      *)
FairSpec ==
  /\ Spec
  /\ WF_vars(CallerStep)
  /\ WF_vars(WorkerHasSent)
  /\ WF_vars(TimePasses)
  /\ WF_vars(signal = "kill" /\ WorkerDies)

-----------------------------------------------------------------------------

(* Every variable has its type.                                            *)
TypeOK ==
  /\ caller \in Callers
  /\ status \in Statuses \cup {None}
  /\ expired \in BOOLEAN
  /\ worker \in Workers
  /\ verdict \in Verdicts \cup {None}
  /\ pipe \in {"empty", "part", "whole"}
  /\ signal \in {None, "term", "kill"}

(* What is in the pipe, as far as the worker has got.                      *)
PipeFollowsWorker ==
  /\ worker \in {"absent", "starting", "parsing"} => pipe = "empty"
  /\ worker = "sending" => pipe = "part"
  /\ worker = "sent" => pipe = "whole"
  /\ worker = "closed" /\ ~ ReadEndClosed => pipe # "part"
  /\ pipe # "empty" => verdict \in Verdicts
  /\ caller = "entering" => worker = "absent"
  /\ worker = "absent" => caller \in {"entering", "answered"}

(* What the caller has made up its mind to report is so.  A verdict it      *)
(* leaves unread in the pipe is that of a process which has exited.        *)
StatusHasItsCause ==
  /\ ~ ReadEndClosed <=> status = None
  /\ status \in Verdicts => pipe = "whole" /\ status = verdict
  /\ status = "timeout" => expired
  /\ status = "lost" => WriteEndClosed
  /\ status = "lost" /\ pipe # "empty" => worker = "exited"
  /\ status = "broken" => pipe = "part" /\ WriteEndClosed

(* No process outlives its call: when the caller answers, whatever it       *)
(* reports, the worker has exited or has been killed (_stop_process).       *)
NoWorkerIsLeft == caller = "answered" /\ Running => signal = "kill"

(* The inductive invariant: the caller's report has its cause, and a        *)
(* process it is done with has been sent the signal of that step.          *)
IInv ==
  /\ TypeOK
  /\ PipeFollowsWorker
  /\ StatusHasItsCause
  /\ NoWorkerIsLeft
  /\ caller = "unable" => worker = "exited"
  /\ caller = "terminating" /\ Running => signal = "term"
  /\ caller = "killing" /\ Running => signal = "kill"

(* Once the deadline has passed the caller answers, whatever the worker     *)
(* does short of stopping in the middle of its message.                    *)
CallReturns == expired ~> caller = "answered"

(* The caller of a parse gets what the worker found, or a reason why not.   *)
Contract == INSTANCE BoundedCall WITH
  Results <- Verdicts,
  result <- IF pipe = "whole" THEN verdict ELSE None,
  calledOff <- FALSE,
  gone <- WriteEndClosed,
  answer <- IF caller = "answered" THEN status ELSE None
MeetsContract == Contract!CallSpec
=============================================================================
