------------------------------ MODULE TrialRun ------------------------------
(***************************************************************************)
(* One invocation of scripts/run_test_sets.py: the preflight decides which *)
(* data sets can run, every runnable case is tried "trials" times with at  *)
(* most "concurrency" trials at once, each trial leaves an artifact on     *)
(* disk, and a run all of whose trials returned leaves a summary.  A       *)
(* "ttp-only" run may be held against a frozen baseline, and may become    *)
(* one.                                                                    *)
(*                                                                         *)
(* All trials are tasks of one event loop.  After its last await a trial   *)
(* scores itself, writes its files and returns in one step; a cancelled    *)
(* one takes no further step of its own.  What a generation does inside a  *)
(* trial is Workflow; here it ends in one of the ways a caller can see.    *)
(***************************************************************************)
EXTENDS Integers, FiniteSets, FiniteSetsExt

CONSTANTS
  NumCases,       \* bound: data sets of the registry
  MaxTrials,      \* bound: --trials (10 in the code)
  MaxConcurrency, \* bound: --concurrency (4 in the code)
  Nothing,        \* no value
  Unusable        \* a baseline file that is missing or malformed

ASSUME TrialAssumption ==
  /\ {NumCases, MaxTrials, MaxConcurrency} \subseteq Nat \ {0}
  /\ Nothing \notin Nat
  /\ Nothing \notin [status : {"regressed", "passed", "recorded"}, passes : Nat,
                    trials : SUBSET (Nat \X Nat)]

Cases == 1 .. NumCases
GeneratedModes == {"schema-only", "end-to-end"}
AllTrials == Cases \X (1 .. MaxTrials)

\* The options the parser lets through.
Commands ==
  { [mode |-> "preflight", trials |-> 1, concurrency |-> 1,
     compare |-> FALSE, write |-> FALSE, tolerance |-> 0] } \union
  [mode : {"baseline", "ttp-only"} \union GeneratedModes,
   trials : 1 .. MaxTrials, concurrency : 1 .. MaxConcurrency,
   compare : BOOLEAN, write : BOOLEAN, tolerance : {0, 1}]

\* What the preflight says of a data set: a complete one whose reference
\* reproduces its records, a template that parses its inputs, one that lacks
\* files or a default input, or one that is wrong.
Reports == {"complete", "template", "pending", "failed"}

VARIABLES
  command,   \* args
  reports,   \* report of every selected data set
  stage,     \* the tasks of the trials
  document,  \* what a trial that returned says of itself
  free,      \* the semaphore's value
  main,      \* where the runner itself is
  artifacts, \* trial-NN.json files in the run directory
  summary,   \* summary.json
  baseline,  \* the baseline file; Nothing until it is looked at
  flushed,   \* the telemetry was flushed
  exit,      \* exit status
  \* for the properties
  frozen,    \* trials that froze a schema
  given      \* the baseline the run was started with

trialVars == <<stage, document, free, artifacts, frozen>>
endVars == <<summary, baseline, flushed, exit, given>>
vars == <<command, reports, trialVars, main, endVars>>

Runnable == {c \in Cases : reports[c] = "complete"}
Trials == Runnable \X (1 .. command.trials)
Before(t, u) == t[1] < u[1] \/ (t[1] = u[1] /\ t[2] < u[2])
In(s) == {t \in Trials : stage[t] = s}
Settled == Trials = In("returned") \union In("raised") \union In("cancelled")

\* What a trial reports.  One whose generation raises is scored as one that
\* produced nothing; "accepted" is the strict pass of a ttp-only trial and the
\* independent acceptance of an end-to-end one.
TtpDocuments == [accepted : BOOLEAN, success : BOOLEAN, schema : {FALSE}]
AnyDocument == [accepted : BOOLEAN, success : BOOLEAN, schema : BOOLEAN]

\* A proposal, or a failure, or an exception after the schema was frozen.
ProposalDocuments(froze) ==
  {d \in AnyDocument : /\ ~ d.accepted
                       /\ d.schema = d.success
                       /\ d.success => froze}

\* The schema is the artifact's, or the one the tracer saw frozen when the
\* generation ended without an artifact; and the tracer's again when the
\* generation raised.
EndToEndDocuments(froze) ==
  LET fromResult(e) == e # "raised" /\ froze
      afterwards(e) == ~ fromResult(e) /\ froze
  IN  {d \in AnyDocument : \E e \in {"success", "failed", "raised"} :
         /\ e = "success" => froze
         /\ d.success = (e = "success")
         /\ d.accepted => d.success
         /\ d.schema = (fromResult(e) \/ afterwards(e))}

Documents(froze) ==
  CASE command.mode = "ttp-only" -> {d \in TtpDocuments : d.accepted => d.success}
    [] command.mode = "schema-only" -> ProposalDocuments(froze)
    [] OTHER -> EndToEndDocuments(froze)

Init ==
  /\ command \in Commands
  /\ reports \in [Cases -> Reports]
  /\ stage = [t \in AllTrials |-> "absent"]
  /\ document = [t \in AllTrials |-> Nothing]
  /\ free = command.concurrency
  /\ main = "start"
  /\ artifacts = {} /\ frozen = {}
  /\ summary = Nothing /\ baseline = Nothing /\ given = Nothing
  /\ flushed = FALSE
  /\ exit = Nothing

-----------------------------------------------------------------------------
\* The runner before its trials.

Leave(code) ==
  /\ exit' = code
  /\ flushed' = (command.mode \notin {"preflight", "baseline"})
  /\ main' = "done"

AnyFailed == \E c \in Cases : reports[c] = "failed"

\* The options of the TTP baseline mean nothing to a mode that makes schemas.
BaselineOptionsRefused ==
  /\ main = "start"
  /\ command.mode \in GeneratedModes
  /\ command.compare \/ command.write \/ command.tolerance > 0
  /\ Leave(2)
  /\ UNCHANGED <<command, reports, trialVars, summary, baseline, given>>

Admitted ==
  /\ main = "start"
  /\ ~ (command.mode \in GeneratedModes
        /\ (command.compare \/ command.write \/ command.tolerance > 0))

\* preflight and baseline report on the data sets and stop.
ReportsOnly ==
  /\ Admitted
  /\ command.mode \in {"preflight", "baseline"}
  /\ summary' = IF command.mode = "baseline" /\ AnyFailed THEN Nothing
                ELSE [status |-> IF AnyFailed THEN "failed" ELSE "success",
                      passes |-> 0, trials |-> {}]
  /\ Leave(IF AnyFailed THEN 2 ELSE 0)
  /\ UNCHANGED <<command, reports, trialVars, baseline, given>>

PreflightFailed ==
  /\ Admitted
  /\ command.mode \notin {"preflight", "baseline"}
  /\ AnyFailed
  /\ Leave(2)
  /\ UNCHANGED <<command, reports, trialVars, summary, baseline, given>>

\* No case can run: a ttp-only run says so and succeeds.
NothingRunnable ==
  /\ Admitted
  /\ command.mode = "ttp-only" /\ ~ AnyFailed /\ Runnable = {}
  /\ summary' = [status |-> "success", passes |-> 0, trials |-> {}]
  /\ Leave(0)
  /\ UNCHANGED <<command, reports, trialVars, baseline, given>>

\* The settings are read only when there is something to run; a directory
\* that cannot be made is not caught.
ConfigurationFails ==
  /\ Admitted
  /\ command.mode \in GeneratedModes \union {"ttp-only"} /\ ~ AnyFailed
  /\ command.mode = "ttp-only" => Runnable # {}
  /\ \E code \in {1, 2} : Leave(code)
  /\ UNCHANGED <<command, reports, trialVars, summary, baseline, given>>

TrialsCreated ==
  /\ Admitted
  /\ command.mode \in GeneratedModes \union {"ttp-only"} /\ ~ AnyFailed
  /\ command.mode = "ttp-only" => Runnable # {}
  /\ stage' = [t \in AllTrials |-> IF t \in Trials THEN "waiting" ELSE "absent"]
  /\ main' = "gathering"
  /\ UNCHANGED <<command, reports, document, free, artifacts, frozen, endVars>>

-----------------------------------------------------------------------------
\* The trials.

\* A trial is let in when a place is free; places go in the order the trials
\* were made.
TrialStarts(t) ==
  /\ main = "gathering"
  /\ stage[t] = "waiting" /\ free > 0
  /\ \A u \in In("waiting") : ~ Before(u, t)
  /\ stage' = [stage EXCEPT ![t] = "running"]
  /\ free' = free - 1
  /\ UNCHANGED <<command, reports, document, artifacts, frozen, main, endVars>>

\* A schema is frozen long before an end-to-end trial ends.
SchemaFrozen(t) ==
  /\ main = "gathering"
  /\ stage[t] = "running" /\ t \notin frozen
  /\ command.mode \in GeneratedModes
  /\ frozen' = frozen \union {t}
  /\ UNCHANGED <<command, reports, stage, document, free, artifacts, main, endVars>>

(* Mutation used by the runs: a failed generation keeps its slot.          *)
TrialReturns_SlotLost(t) ==
  /\ main = "gathering"
  /\ stage[t] = "running"
  /\ \E d \in Documents(t \in frozen) :
       /\ document' = [document EXCEPT ![t] = d]
       /\ free' = IF d.success THEN free + 1 ELSE free
  /\ stage' = [stage EXCEPT ![t] = "returned"]
  /\ artifacts' = artifacts \union {t}
  /\ UNCHANGED <<command, reports, frozen, main, endVars>>

\* The generation ends, well or not, and the trial writes its artifact.
TrialReturns(t) ==
  /\ main = "gathering"
  /\ stage[t] = "running"
  /\ \E d \in Documents(t \in frozen) : document' = [document EXCEPT ![t] = d]
  /\ stage' = [stage EXCEPT ![t] = "returned"]
  /\ artifacts' = artifacts \union {t}
  /\ free' = free + 1
  /\ UNCHANGED <<command, reports, frozen, main, endVars>>

\* A file cannot be written: the trial's, or its round trace after it.
TrialRaises(t) ==
  /\ main = "gathering"
  /\ stage[t] = "running"
  /\ stage' = [stage EXCEPT ![t] = "raised"]
  /\ \E written \in {{}, {t}} : artifacts' = artifacts \union written
  /\ free' = free + 1
  /\ UNCHANGED <<command, reports, document, frozen, main, endVars>>

(* Mutation used by the runs: a waiting trial that is cancelled gives back a slot. *)
TrialCancelled_Freed(t) ==
  /\ main \in {"failing", "interrupted"}
  /\ stage[t] \in {"waiting", "running"}
  /\ stage' = [stage EXCEPT ![t] = "cancelled"]
  /\ free' = free + 1
  /\ UNCHANGED <<command, reports, document, artifacts, frozen, main, endVars>>

\* A trial that was cancelled ends when its generation has been cleaned up.
TrialCancelled(t) ==
  /\ main \in {"failing", "interrupted"}
  /\ stage[t] \in {"waiting", "running"}
  /\ stage' = [stage EXCEPT ![t] = "cancelled"]
  /\ free' = IF stage[t] = "running" THEN free + 1 ELSE free
  /\ UNCHANGED <<command, reports, document, artifacts, frozen, main, endVars>>

-----------------------------------------------------------------------------
\* The end of a run.

\* The first exception of a trial ends the gathering; every other trial is
\* cancelled and awaited, by _run_schema itself or by the event loop's end.
GatherFails ==
  /\ main = "gathering"
  /\ In("raised") # {}
  /\ main' = "failing"
  /\ UNCHANGED <<command, reports, trialVars, endVars>>

\* Ctrl-C cancels the runner, and the runner its trials.
Interrupted ==
  /\ main = "gathering"
  /\ main' = "interrupted"
  /\ UNCHANGED <<command, reports, trialVars, endVars>>

RunAbandoned ==
  /\ main \in {"failing", "interrupted"}
  /\ Settled
  /\ Leave(IF main = "failing" THEN 1 ELSE 130)
  /\ UNCHANGED <<command, reports, trialVars, summary, baseline, given>>

Gathered == main = "gathering" /\ Trials = In("returned")

Passes(c) == Quantify({t \in Trials : t[1] = c}, LAMBDA t : document[t].accepted)
CasePassCounts == [c \in Runnable |-> [passes |-> Passes(c), trials |-> command.trials]]

\* A baseline names some cases, this registry's or not, each with its counts.
Counts == UNION {[passes : 0 .. n, trials : {n}] : n \in 1 .. MaxTrials}
BaselineContents ==
  {Unusable} \union UNION {[named -> Counts] : named \in SUBSET Cases}

(* Mutation used by the runs: passes are compared, whatever the number of trials. *)
Drop_Counts(before, after) == (before.passes - after.passes) * before.trials
\* (after / trials) - (before / beforeTrials), in trials of the present run, is
\* compared as a quotient of integers.  The code's is in binary64: exact but for
\* a drop of precisely the tolerance, which rounding may push over it unless
\* both counts are powers of two.
Drop(before, after) == before.passes * after.trials - after.passes * before.trials
ExactlyHalved(n) == n \in {1, 2, 4, 8}
Regresses(before, after) ==
  IF /\ Drop(before, after) = command.tolerance * before.trials
     /\ command.tolerance > 0
     /\ ~ (ExactlyHalved(before.trials) /\ ExactlyHalved(after.trials))
    THEN BOOLEAN
    ELSE {Drop(before, after) > command.tolerance * before.trials}

\* A case only one side knows is listed, and decides nothing.
Verdicts(base, counts) ==
  LET both == DOMAIN base \intersect DOMAIN counts
      may(b) == \E c \in both : b \in Regresses(base[c], counts[c])
  IN  {v \in {"regressed", "passed"} :
         IF v = "regressed" THEN may(TRUE)
         ELSE \A c \in both : FALSE \in Regresses(base[c], counts[c])}

Successes == Quantify(Trials, LAMBDA t :
               IF command.mode = "ttp-only" THEN document[t].accepted ELSE document[t].success)
Summary(status) ==
  [status |-> status, passes |-> Successes, trials |-> Trials]

\* The baseline named on the command line is read only now, with every trial
\* behind it: one that is missing or malformed ends the run without a summary.
BaselineUnusable ==
  /\ Gathered
  /\ command.mode = "ttp-only" /\ command.compare
  /\ baseline = Nothing
  /\ baseline' = Unusable /\ given' = Unusable
  /\ Leave(2)
  /\ UNCHANGED <<command, reports, trialVars, summary>>

(* Mutation used by the runs: the new baseline is written before the summary. *)
Judged_BaselineFirst ==
  /\ Gathered
  /\ command.mode = "ttp-only" /\ command.compare
  /\ \E base \in BaselineContents \ {Unusable} :
       /\ given' = base
       /\ baseline' = IF command.write THEN CasePassCounts ELSE base
       /\ \E v \in Verdicts(base, CasePassCounts) : summary' = Summary(v)
  /\ main' = "summarised"
  /\ UNCHANGED <<command, reports, trialVars, flushed, exit>>

Judged ==
  /\ Gathered
  /\ command.mode = "ttp-only" /\ command.compare
  /\ \E base \in BaselineContents \ {Unusable} :
       /\ given' = base
       /\ baseline' = base
       /\ \E v \in Verdicts(base, CasePassCounts) : summary' = Summary(v)
  /\ main' = "summarised"
  /\ UNCHANGED <<command, reports, trialVars, flushed, exit>>

Recorded ==
  /\ Gathered
  /\ command.mode = "ttp-only" => ~ command.compare
  /\ summary' = Summary("recorded")
  /\ main' = "summarised"
  /\ UNCHANGED <<command, reports, trialVars, baseline, given, flushed, exit>>

\* summary.json itself cannot be written, or the new baseline cannot: the old
\* one may be gone by then.
EndNotWritten ==
  /\ \/ Gathered /\ UNCHANGED baseline
     \/ /\ main = "summarised" /\ command.mode = "ttp-only" /\ command.write
        /\ baseline' \in {baseline, Unusable}
  /\ Leave(1)
  /\ UNCHANGED <<command, reports, trialVars, summary, given>>

\* The run becomes the new baseline, regressed or not; the same path may have
\* been read a moment ago.  A Ctrl-C that comes while the runner writes cancels
\* it after its last statement.
Finished ==
  /\ main = "summarised"
  /\ baseline' = IF command.mode = "ttp-only" /\ command.write
                   THEN CasePassCounts ELSE baseline
  /\ \E code \in {130, IF summary.status = "regressed" THEN 1 ELSE 0} : Leave(code)
  /\ UNCHANGED <<command, reports, trialVars, summary, given>>

-----------------------------------------------------------------------------
TrialStep(t) == TrialStarts(t) \/ TrialReturns(t) \/ TrialRaises(t) \/ TrialCancelled(t)

Runner ==
  \/ BaselineOptionsRefused \/ ReportsOnly \/ PreflightFailed \/ NothingRunnable
  \/ ConfigurationFails \/ TrialsCreated
  \/ GatherFails \/ RunAbandoned
  \/ BaselineUnusable \/ Judged \/ Recorded \/ EndNotWritten \/ Finished

Next ==
  \/ Runner
  \/ Interrupted
  \/ \E t \in Trials : TrialStep(t) \/ SchemaFrozen(t)

Spec == Init /\ [][Next]_vars

\* The event loop runs whatever is ready, and a generation ends: each of its
\* phases has a deadline (PhaseDeadline), and so has each of its parsings.
FairSpec ==
  /\ Spec
  /\ WF_vars(Runner)
  /\ \A t \in AllTrials : WF_vars(t \in Trials /\ TrialStep(t))

-----------------------------------------------------------------------------
TypeOK ==
  /\ command \in Commands
  /\ reports \in [Cases -> Reports]
  /\ stage \in [AllTrials ->
       {"absent", "waiting", "running", "returned", "raised", "cancelled"}]
  /\ document \in [AllTrials -> AnyDocument \union {Nothing}]
  /\ free \in 0 .. MaxConcurrency
  /\ main \in {"start", "gathering", "failing", "interrupted", "summarised", "done"}
  /\ artifacts \subseteq AllTrials /\ frozen \subseteq AllTrials
  /\ flushed \in BOOLEAN
  /\ exit \in {Nothing, 0, 1, 2, 130}

\* The slots of the semaphore are neither lost nor made: whichever way trials end,
\* as many as are not running are free (async with semaphore, _run_ttp and
\* _execute_schema_trial).
SlotsAreKept == free + Cardinality(In("running")) = command.concurrency

\* A summary of trials speaks of all of them: each returned, its artifact is on
\* disk, and the counts are those of the artifacts.  A run cut short has none.
SummaryCoversEveryTrial ==
  (summary # Nothing /\ command.mode \in GeneratedModes \union {"ttp-only"}) =>
     /\ summary.trials = Trials
     /\ Trials \subseteq artifacts
     /\ summary.passes =
          Cardinality({t \in Trials :
            IF command.mode = "ttp-only" THEN document[t].accepted ELSE document[t].success})

\* When the process ends none of its trials is still at work, and what it
\* traced has been sent on.
NothingRunsAfterExit ==
  exit # Nothing =>
    /\ In("running") \union In("waiting") = {}
    /\ command.mode \in GeneratedModes \union {"ttp-only"} => flushed

\* A schema that was frozen is measured, even when the trial failed or raised
\* afterwards ("A frozen contract remains evaluable even if the later TTP path
\* raises").
FrozenSchemasAreMeasured ==
  command.mode = "end-to-end" =>
    \A t \in In("returned") : document[t].schema <=> t \in frozen

\* A run that ends quietly and held a case against the baseline did not lose
\* more of its trials than tolerated; a run reported as regressed did lose some,
\* and at least as many as tolerated.  The baseline is the one it was given, even
\* if the run then takes its place.
Lost(c) == given[c].passes * command.trials - Passes(c) * given[c].trials
Held == DOMAIN given \intersect Runnable
VerdictIsAboutTheGivenBaseline ==
  (exit # Nothing /\ summary # Nothing /\ given # Nothing) =>
    /\ exit = 0 => \A c \in Held : Lost(c) <= command.tolerance * given[c].trials
    /\ summary.status = "regressed" =>
         \E c \in Held : Lost(c) > 0 /\ Lost(c) >= command.tolerance * given[c].trials

\* A baseline file is only ever replaced by the counts of a run whose every
\* trial has returned and whose summary is written, unless the write fails, and
\* then the run does not end quietly.
BaselineIsAFinishedRun ==
  [][ (baseline' # baseline /\ baseline' # given')
        => /\ Trials = In("returned")
           /\ summary # Nothing
           /\ \/ baseline' = CasePassCounts
              \/ exit' = 1 ]_vars

\* Every invocation ends, and so every trial is given its turn.
EveryInvocationEnds == <>(exit # Nothing)

\* The invariant the proofs rest on: which trials there are and what the files hold,
\* by where the runner is; and a verdict, from the moment it is reached.
PlaceInv ==
  /\ \A t \in AllTrials \ Trials : stage[t] = "absent"
  /\ main = "start" => \A t \in AllTrials : stage[t] = "absent"
  /\ main \in {"gathering", "failing", "interrupted", "summarised"} =>
       \A t \in Trials : stage[t] # "absent"
  /\ main = "summarised" => Trials = In("returned") /\ summary # Nothing
  /\ main \in {"start", "gathering", "failing", "interrupted"} =>
       summary = Nothing /\ given = Nothing
  /\ exit # Nothing => main = "done"
  /\ In("returned") \subseteq artifacts
JudgedInv ==
  (summary # Nothing /\ given # Nothing) =>
    /\ summary.status # "regressed" =>
         \A c \in Held : Lost(c) <= command.tolerance * given[c].trials
    /\ summary.status = "regressed" =>
         \E c \in Held : Lost(c) > 0 /\ Lost(c) >= command.tolerance * given[c].trials
    /\ exit = 0 => summary.status # "regressed"
IInv ==
  /\ TypeOK /\ PlaceInv /\ JudgedInv /\ SlotsAreKept /\ NothingRunsAfterExit
  /\ SummaryCoversEveryTrial /\ FrozenSchemasAreMeasured
=============================================================================
