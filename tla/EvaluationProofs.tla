-------------------------- MODULE EvaluationProofs --------------------------
(***************************************************************************)
(* What the evaluation harness rests on, for every input:                  *)
(*  - TrialRun: no slot is lost, nothing outlives the run, and what a      *)
(*    summary or a baseline says is about trials that have all returned;   *)
(*  - TrialTracer: what is scored of a trial is what its session froze, a   *)
(*    recovery is of one policy, activations are counted beyond the lists;  *)
(*  - DatasetPreflight: a scope passes what it has looked at, and a          *)
(*    selection is the intersection of its filters;                         *)
(*  - InputFit: what a phase's first message shows of the outputs;         *)
(*  - TrialVerdicts: what a trial passes by and is blamed on, and that a    *)
(*    run's numbers count every trial.                                      *)
(* All but the first compute with folds, sums and recursive functions; what *)
(* those are for one place more is proved first, by induction on numbers.   *)
(* So the four invariants of JudgedInputs are shown for inputs of any size. *)
(***************************************************************************)
EXTENDS TrialRun, JudgedInputs, FiniteSetTheorems,
        SequenceTheorems, WellFoundedInduction, TLAPS

(* The trials of a run are finitely many, so that those at work can be      *)
(* counted (AllTrials is a product of two intervals).                      *)
LEMMA TrialsAreFinite ==
  ASSUME TypeOK, NEW s
  PROVE  Trials \subseteq AllTrials /\ IsFiniteSet(Trials) /\ IsFiniteSet(In(s))
<1>1. Trials \subseteq AllTrials
  <2>1. command.trials \in 1 .. MaxTrials
    BY TrialAssumption DEF TypeOK, Commands
  <2>2. 1 .. command.trials \subseteq 1 .. MaxTrials
    BY <2>1, TrialAssumption
  <2> QED BY <2>2 DEF Trials, AllTrials, Runnable
<1>2. IsFiniteSet(Cases) /\ IsFiniteSet(1 .. MaxTrials)
  BY TrialAssumption, FS_Interval DEF Cases
<1>3. IsFiniteSet(AllTrials)
  BY <1>2, FS_Product DEF AllTrials
<1> QED BY <1>1, <1>3, FS_Subset DEF In

(* The concurrency a command asks for is a slot count.                      *)
LEMMA SlotCount ==
  ASSUME command \in Commands
  PROVE  command.concurrency \in Nat /\ command.concurrency <= MaxConcurrency
BY TrialAssumption DEF Commands

(* The runner's own steps before and after its trials touch neither slots   *)
(* nor tasks.                                                              *)
LEMMA NoTrialMoves ==
  ASSUME IInv, UNCHANGED <<command, reports, trialVars>>
  PROVE  /\ \A s : In(s)' = In(s)
         /\ Trials' = Trials /\ Runnable' = Runnable /\ Settled' = Settled
         /\ SlotsAreKept' /\ FrozenSchemasAreMeasured'
<1>1. Trials' = Trials /\ Runnable' = Runnable  BY DEF trialVars, Trials, Runnable
<1>2. \A s : In(s)' = In(s)  BY <1>1 DEF trialVars, In
<1>3. SlotsAreKept'  BY <1>2 DEF IInv, SlotsAreKept, trialVars
<1>4. FrozenSchemasAreMeasured'  BY <1>2 DEF IInv, FrozenSchemasAreMeasured, trialVars
<1> QED BY <1>1, <1>2, <1>3, <1>4 DEF Settled

(* A trial that gets a slot, and one that gives it back.                    *)
LEMMA SlotTaken ==
  ASSUME IInv, NEW t \in Trials, TrialStarts(t)
  PROVE  SlotsAreKept' /\ free' \in 0 .. MaxConcurrency
<1>1. Trials' = Trials  BY DEF TrialStarts, Trials, Runnable
<1>2. t \in AllTrials  BY TrialsAreFinite DEF IInv
<1>3. In("running")' = In("running") \union {t} /\ t \notin In("running")
  BY <1>1, <1>2 DEF TrialStarts, In, IInv, TypeOK
<1>4. Cardinality(In("running")') = Cardinality(In("running")) + 1
  BY <1>3, FS_AddElement, TrialsAreFinite DEF IInv
<1>5. Cardinality(In("running")) \in Nat  BY TrialsAreFinite, FS_CardinalityType DEF IInv
<1>6. free \in 0 .. MaxConcurrency /\ free > 0 /\ free' = free - 1
      /\ command' = command
  BY DEF TrialStarts, IInv, TypeOK
<1>7. free + Cardinality(In("running")) = command.concurrency
  BY DEF IInv, SlotsAreKept
<1> QED BY <1>4, <1>5, <1>6, <1>7, TrialAssumption DEF SlotsAreKept

LEMMA SlotGiven ==
  ASSUME IInv, NEW t \in Trials, stage[t] = "running", free' = free + 1,
         NEW s, s # "running", stage' = [stage EXCEPT ![t] = s],
         UNCHANGED <<command, reports>>
  PROVE  SlotsAreKept' /\ free' \in 0 .. MaxConcurrency
<1>1. Trials' = Trials  BY DEF Trials, Runnable
<1>2. t \in AllTrials  BY TrialsAreFinite DEF IInv
<1>3. In("running")' = In("running") \ {t} /\ t \in In("running")
  BY <1>1, <1>2 DEF In, IInv, TypeOK
<1>4. Cardinality(In("running")') = Cardinality(In("running")) - 1
      /\ IsFiniteSet(In("running")')
  BY <1>3, FS_RemoveElement, TrialsAreFinite DEF IInv
<1>5. Cardinality(In("running")) \in Nat /\ Cardinality(In("running")') \in Nat
  BY <1>4, TrialsAreFinite, FS_CardinalityType DEF IInv
<1>6. free \in 0 .. MaxConcurrency  BY DEF IInv, TypeOK
<1>7. free + Cardinality(In("running")) = command.concurrency
  BY DEF IInv, SlotsAreKept
<1> QED BY <1>4, <1>5, <1>6, <1>7, TrialAssumption, SlotCount DEF SlotsAreKept, IInv, TypeOK

(* A trial that moves changes the places of no other, and no file but its   *)
(* own; nothing is summarised while trials move.                           *)
LEMMA OneTrialMoves ==
  ASSUME IInv, NEW t \in Trials, stage[t] \in {"waiting", "running"},
         NEW s \in {"running", "returned", "raised", "cancelled"},
         stage' = [stage EXCEPT ![t] = s],
         main \in {"gathering", "failing", "interrupted"},
         UNCHANGED <<command, reports, main, endVars>>,
         artifacts \subseteq artifacts', s = "returned" => t \in artifacts'
  PROVE  PlaceInv' /\ NothingRunsAfterExit' /\ SummaryCoversEveryTrial' /\ JudgedInv'
<1>1. Trials' = Trials /\ t \in AllTrials
  BY TrialsAreFinite DEF Trials, Runnable, IInv
<1>2. \A u \in AllTrials : stage'[u] = IF u = t THEN s ELSE stage[u]
  BY <1>1 DEF IInv, TypeOK
<1>3. summary' = Nothing /\ given' = Nothing /\ ~ (exit' # Nothing)
  BY DEF IInv, PlaceInv, endVars
<1>4. In("returned")' \subseteq artifacts'
  BY <1>1, <1>2, TrialsAreFinite DEF In, IInv, PlaceInv
<1>5. PlaceInv'
  BY <1>1, <1>2, <1>3, <1>4, TrialsAreFinite DEF PlaceInv, IInv
<1> QED BY <1>3, <1>5 DEF NothingRunsAfterExit, SummaryCoversEveryTrial, JudgedInv

(* What a trial reports of its schema is whether one was frozen, by way of  *)
(* the result or of the tracer (_run_end_to_end_trial).                     *)
LEMMA DocumentsAreTyped ==
  ASSUME NEW t, NEW d \in Documents(t \in frozen)
  PROVE  /\ d \in AnyDocument
         /\ command.mode = "end-to-end" => (d.schema <=> t \in frozen)
<1>1. CASE command.mode = "ttp-only"  BY <1>1 DEF Documents, TtpDocuments, AnyDocument
<1>2. CASE command.mode = "schema-only"  BY <1>2 DEF Documents, ProposalDocuments, AnyDocument
<1>3. CASE command.mode \notin {"ttp-only", "schema-only"}
  <2>1. d \in EndToEndDocuments(t \in frozen)  BY <1>3 DEF Documents
  <2> QED BY <2>1 DEF EndToEndDocuments, AnyDocument
<1> QED BY <1>1, <1>2, <1>3

-----------------------------------------------------------------------------
(* The comparison of two cases in whole numbers: a case that may count as   *)
(* regressed lost at least the tolerance, one that may count as held lost   *)
(* no more (_compare_to_baseline, up to a tie the rounding decides).        *)
LEMMA RegressionIsALoss ==
  ASSUME TypeOK, NEW before \in Counts, NEW after \in [passes : Nat, trials : Nat]
  PROVE  /\ FALSE \in Regresses(before, after) =>
              Drop(before, after) <= command.tolerance * before.trials
         /\ TRUE \in Regresses(before, after) =>
              /\ Drop(before, after) > 0
              /\ Drop(before, after) >= command.tolerance * before.trials
<1> DEFINE drop == Drop(before, after)
           limit == command.tolerance * before.trials
<1>1. before.passes \in Nat /\ before.trials \in Nat \ {0}
  BY TrialAssumption DEF Counts
<1>2. command.tolerance \in {0, 1}  BY DEF TypeOK, Commands
<1>3. drop \in Int
  <2>1. before.passes * after.trials \in Int /\ after.passes * before.trials \in Int
    BY <1>1
  <2> QED BY <2>1 DEF Drop
<1>4. limit \in Nat /\ (command.tolerance > 0 => limit > 0)
  BY <1>1, <1>2
<1>5. Regresses(before, after) = IF drop = limit /\ command.tolerance > 0
        /\ ~ (ExactlyHalved(before.trials) /\ ExactlyHalved(after.trials))
        THEN BOOLEAN ELSE {drop > limit}
  BY DEF Regresses
<1> HIDE DEF drop, limit
<1>6. CASE drop = limit /\ command.tolerance > 0
  <2>1. drop > 0 /\ drop >= limit /\ drop <= limit  BY <1>3, <1>4, <1>6
  <2> QED BY <2>1, Zenon DEF drop, limit
<1>7. CASE ~ (drop = limit /\ command.tolerance > 0)
  <2>1. Regresses(before, after) = {drop > limit}  BY <1>5, <1>7
  <2>2. FALSE \in Regresses(before, after) => ~ (drop > limit)  BY <2>1
  <2>3. TRUE \in Regresses(before, after) => drop > limit  BY <2>1
  <2>4. ~ (drop > limit) => drop <= limit  BY <1>3, <1>4
  <2>5. drop > limit => drop > 0 /\ drop >= limit  BY <1>3, <1>4
  <2> QED BY <2>2, <2>3, <2>4, <2>5, Zenon DEF drop, limit
<1> QED BY <1>6, <1>7

(* A verdict stays right while nothing of what it is about changes.         *)
LEMMA VerdictStays ==
  ASSUME IInv, UNCHANGED <<command, reports, trialVars, summary, given>>,
         exit' = 0 => exit = 0 \/ summary.status # "regressed" \/ given = Nothing
  PROVE  JudgedInv'
<1>1. Runnable' = Runnable /\ Trials' = Trials  BY NoTrialMoves
<1>2. \A c : Passes(c)' = Passes(c)
  BY <1>1 DEF Passes, Quantify, trialVars
<1>3. Held' = Held  BY <1>1 DEF Held
<1>4. \A c : Lost(c)' = Lost(c)  BY <1>2 DEF Lost
<1> QED BY <1>3, <1>4 DEF IInv, JudgedInv

(* The verdict a finished run reaches over the baseline it was given: each  *)
(* case that both know was held to the tolerance.                           *)
LEMMA VerdictReached ==
  ASSUME IInv, Judged
  PROVE  JudgedInv'
<1>1. PICK base \in BaselineContents \ {Unusable} :
        /\ given' = base
        /\ \E v \in Verdicts(base, CasePassCounts) : summary' = Summary(v)
  BY DEF Judged
<1>2. PICK v \in Verdicts(base, CasePassCounts) : summary' = Summary(v)
  BY <1>1
<1>3. summary'.status = v  BY <1>2 DEF Summary
<1>4. UNCHANGED <<command, reports, trialVars>> /\ exit' # 0
  BY TrialAssumption DEF Judged, IInv, PlaceInv, Gathered
<1>5. \A c : Passes(c)' = Passes(c)
  BY <1>4, NoTrialMoves DEF Passes, Quantify, trialVars
<1>6. \A c : Passes(c) \in Nat
  BY TrialsAreFinite, FS_Subset, FS_CardinalityType DEF IInv, Passes, Quantify
<1>7. Held' = DOMAIN base \intersect DOMAIN CasePassCounts
  BY <1>1, <1>4, NoTrialMoves DEF Held, CasePassCounts
<1>8. ASSUME NEW c \in Held'
      PROVE  /\ base[c] \in Counts
             /\ CasePassCounts[c] \in [passes : Nat, trials : Nat]
             /\ Lost(c)' = Drop(base[c], CasePassCounts[c])
             /\ command' = command /\ given' = base
  <2>1. base[c] \in Counts
    <3>1. PICK named \in SUBSET Cases : base \in [named -> Counts]
      BY <1>1 DEF BaselineContents
    <3>2. c \in named  BY <1>7, <3>1
    <3> QED BY <3>1, <3>2
  <2>2. c \in Runnable  BY <1>7 DEF CasePassCounts
  <2>3. CasePassCounts[c] = [passes |-> Passes(c), trials |-> command.trials]
    BY <2>2 DEF CasePassCounts
  <2>4. command.trials \in Nat  BY TrialAssumption DEF IInv, TypeOK, Commands
  <2>5. Lost(c)' = base[c].passes * command.trials - Passes(c) * base[c].trials
    BY <1>1, <1>4, <1>5 DEF Lost
  <2> QED BY <1>1, <1>4, <1>6, <2>1, <2>3, <2>4, <2>5 DEF Drop
<1>9. CASE v = "regressed"
  <2>1. PICK c \in Held' : TRUE \in Regresses(base[c], CasePassCounts[c])
    BY <1>2, <1>7, <1>9 DEF Verdicts
  <2>2. Lost(c)' > 0 /\ Lost(c)' >= command.tolerance * base[c].trials
    BY <1>8, <2>1, RegressionIsALoss DEF IInv
  <2> QED BY <1>3, <1>4, <1>8, <1>9, <2>1, <2>2 DEF JudgedInv
<1>10. CASE v # "regressed"
  <2>1. \A c \in Held' : FALSE \in Regresses(base[c], CasePassCounts[c])
    BY <1>2, <1>7, <1>10 DEF Verdicts
  <2>2. \A c \in Held' : Lost(c)' <= command.tolerance * base[c].trials
    BY <1>8, <2>1, RegressionIsALoss DEF IInv
  <2> QED BY <1>1, <1>3, <1>4, <1>10, <2>2 DEF JudgedInv
<1> QED BY <1>9, <1>10

(* A step of a trial keeps the invariant, one lemma per way it can move.    *)
LEMMA TrialsKeepInvariant ==
  ASSUME IInv, NEW t \in Trials, TrialStep(t) \/ SchemaFrozen(t)
  PROVE  IInv'
<1> USE DEF IInv
<1>0. t \in AllTrials /\ Trials \subseteq AllTrials  BY TrialsAreFinite
<1>1. CASE TrialStarts(t)
  <2>1. SlotsAreKept' /\ free' \in 0 .. MaxConcurrency  BY <1>1, SlotTaken
  <2>2. PlaceInv' /\ NothingRunsAfterExit' /\ SummaryCoversEveryTrial' /\ JudgedInv'
    BY <1>1, OneTrialMoves DEF TrialStarts
  <2>3. TypeOK'  BY <1>1, <2>1 DEF TypeOK, TrialStarts, endVars
  <2>4. FrozenSchemasAreMeasured'
    BY <1>0, <1>1 DEF FrozenSchemasAreMeasured, TrialStarts, In, TypeOK, Trials, Runnable
  <2> QED BY <2>1, <2>2, <2>3, <2>4
<1>2. CASE TrialReturns(t)
  <2>1. PICK d \in Documents(t \in frozen) : document' = [document EXCEPT ![t] = d]
    BY <1>2 DEF TrialReturns
  <2>2. d \in AnyDocument /\ (command.mode = "end-to-end" => (d.schema <=> t \in frozen))
    BY DocumentsAreTyped
  <2>3. SlotsAreKept' /\ free' \in 0 .. MaxConcurrency
    BY <1>2, SlotGiven DEF TrialReturns
  <2>4. PlaceInv' /\ NothingRunsAfterExit' /\ SummaryCoversEveryTrial' /\ JudgedInv'
    BY <1>2, OneTrialMoves DEF TrialReturns
  <2>5. TypeOK'  BY <1>0, <1>2, <2>1, <2>2, <2>3 DEF TypeOK, TrialReturns, endVars
  <2>6. FrozenSchemasAreMeasured'
    BY <1>0, <1>2, <2>1, <2>2
       DEF FrozenSchemasAreMeasured, TrialReturns, In, TypeOK, Trials, Runnable
  <2> QED BY <2>3, <2>4, <2>5, <2>6
<1>3. CASE TrialRaises(t)
  <2>1. PICK written \in {{}, {t}} : artifacts' = artifacts \union written
    BY <1>3 DEF TrialRaises
  <2>2. SlotsAreKept' /\ free' \in 0 .. MaxConcurrency
    BY <1>3, SlotGiven DEF TrialRaises
  <2>3. PlaceInv' /\ NothingRunsAfterExit' /\ SummaryCoversEveryTrial' /\ JudgedInv'
    BY <1>3, <2>1, OneTrialMoves DEF TrialRaises
  <2>4. TypeOK'  BY <1>0, <1>3, <2>1, <2>2 DEF TypeOK, TrialRaises, endVars
  <2>5. FrozenSchemasAreMeasured'
    BY <1>0, <1>3 DEF FrozenSchemasAreMeasured, TrialRaises, In, TypeOK, Trials, Runnable
  <2> QED BY <2>2, <2>3, <2>4, <2>5
<1>4. CASE TrialCancelled(t)
  <2>1. SlotsAreKept' /\ free' \in 0 .. MaxConcurrency
    <3>1. CASE stage[t] = "running"  BY <1>4, <3>1, SlotGiven DEF TrialCancelled
    <3>2. CASE stage[t] = "waiting"
      <4>1. In("running")' = In("running") /\ free' = free /\ command' = command
        BY <1>0, <1>4, <3>2 DEF TrialCancelled, In, TypeOK, Trials, Runnable
      <4> QED BY <4>1 DEF SlotsAreKept, TypeOK
    <3> QED BY <1>4, <3>1, <3>2 DEF TrialCancelled
  <2>2. PlaceInv' /\ NothingRunsAfterExit' /\ SummaryCoversEveryTrial' /\ JudgedInv'
    BY <1>4, OneTrialMoves DEF TrialCancelled
  <2>3. TypeOK'  BY <1>0, <1>4, <2>1 DEF TypeOK, TrialCancelled, endVars
  <2>4. FrozenSchemasAreMeasured'
    BY <1>0, <1>4 DEF FrozenSchemasAreMeasured, TrialCancelled, In, TypeOK, Trials, Runnable
  <2> QED BY <2>1, <2>2, <2>3, <2>4
<1>5. CASE SchemaFrozen(t)
  <2>1. /\ Trials' = Trials /\ \A s : In(s)' = In(s)
        /\ UNCHANGED <<command, reports, stage, document, free, artifacts, main, endVars>>
    BY <1>5 DEF SchemaFrozen, In, Trials, Runnable
  <2>2. TypeOK'  BY <1>0, <1>5, <2>1 DEF TypeOK, SchemaFrozen, endVars
  <2>3. PlaceInv'  BY <2>1 DEF PlaceInv, endVars
  <2>4. SlotsAreKept' /\ NothingRunsAfterExit'
    BY <2>1 DEF SlotsAreKept, NothingRunsAfterExit, endVars
  <2>5. SummaryCoversEveryTrial'
    BY <2>1, <1>5 DEF SummaryCoversEveryTrial, PlaceInv, SchemaFrozen, endVars
  <2>6. FrozenSchemasAreMeasured'
    BY <1>5, <2>1 DEF FrozenSchemasAreMeasured, SchemaFrozen, In
  <2>7. JudgedInv'  BY <1>5, <2>1 DEF SchemaFrozen, PlaceInv, JudgedInv, endVars
  <2> QED BY <2>2, <2>3, <2>4, <2>5, <2>6, <2>7
<1> QED BY <1>1, <1>2, <1>3, <1>4, <1>5 DEF TrialStep

(* The runner's steps: before the trials there is nothing to lose, and      *)
(* afterwards they have all returned or been seen to their end.             *)
LEMMA RunnerKeepsInvariant ==
  ASSUME IInv, Runner \/ Interrupted
  PROVE  IInv'
<1> USE DEF IInv
<1>1. ASSUME UNCHANGED <<command, reports, trialVars, summary>>
      PROVE  SummaryCoversEveryTrial'
  <2>1. {t \in Trials : IF command.mode = "ttp-only" THEN document[t].accepted
                                                    ELSE document[t].success}'
        = {t \in Trials : IF command.mode = "ttp-only" THEN document[t].accepted
                                                      ELSE document[t].success}
    BY <1>1, NoTrialMoves DEF trialVars
  <2> QED BY <1>1, <2>1, NoTrialMoves DEF SummaryCoversEveryTrial, trialVars
<1>2. ASSUME UNCHANGED <<command, reports, trialVars>>, SummaryCoversEveryTrial',
             JudgedInv',
             NEW code \in {0, 1, 2, 130}, Leave(code),
             In("running") \union In("waiting") = {}
      PROVE  IInv'
  <2>1. TypeOK'  BY <1>2 DEF TypeOK, Leave, trialVars
  <2>2. PlaceInv'  BY <1>2, NoTrialMoves DEF PlaceInv, Leave, trialVars
  <2>3. NothingRunsAfterExit'
    <3>1. In("running")' \union In("waiting")' = {}  BY <1>2, NoTrialMoves
    <3>2. command' = command  BY <1>2
    <3>3. ASSUME command.mode \in GeneratedModes \union {"ttp-only"} PROVE flushed'
      <4>1. command.mode \notin {"preflight", "baseline"}  BY <3>3 DEF GeneratedModes
      <4> QED BY <1>2, <4>1, Zenon DEF Leave
    <3> QED BY <3>1, <3>2, <3>3 DEF NothingRunsAfterExit
  <2> QED BY <1>2, <2>1, <2>2, <2>3, NoTrialMoves
<1>3. main = "start" => \A s : s # "absent" => In(s) = {}
  BY TrialsAreFinite DEF PlaceInv, In
<1>4. Settled \/ Gathered \/ main = "summarised"
        => In("running") = {} /\ In("waiting") = {}
  BY DEF Settled, Gathered, PlaceInv, In
<1>5. CASE BaselineOptionsRefused \/ PreflightFailed \/ ConfigurationFails \/ RunAbandoned
           \/ BaselineUnusable \/ EndNotWritten \/ Finished
  <2>1. PICK code \in {0, 1, 2, 130} : Leave(code)
    BY <1>5 DEF BaselineOptionsRefused, PreflightFailed, ConfigurationFails, RunAbandoned,
                BaselineUnusable, EndNotWritten, Finished
  <2>2. UNCHANGED <<command, reports, trialVars, summary>>
    BY <1>5 DEF BaselineOptionsRefused, PreflightFailed, ConfigurationFails, RunAbandoned,
                BaselineUnusable, EndNotWritten, Finished
  <2>3. JudgedInv'
    <3>1. CASE Finished
      <4>1. exit' = 0 => summary.status # "regressed"  BY <3>1 DEF Finished, Leave
      <4> QED BY <3>1, <4>1, VerdictStays DEF Finished
    <3>2. CASE BaselineUnusable
      <4>1. summary' = Nothing  BY <3>2 DEF BaselineUnusable, Gathered, PlaceInv
      <4> QED BY <4>1 DEF JudgedInv
    <3>3. CASE EndNotWritten
      <4>1. exit' # 0  BY <3>3 DEF EndNotWritten, Leave
      <4> QED BY <3>3, <4>1, <2>2, VerdictStays DEF EndNotWritten
    <3>4. CASE main \in {"start", "failing", "interrupted"}
      <4>1. summary' = Nothing  BY <2>2, <3>4 DEF PlaceInv
      <4> QED BY <4>1 DEF JudgedInv
    <3> QED BY <1>5, <3>1, <3>2, <3>3, <3>4
            DEF BaselineOptionsRefused, PreflightFailed, ConfigurationFails, RunAbandoned,
                Admitted
  <2>4. main = "start" \/ Settled \/ Gathered \/ main = "summarised"
    BY <1>5 DEF BaselineOptionsRefused, PreflightFailed, ConfigurationFails, RunAbandoned,
                BaselineUnusable, EndNotWritten, Finished, Admitted
  <2> QED BY <1>1, <1>2, <1>3, <1>4, <2>1, <2>2, <2>3, <2>4
<1>6. CASE ReportsOnly
  <2>1. SummaryCoversEveryTrial'
    BY <1>6 DEF ReportsOnly, SummaryCoversEveryTrial, GeneratedModes
  <2>2. PICK code \in {0, 2} : Leave(code)  BY <1>6 DEF ReportsOnly
  <2>3. JudgedInv'  BY <1>6 DEF ReportsOnly, Admitted, PlaceInv, JudgedInv
  <2> QED BY <1>2, <1>3, <1>6, <2>1, <2>2, <2>3 DEF ReportsOnly, Admitted
<1>7. CASE NothingRunnable
  <2>1. Trials' = {}  BY <1>7, NoTrialMoves DEF NothingRunnable, Trials
  <2>2. {t \in Trials : IF command.mode = "ttp-only" THEN document[t].accepted
                                                    ELSE document[t].success}' = {}
    BY <2>1
  <2>3. SummaryCoversEveryTrial'
    BY <1>7, <2>1, <2>2, FS_EmptySet DEF NothingRunnable, SummaryCoversEveryTrial
  <2>4. JudgedInv'  BY <1>7 DEF NothingRunnable, Admitted, PlaceInv, JudgedInv
  <2> QED BY <1>2, <1>3, <1>7, <2>3, <2>4 DEF NothingRunnable, Admitted
<1>8. CASE TrialsCreated
  <2>1. Trials' = Trials  BY <1>8 DEF TrialsCreated, Trials, Runnable
  <2>2. \A t \in AllTrials : stage'[t] = IF t \in Trials THEN "waiting" ELSE "absent"
    BY <1>8 DEF TrialsCreated
  <2>3. \A s \in {"running", "returned"} : In(s)' = {} /\ In(s) = {}
    BY <1>3, <1>8, <2>1, <2>2, TrialsAreFinite DEF In, TrialsCreated, Admitted
  <2>4. TypeOK'  BY <1>8 DEF TypeOK, TrialsCreated, endVars
  <2>5. PlaceInv' /\ NothingRunsAfterExit' /\ SummaryCoversEveryTrial' /\ JudgedInv'
    BY <1>8, <2>1, <2>2, <2>3, TrialsAreFinite
       DEF PlaceInv, NothingRunsAfterExit, SummaryCoversEveryTrial, JudgedInv, TrialsCreated,
           Admitted, endVars
  <2>6. SlotsAreKept' /\ FrozenSchemasAreMeasured'
    BY <1>8, <2>3 DEF SlotsAreKept, FrozenSchemasAreMeasured, TrialsCreated
  <2> QED BY <2>4, <2>5, <2>6
<1>9. CASE GatherFails \/ Interrupted
  <2>1. /\ main = "gathering" /\ main' \in {"failing", "interrupted"}
        /\ UNCHANGED <<command, reports, trialVars, endVars>>
    BY <1>9 DEF GatherFails, Interrupted
  <2>2. TypeOK'  BY <2>1 DEF TypeOK, trialVars, endVars
  <2>3. PlaceInv'  BY <2>1, NoTrialMoves DEF PlaceInv, trialVars, endVars
  <2>4. NothingRunsAfterExit'  BY <2>1, NoTrialMoves DEF PlaceInv, NothingRunsAfterExit, endVars
  <2>5. JudgedInv'  BY <2>1 DEF PlaceInv, JudgedInv, endVars
  <2> QED BY <1>1, <2>1, <2>2, <2>3, <2>4, <2>5, NoTrialMoves DEF endVars
<1>10. CASE Judged \/ Recorded
  <2>1. /\ Gathered /\ main' = "summarised"
        /\ \E status \in {"regressed", "passed", "recorded"} : summary' = Summary(status)
        /\ UNCHANGED <<command, reports, trialVars, flushed, exit>>
    BY <1>10 DEF Judged, Recorded, Verdicts
  <2>2. TypeOK'  BY <2>1 DEF TypeOK, trialVars
  <2> DEFINE Good == {t \in Trials : IF command.mode = "ttp-only" THEN document[t].accepted
                                                              ELSE document[t].success}
  <2>3. summary'.trials = Trials /\ summary'.passes = Cardinality(Good) /\ summary' # Nothing
    <3>1. Cardinality(Good) \in Nat
      BY TrialsAreFinite, FS_Subset, FS_CardinalityType
    <3>2. Trials \in SUBSET (Nat \X Nat)
      BY TrialsAreFinite, TrialAssumption DEF AllTrials, Cases
    <3>3. PICK status \in {"regressed", "passed", "recorded"} :
            summary' = [status |-> status, passes |-> Cardinality(Good), trials |-> Trials]
      BY <2>1, Zenon DEF Summary, Successes, Quantify
    <3> QED BY <3>1, <3>2, <3>3, TrialAssumption
  <2>4. PlaceInv'
    BY <2>1, <2>3, NoTrialMoves DEF PlaceInv, Gathered, trialVars
  <2>5. NothingRunsAfterExit'
    BY <2>1, NoTrialMoves DEF PlaceInv, NothingRunsAfterExit, Gathered
  <2>6. SummaryCoversEveryTrial'
    <3>1. Good' = Good  BY <2>1, NoTrialMoves DEF trialVars
    <3>2. Trials \subseteq artifacts  BY <2>1 DEF PlaceInv, Gathered
    <3> QED BY <2>1, <2>3, <3>1, <3>2, NoTrialMoves DEF SummaryCoversEveryTrial, trialVars
  <2>7. JudgedInv'
    <3>1. CASE Recorded
      <4>1. given' = Nothing  BY <3>1 DEF Recorded, Gathered, PlaceInv
      <4> QED BY <4>1 DEF JudgedInv
    <3>2. CASE Judged  BY <3>2, VerdictReached
    <3> QED BY <1>10, <3>1, <3>2
  <2> QED BY <2>1, <2>2, <2>4, <2>5, <2>6, <2>7, NoTrialMoves
<1> QED BY <1>5, <1>6, <1>7, <1>8, <1>9, <1>10 DEF Runner

-----------------------------------------------------------------------------
(* The invariant is inductive: it holds at the start, and no step of the    *)
(* runner, its trials or whoever interrupts it breaks it.                   *)
THEOREM TrialRunInvariant == Spec => []IInv
<1>1. Init => IInv
  <2> SUFFICES ASSUME Init PROVE IInv  OBVIOUS
  <2>1. TypeOK
    <3>1. free \in 0 .. MaxConcurrency  BY TrialAssumption, SlotCount DEF Init
    <3>2. command \in Commands /\ reports \in [Cases -> Reports]  BY Zenon DEF Init
    <3> QED BY <3>1, <3>2 DEF Init, TypeOK
  <2>2. \A s : s # "absent" => In(s) = {}  BY <2>1, TrialsAreFinite DEF Init, In
  <2>3. PlaceInv  BY <2>2 DEF Init, PlaceInv
  <2>4. SlotsAreKept  BY <2>1, <2>2, FS_EmptySet, SlotCount DEF Init, SlotsAreKept
  <2> QED BY <2>1, <2>2, <2>3, <2>4
          DEF Init, IInv, JudgedInv, NothingRunsAfterExit, SummaryCoversEveryTrial,
              FrozenSchemasAreMeasured
<1>2. IInv /\ [Next]_vars => IInv'
  <2> SUFFICES ASSUME IInv, [Next]_vars PROVE IInv'  OBVIOUS
  <2>1. CASE Runner \/ Interrupted  BY <2>1, RunnerKeepsInvariant
  <2>2. CASE \E t \in Trials : TrialStep(t) \/ SchemaFrozen(t)
    BY <2>2, TrialsKeepInvariant
  <2>3. CASE UNCHANGED vars
    <3>1. UNCHANGED <<command, reports, trialVars>> /\ main' = main
          /\ UNCHANGED <<summary, baseline, flushed, exit, given>>
      BY <2>3 DEF vars, endVars
    <3>2. TypeOK'  BY <3>1 DEF IInv, TypeOK, trialVars
    <3>3. PlaceInv'  BY <3>1, NoTrialMoves DEF IInv, PlaceInv, trialVars
    <3>4. NothingRunsAfterExit'
      BY <3>1, NoTrialMoves DEF IInv, NothingRunsAfterExit
    <3>5. {t \in Trials : IF command.mode = "ttp-only" THEN document[t].accepted
                                                      ELSE document[t].success}'
          = {t \in Trials : IF command.mode = "ttp-only" THEN document[t].accepted
                                                        ELSE document[t].success}
      BY <3>1, NoTrialMoves DEF trialVars
    <3>6. SummaryCoversEveryTrial'
      BY <3>1, <3>5, NoTrialMoves DEF IInv, SummaryCoversEveryTrial, trialVars
    <3>7. JudgedInv'  BY <3>1, VerdictStays
    <3> QED BY <3>1, <3>2, <3>3, <3>4, <3>6, <3>7, NoTrialMoves DEF IInv
  <2> QED BY <2>1, <2>2, <2>3 DEF Next
<1> QED BY <1>1, <1>2, PTL DEF Spec

(* Every variable keeps its type.                                          *)
THEOREM TrialTypes == Spec => []TypeOK
BY TrialRunInvariant, PTL DEF IInv

(* No slot of the semaphore is lost or made up, for any concurrency: as     *)
(* many are free as trials are not at work.                                *)
THEOREM SlotsKept == Spec => []SlotsAreKept
BY TrialRunInvariant, PTL DEF IInv

(* A summary speaks of every trial of its run, for any number of them.      *)
THEOREM SummaryCovers == Spec => []SummaryCoversEveryTrial
BY TrialRunInvariant, PTL DEF IInv

(* No trial outlives the process's decision to exit.                        *)
THEOREM NothingLeftRunning == Spec => []NothingRunsAfterExit
BY TrialRunInvariant, PTL DEF IInv

(* A schema that was frozen is measured, whatever became of its trial.      *)
THEOREM FrozenMeasured == Spec => []FrozenSchemasAreMeasured
BY TrialRunInvariant, PTL DEF IInv

(* A run that ends quietly lost no more trials of any case than tolerated,  *)
(* for every number of trials on either side; one reported as regressed did *)
(* lose that many of some case.                                            *)
THEOREM VerdictRight == Spec => []VerdictIsAboutTheGivenBaseline
<1>1. IInv => VerdictIsAboutTheGivenBaseline
  BY DEF IInv, JudgedInv, VerdictIsAboutTheGivenBaseline
<1> QED BY <1>1, TrialRunInvariant, PTL

(* Only the counts of a finished, summarised run ever replace a baseline,   *)
(* or the write fails and the run says so.                                  *)
THEOREM BaselineFromFinishedRun == Spec => BaselineIsAFinishedRun
<1> DEFINE Kept == (baseline' # baseline /\ baseline' # given')
        => /\ Trials = In("returned")
           /\ summary # Nothing
           /\ \/ baseline' = CasePassCounts
              \/ exit' = 1
<1>1. IInv /\ [Next]_vars => [Kept]_vars
  <2> SUFFICES ASSUME IInv, Next PROVE Kept  OBVIOUS
  <2>1. CASE Runner \/ Interrupted
    <3>1. CASE main = "summarised"
      <4>1. Trials = In("returned") /\ summary # Nothing
        BY <3>1 DEF IInv, PlaceInv
      <4>2. CASE EndNotWritten  BY <4>1, <4>2 DEF EndNotWritten, Leave
      <4>3. CASE Finished  BY <4>1, <4>3 DEF Finished
      <4>4. CASE ~ EndNotWritten /\ ~ Finished
        BY <2>1, <3>1, <4>4
           DEF Runner, Interrupted, BaselineOptionsRefused, ReportsOnly, PreflightFailed,
               NothingRunnable, ConfigurationFails, TrialsCreated, GatherFails,
               RunAbandoned, BaselineUnusable, Judged, Recorded, Gathered, Admitted
      <4> QED BY <4>2, <4>3, <4>4
    <3>2. CASE main # "summarised"
      BY <2>1, <3>2
         DEF Runner, Interrupted, BaselineOptionsRefused, ReportsOnly, PreflightFailed,
             NothingRunnable, ConfigurationFails, TrialsCreated, GatherFails,
             RunAbandoned, BaselineUnusable, Judged, Recorded, Finished, EndNotWritten,
             endVars
    <3> QED BY <3>1, <3>2
  <2>2. ASSUME NEW t \in Trials, TrialStep(t) \/ SchemaFrozen(t) PROVE baseline' = baseline
    BY <2>2 DEF TrialStep, TrialStarts, TrialReturns, TrialRaises, TrialCancelled,
                SchemaFrozen, endVars
  <2> QED BY <2>1, <2>2 DEF Next
<1>2. Spec => [][Kept]_vars  BY <1>1, TrialRunInvariant, PTL DEF Spec
<1> QED BY <1>2 DEF BaselineIsAFinishedRun

-----------------------------------------------------------------------------
(* Every set of numbers that is not empty has a least one.                  *)
LEMMA LeastNat ==
  ASSUME NEW T \in SUBSET Nat, T # {}
  PROVE  \E x \in T : \A y \in T : x <= y
<1> DEFINE R == {ss \in Nat \X Nat : ss[1] < ss[2]}
<1>1. IsWellFoundedOn(R, Nat)  BY NatLessThanWellFounded DEF OpToRel
<1>2. \A x, y \in T : <<y, x>> \in R <=> y < x  OBVIOUS
<1> HIDE DEF R
<1>3. \E x \in T : \A y \in T : ~ (<<y, x>> \in R) BY <1>1, WFMin
<1>4. PICK x \in T : \A y \in T : ~ (<<y, x>> \in R)  BY <1>3
<1>5. ASSUME NEW y \in T PROVE x <= y
  <2>1. ~ (y < x)  BY <1>2, <1>4
  <2>2. x \in Nat /\ y \in Nat  OBVIOUS
  <2> QED BY <2>1, <2>2
<1> QED BY <1>5

(* Induction, for a set of numbers.                                         *)
LEMMA Induct ==
  ASSUME NEW Holds, 0 \in Holds, \A n \in Nat : n \in Holds => n + 1 \in Holds
  PROVE  Nat \subseteq Holds
<1> DEFINE T == Nat \ Holds
<1>1. SUFFICES ASSUME T # {} PROVE FALSE  OBVIOUS
<1>2. PICK m \in T : \A y \in T : m <= y  BY <1>1, LeastNat
<1>3. m - 1 \in Nat /\ m - 1 \notin T  BY <1>2
<1>4. (m - 1) + 1 = m  BY <1>2
<1> QED BY <1>3, <1>4

(* A set of numbers up to n that is not empty has its largest among them,   *)
(* zero included.                                                          *)
LEMMA LargestCount ==
  ASSUME NEW n \in Nat, NEW s \in SUBSET (0 .. n), s # {}
  PROVE  Max(s) \in s
<1> DEFINE T == {n - y : y \in s}
<1>0. \A y \in s : y \in 0 .. n /\ y \in Int /\ n - y \in Nat  OBVIOUS
<1>1. T \in SUBSET Nat /\ T # {}  BY <1>0
<1>2. PICK z \in T : \A y \in T : z <= y  BY <1>1, LeastNat
<1>3. PICK x \in s : z = n - x  OBVIOUS
<1>4. \A y \in s : n - y \in T  OBVIOUS
<1>5. ASSUME NEW y \in s PROVE x >= y
  <2>1. n - x <= n - y  BY <1>2, <1>3, <1>4
  <2> QED BY <1>0, <2>1
<1> QED BY <1>5 DEF Max

(* Of positions, where there are any, the largest is one of them.           *)
LEMMA LargestIsMember ==
  ASSUME NEW n \in Nat, NEW s \in SUBSET (1 .. n), s # {}
  PROVE  Max(s) \in s
<1>1. s \in SUBSET (0 .. n)  OBVIOUS
<1> QED BY <1>1, LargestCount

-----------------------------------------------------------------------------
(* What FoldLeft recurses on: the sets of positions, largest first.         *)
Folding(step, base, n, f) ==
  f = [s \in SUBSET (1 .. n) |->
         IF s = {} THEN base ELSE step[<<Max(s), f[s \ {Max(s)}]>>]]

(* A fold by a step that stays within a set has a value there, however      *)
(* long the sequence.                                                      *)
LEMMA FoldExists ==
  ASSUME NEW n \in Nat, NEW X, NEW base \in X, NEW step \in [(1 .. n) \X X -> X]
  PROVE  \E f \in [SUBSET (1 .. n) -> X] : Folding(step, base, n, f)
<1> DEFINE Found(m) == \E f \in [SUBSET (1 .. m) -> X] : Folding(step, base, m, f)
<1> DEFINE Holds == {m \in Nat : m <= n => Found(m)}
<1>1. Found(0)
  <2> DEFINE f == [s \in SUBSET (1 .. 0) |-> base]
  <2>1. \A s \in SUBSET (1 .. 0) : s = {}  OBVIOUS
  <2>2. f \in [SUBSET (1 .. 0) -> X] /\ Folding(step, base, 0, f)
    BY <2>1 DEF Folding
  <2> QED BY <2>2
<1>2. ASSUME NEW m \in Nat, m + 1 <= n, Found(m) PROVE Found(m + 1)
  <2>2. PICK f \in [SUBSET (1 .. m) -> X] : Folding(step, base, m, f)
    BY <1>2
  <2> DEFINE g == [s \in SUBSET (1 .. (m + 1)) |->
                     IF m + 1 \in s THEN step[<<m + 1, f[s \ {m + 1}]>>] ELSE f[s]]
  <2>3. ASSUME NEW s \in SUBSET (1 .. (m + 1)), m + 1 \in s
        PROVE  /\ s \ {m + 1} \in SUBSET (1 .. m)
               /\ Max(s) = m + 1
    <3>1. s \ {m + 1} \in SUBSET (1 .. m)  OBVIOUS
    <3>2. \A y \in s : m + 1 >= y  OBVIOUS
    <3>3. \A x \in s : (\A y \in s : x >= y) => x = m + 1
      <4>1. ASSUME NEW x \in s, x >= m + 1 PROVE x = m + 1  BY <3>2, <4>1
      <4> QED BY <2>3, <4>1
    <3>4. Max(s) \in s /\ (\A y \in s : Max(s) >= y)  BY <2>3, <3>2 DEF Max
    <3> QED BY <3>1, <3>3, <3>4
  <2>4. ASSUME NEW s \in SUBSET (1 .. (m + 1)), m + 1 \notin s
        PROVE  /\ s \in SUBSET (1 .. m)
               /\ \A x : s \ {x} \in SUBSET (1 .. m) /\ m + 1 \notin s \ {x}
    <3>1. \A y \in s : y \in 1 .. m  BY <2>4
    <3> QED BY <2>4, <3>1
  <2>5. g \in [SUBSET (1 .. (m + 1)) -> X]
    <3>1. ASSUME NEW s \in SUBSET (1 .. (m + 1)) PROVE g[s] \in X
      <4>1. m + 1 \in 1 .. n  BY <1>2
      <4>2. CASE m + 1 \in s
        <5>1. f[s \ {m + 1}] \in X  BY <4>2, <2>3
        <5>2. <<m + 1, f[s \ {m + 1}]>> \in (1 .. n) \X X  BY <4>1, <5>1
        <5> QED BY <4>2, <5>2
      <4>3. CASE m + 1 \notin s  BY <4>3, <2>4
      <4> QED BY <4>2, <4>3
    <3> QED BY <3>1
  <2>6. ASSUME NEW s \in SUBSET (1 .. (m + 1))
        PROVE  g[s] = IF s = {} THEN base ELSE step[<<Max(s), g[s \ {Max(s)}]>>]
    <3>1. CASE m + 1 \in s
      <4>1. s \ {m + 1} \in SUBSET (1 .. (m + 1)) /\ m + 1 \notin s \ {m + 1}  OBVIOUS
      <4>2. g[s \ {m + 1}] = f[s \ {m + 1}]  BY <4>1
      <4>3. g[s] = step[<<m + 1, f[s \ {m + 1}]>>]  BY <3>1
      <4>4. Max(s) = m + 1 /\ s # {}  BY <3>1, <2>3
      <4> HIDE DEF g
      <4> QED BY <4>2, <4>3, <4>4
    <3>2. CASE m + 1 \notin s
      <4>1. s \in SUBSET (1 .. m)  BY <2>4, <3>2
      <4>2. f[s] = IF s = {} THEN base ELSE step[<<Max(s), f[s \ {Max(s)}]>>]
        BY <2>2, <4>1 DEF Folding
      <4>3. g[s] = f[s]  BY <3>2
      <4>4. s \ {Max(s)} \in SUBSET (1 .. (m + 1)) /\ m + 1 \notin s \ {Max(s)}
        BY <3>2, <2>4
      <4>5. g[s \ {Max(s)}] = f[s \ {Max(s)}]  BY <4>4
      <4> HIDE DEF g
      <4> QED BY <4>2, <4>3, <4>5
    <3> QED BY <3>1, <3>2
  <2>7. Folding(step, base, m + 1, g)
    <3>1. g = [s \in SUBSET (1 .. (m + 1)) |-> g[s]]  OBVIOUS
    <3> HIDE DEF g
    <3> QED BY <3>1, <2>6 DEF Folding
  <2> HIDE DEF g
  <2> QED BY <2>5, <2>7
<1> HIDE DEF Found
<1>3. 0 \in Holds  BY <1>1
<1>4. ASSUME NEW m \in Nat, m \in Holds PROVE m + 1 \in Holds
  <2>1. CASE m + 1 <= n  BY <2>1, <1>2, <1>4
  <2>2. CASE ~ (m + 1 <= n)  BY <2>2
  <2> QED BY <2>1, <2>2
<1>5. Nat \subseteq Holds
  <2> HIDE DEF Holds
  <2> QED BY <1>3, <1>4, Induct
<1>6. Found(n)  BY <1>5
<1> QED BY <1>6 DEF Found

(* The positions up to k, without the last of them.                         *)
LEMMA LastPosition ==
  ASSUME NEW n \in Nat, NEW k \in 1 .. n
  PROVE  /\ 1 .. k \in SUBSET (1 .. n) /\ 1 .. k # {}
         /\ Max(1 .. k) = k /\ (1 .. k) \ {k} = 1 .. (k - 1)
<1>1. k \in 1 .. k /\ \A y \in 1 .. k : k >= y  OBVIOUS
<1>2. Max(1 .. k) = k  BY <1>1 DEF Max
<1>3. (1 .. k) \ {k} = 1 .. (k - 1)  OBVIOUS
<1> QED BY <1>1, <1>2, <1>3

-----------------------------------------------------------------------------
(* The calls, sessions, events and tracers of phases over a set of schemas. *)
Calls(Schemas) == DirectCalls(Schemas) \union PlanCalls(Schemas) \union DraftCalls(Schemas)

Tools == {"submit_result_schema", "submit_schema_plan", "confirm_schema_plan",
          "submit_schema_draft"}

\* The endings of a call that the session counts.
Endings == {"accepted", "rejected", "cancelled"}

Sessions(Schemas) ==
  [submitted : Nat, frozen : Schemas \union {Unseen}, plan : Schemas \union {Unseen},
   cancelled : BOOLEAN, late : Nat, first : Endings \union {Unseen}]

Results(Schemas) ==
  [kind : {"result"}, tool : Tools, schema : Schemas \union {Unseen},
   decided : {TRUE}, accepted : BOOLEAN, frozen : BOOLEAN,
   counter : Nat \union {Unseen}, compiled : Schemas \union {Unseen}]

Events(Schemas) ==
  [kind : {"start"}, tool : Tools]
  \union [kind : {"result"}, tool : Tools, schema : Schemas, decided : {FALSE}]
  \union Results(Schemas)

Tracers(Schemas) ==
  [submissions : Seq(BOOLEAN), last : Nat, frozenSchema : Schemas \union {Unseen},
   pending : Schemas \union {Unseen}, frozenFallback : Schemas \union {Unseen},
   hasFallback : BOOLEAN]

(* What a call does to the session, and the result it announces.            *)
Outcome(s, call) ==
  CASE call.tool = "submit_result_schema" -> DirectResult(s, call)
    [] call.tool = "submit_schema_draft" -> DraftResult(s, call)
    [] OTHER -> PlanResult(s, call)

Start(call) == [kind |-> "start", tool |-> call.tool]

(* A call announces its start, and then what its tool does of it.           *)
LEMMA CallShape ==
  ASSUME NEW Schemas, NEW call \in Calls(Schemas), NEW phase
  PROVE  CallMade(phase, call) =
           IF phase.s.cancelled THEN phase
           ELSE IF call.ending = "refused by the framework"
             THEN [s |-> [phase.s EXCEPT !.plan = IF call.tool = "submit_schema_plan"
                                                    THEN Unseen ELSE @],
                   events |-> phase.events \o <<Start(call)>>]
             ELSE [s |-> Outcome(phase.s, call).s,
                   events |-> (phase.events \o <<Start(call)>>)
                                \o Outcome(phase.s, call).events]
BY DEF CallMade, Announced, Outcome, Start

\* A tool answers once.
Announces(Schemas, events) == \E e \in Events(Schemas) : events = <<e>>

(* What a tool announces is an event.                                       *)
LEMMA ResultTyped ==
  ASSUME NEW Schemas, NEW call \in Calls(Schemas),
         NEW accepted \in BOOLEAN, NEW froze \in BOOLEAN,
         NEW counter \in Nat \union {Unseen}, NEW compiled \in Schemas \union {Unseen}
  PROVE  Announces(Schemas, Result(call, accepted, froze, counter, compiled))
<1>1. call.tool \in Tools /\ call.schema \in Schemas \union {Unseen}
  BY DEF Calls, DirectCalls, PlanCalls, DraftCalls, Tools
<1> DEFINE e == [kind |-> "result", tool |-> call.tool, schema |-> call.schema,
                 decided |-> TRUE, accepted |-> accepted, frozen |-> froze,
                 counter |-> counter, compiled |-> compiled]
<1>2. e \in Results(Schemas)  BY <1>1 DEF Results
<1>3. Result(call, accepted, froze, counter, compiled) = <<e>>  BY DEF Result
<1> HIDE DEF e
<1> QED BY <1>2, <1>3 DEF Events, Announces

\* The session after a submission it counts.
Counted(s, ending) ==
  [s EXCEPT !.submitted = @ + 1, !.first = IF @ = Unseen THEN ending ELSE @]

(* The types of the session's fields.                                       *)
LEMMA SessionFields ==
  ASSUME NEW Schemas, NEW s \in Sessions(Schemas)
  PROVE  /\ s.submitted \in Nat /\ s.submitted + 1 \in Nat
         /\ s.frozen \in Schemas \union {Unseen} /\ s.plan \in Schemas \union {Unseen}
         /\ s.first \in Endings \union {Unseen}
BY DEF Sessions

(* A session one of whose fields has changed is one.                        *)
LEMMA SessionUpdates ==
  ASSUME NEW Schemas, NEW s \in Sessions(Schemas), NEW x \in Schemas \union {Unseen},
         NEW y \in Endings \union {Unseen}
  PROVE  /\ [s EXCEPT !.submitted = @ + 1] \in Sessions(Schemas)
         /\ [s EXCEPT !.late = @ + 1] \in Sessions(Schemas)
         /\ [s EXCEPT !.frozen = x] \in Sessions(Schemas)
         /\ [s EXCEPT !.plan = x] \in Sessions(Schemas)
         /\ [s EXCEPT !.cancelled = TRUE] \in Sessions(Schemas)
         /\ [s EXCEPT !.first = y] \in Sessions(Schemas)
<1>1. [s EXCEPT !.submitted = @ + 1] \in Sessions(Schemas)  BY DEF Sessions
<1>2. [s EXCEPT !.late = @ + 1] \in Sessions(Schemas)  BY DEF Sessions
<1>3. [s EXCEPT !.frozen = x] \in Sessions(Schemas)  BY DEF Sessions
<1>4. [s EXCEPT !.plan = x] \in Sessions(Schemas)  BY DEF Sessions
<1>5. [s EXCEPT !.cancelled = TRUE] \in Sessions(Schemas)  BY DEF Sessions
<1>6. [s EXCEPT !.first = y] \in Sessions(Schemas)  BY DEF Sessions
<1> QED BY <1>1, <1>2, <1>3, <1>4, <1>5, <1>6

(* A counted submission leaves a session, whose schema and plan are as they *)
(* were.                                                                   *)
LEMMA CountedTyped ==
  ASSUME NEW Schemas, NEW s \in Sessions(Schemas), NEW ending \in Endings
  PROVE  /\ Counted(s, ending) \in Sessions(Schemas)
         /\ Counted(s, ending).submitted = s.submitted + 1
         /\ Counted(s, ending).frozen = s.frozen /\ Counted(s, ending).plan = s.plan
<1> DEFINE once == [s EXCEPT !.submitted = @ + 1]
           first == IF s.first = Unseen THEN ending ELSE s.first
<1>1. once \in Sessions(Schemas)  BY SessionUpdates
<1>2. first \in Endings \union {Unseen}  BY SessionFields
<1>3. Counted(s, ending) = [once EXCEPT !.first = first]  BY DEF Counted
<1>4. Counted(s, ending) \in Sessions(Schemas)
  <2> HIDE DEF once, first
  <2>1. [once EXCEPT !.first = first] \in Sessions(Schemas)
    BY <1>1, <1>2, SessionUpdates
  <2> QED BY <1>3, <2>1
<1>5. /\ Counted(s, ending).submitted = s.submitted + 1
      /\ Counted(s, ending).frozen = s.frozen /\ Counted(s, ending).plan = s.plan
  BY DEF Counted, Sessions
<1> QED BY <1>4, <1>5

\* A call that the framework lets through to its tool.
LetThrough(call) == call.ending # "refused by the framework"

\* What a tool leaves: a session and one event.
OutcomeOf(Schemas, o) ==
  /\ o.s \in Sessions(Schemas)
  /\ Announces(Schemas, o.events)

(* A session and an announced event are what a tool leaves.                 *)
LEMMA PairTyped ==
  ASSUME NEW Schemas, NEW s \in Sessions(Schemas), NEW evs,
         Announces(Schemas, evs)
  PROVE  OutcomeOf(Schemas, [s |-> s, events |-> evs])
BY DEF OutcomeOf

(* Each tool leaves a session and announces one event.                      *)
LEMMA OutcomeTyped ==
  ASSUME NEW Schemas, NEW call \in Calls(Schemas), NEW s \in Sessions(Schemas),
         LetThrough(call)
  PROVE  OutcomeOf(Schemas, Outcome(s, call))
<1> DEFINE counted == Counted(s, call.ending)
<1>c. /\ s.submitted \in Nat /\ s.submitted + 1 \in Nat
      /\ s.frozen \in Schemas \union {Unseen} /\ s.plan \in Schemas \union {Unseen}
  BY SessionFields
<1>d. ASSUME call.ending \in Endings
      PROVE  /\ counted \in Sessions(Schemas) /\ counted.submitted = s.submitted + 1
             /\ counted.frozen = s.frozen /\ counted.plan = s.plan
  BY <1>d, CountedTyped
<1> HIDE DEF counted
<1>1. CASE call \in DirectCalls(Schemas)
  <2>0. /\ call.tool = "submit_result_schema" /\ call.schema \in Schemas
        /\ call.ending \in Endings \union {"arguments"}
        /\ Outcome(s, call) = DirectResult(s, call)
    BY <1>1 DEF LetThrough, DirectCalls, Endings, Outcome
  <2>1. CASE call.ending = "arguments"
    <3>1. DirectResult(s, call) = [s |-> s, events |-> Result(call, FALSE, FALSE, s.submitted, Unseen)]
      BY <2>1 DEF DirectResult
    <3>2. Announces(Schemas, Result(call, FALSE, FALSE, s.submitted, Unseen))
      BY <1>c, ResultTyped
    <3> QED BY <2>0, <3>1, <3>2, PairTyped
  <2>2. CASE call.ending # "arguments" /\ s.frozen # Unseen
    <3>1. DirectResult(s, call) = [s |-> [s EXCEPT !.late = @ + 1],
                                   events |-> Result(call, FALSE, TRUE, Unseen, Unseen)]
      BY <2>2 DEF DirectResult
    <3>2. [s EXCEPT !.late = @ + 1] \in Sessions(Schemas)  BY <1>c, SessionUpdates DEF Endings
    <3>3. Announces(Schemas, Result(call, FALSE, TRUE, Unseen, Unseen))  BY ResultTyped
    <3> QED BY <2>0, <3>1, <3>2, <3>3, PairTyped
  <2>3. CASE call.ending = "rejected" /\ s.frozen = Unseen
    <3>1. DirectResult(s, call) = [s |-> counted,
                                   events |-> Result(call, FALSE, FALSE, counted.submitted, Unseen)]
      BY <2>3 DEF DirectResult, counted, Counted
    <3>2. call.ending \in Endings  BY <2>3 DEF Endings
    <3>3. Announces(Schemas, Result(call, FALSE, FALSE, counted.submitted, Unseen))
      BY <1>c, <1>d, <3>2, ResultTyped
    <3> QED BY <2>0, <1>d, <3>1, <3>2, <3>3, PairTyped
  <2>4. CASE call.ending = "accepted" /\ s.frozen = Unseen
    <3>1. DirectResult(s, call) = [s |-> [counted EXCEPT !.frozen = call.schema],
                                   events |-> Result(call, TRUE, TRUE, counted.submitted, Unseen)]
      BY <2>4 DEF DirectResult, counted, Counted
    <3>2. [counted EXCEPT !.frozen = call.schema] \in Sessions(Schemas)
      BY <1>d, <2>0, <2>4, SessionUpdates DEF Endings
    <3>3. call.ending \in Endings  BY <2>4 DEF Endings
    <3>4. Announces(Schemas, Result(call, TRUE, TRUE, counted.submitted, Unseen))
      BY <1>c, <1>d, <3>3, ResultTyped
    <3> QED BY <2>0, <3>1, <3>2, <3>4, PairTyped
  <2>5. CASE call.ending = "cancelled" /\ s.frozen = Unseen
    <3> DEFINE e == [kind |-> "result", tool |-> call.tool, schema |-> call.schema,
                     decided |-> FALSE]
    <3>1. DirectResult(s, call) = [s |-> [counted EXCEPT !.cancelled = TRUE], events |-> <<e>>]
      BY <2>5 DEF DirectResult, counted, Counted
    <3>2. [counted EXCEPT !.cancelled = TRUE] \in Sessions(Schemas)
      BY <1>d, <2>5, SessionUpdates DEF Endings
    <3>3. Announces(Schemas, <<e>>)  BY <2>0 DEF Events, Tools, Announces
    <3> HIDE DEF e
    <3> QED BY <2>0, <3>1, <3>2, <3>3, PairTyped
  <2> QED BY <2>0, <2>1, <2>2, <2>3, <2>4, <2>5 DEF Endings
<1>2. CASE call \in PlanCalls(Schemas)
  <2> DEFINE planned == [counted EXCEPT !.plan = IF call.ending = "accepted"
                                                   THEN call.schema ELSE Unseen]
  <2> DEFINE accepted == call.ending = "accepted"
  <2> DEFINE confirmed == call.ending = "accepted" /\ s.plan # Unseen /\ s.frozen = Unseen
  <2>0. /\ call.tool \in {"submit_schema_plan", "confirm_schema_plan"}
        /\ call.tool = "submit_schema_plan" => call.schema \in Schemas
        /\ call.ending \in {"rejected", "accepted"} /\ call.ending \in Endings
        /\ Outcome(s, call) = PlanResult(s, call)
    BY <1>2 DEF LetThrough, PlanCalls, Endings, Outcome
  <2>1. CASE call.tool = "submit_schema_plan"
    <3>1. PlanResult(s, call) =
            [s |-> planned,
             events |-> Result(call, accepted, FALSE, planned.submitted, planned.plan)]
      BY <2>1 DEF PlanResult, counted, Counted
    <3>2. /\ planned \in Sessions(Schemas) /\ planned.submitted \in Nat
          /\ planned.plan \in Schemas \union {Unseen}
      <4>1. (IF call.ending = "accepted" THEN call.schema ELSE Unseen) \in Schemas \union {Unseen}
        BY <2>0, <2>1
      <4>2. planned \in Sessions(Schemas)  BY <4>1, <1>d, <2>0, SessionUpdates
      <4> HIDE DEF planned
      <4> QED BY <4>2 DEF Sessions
    <3> HIDE DEF planned
    <3>3. Announces(Schemas, Result(call, accepted, FALSE, planned.submitted, planned.plan))
      BY <3>2, ResultTyped
    <3> HIDE DEF accepted
    <3> QED BY <2>0, <3>1, <3>2, <3>3, PairTyped
  <2>2. CASE call.tool = "confirm_schema_plan"
    <3>1. PlanResult(s, call) =
            [s |-> IF confirmed THEN [s EXCEPT !.frozen = s.plan] ELSE s,
             events |-> Result(call, confirmed, confirmed, Unseen,
                               IF confirmed THEN s.plan ELSE Unseen)]
      BY <2>2 DEF PlanResult
    <3>2. [s EXCEPT !.frozen = s.plan] \in Sessions(Schemas)  BY <1>c, SessionUpdates DEF Endings
    <3>3. confirmed \in BOOLEAN  OBVIOUS
    <3> HIDE DEF confirmed
    <3>4. (IF confirmed THEN s.plan ELSE Unseen) \in Schemas \union {Unseen}  BY <1>c
    <3>5. Announces(Schemas, Result(call, confirmed, confirmed, Unseen,
                                    IF confirmed THEN s.plan ELSE Unseen))
      BY <3>3, <3>4, ResultTyped
    <3>6. (IF confirmed THEN [s EXCEPT !.frozen = s.plan] ELSE s) \in Sessions(Schemas)
      BY <3>2
    <3> QED BY <2>0, <3>1, <3>5, <3>6, PairTyped
  <2> QED BY <2>0, <2>1, <2>2
<1>3. CASE call \in DraftCalls(Schemas)
  <2> DEFINE accepted == call.ending = "accepted" /\ s.frozen = Unseen
  <2>0. /\ call.tool = "submit_schema_draft" /\ call.schema \in Schemas
        /\ call.ending \in {"rejected", "accepted"} /\ call.ending \in Endings
        /\ Outcome(s, call) = DraftResult(s, call)
    BY <1>3 DEF LetThrough, DraftCalls, Endings, Outcome
  <2>1. DraftResult(s, call) =
          [s |-> IF accepted THEN [counted EXCEPT !.frozen = call.schema] ELSE counted,
           events |-> Result(call, accepted, accepted, counted.submitted,
                             IF accepted THEN call.schema ELSE Unseen)]
    BY DEF DraftResult, counted, Counted
  <2>2. [counted EXCEPT !.frozen = call.schema] \in Sessions(Schemas)
    BY <1>d, <2>0, SessionUpdates
  <2>3. accepted \in BOOLEAN  OBVIOUS
  <2> HIDE DEF accepted
  <2>4. (IF accepted THEN call.schema ELSE Unseen) \in Schemas \union {Unseen}  BY <2>0
  <2>5. Announces(Schemas, Result(call, accepted, accepted, counted.submitted,
                                  IF accepted THEN call.schema ELSE Unseen))
    BY <1>c, <1>d, <2>0, <2>3, <2>4, ResultTyped
  <2>6. (IF accepted THEN [counted EXCEPT !.frozen = call.schema] ELSE counted)
          \in Sessions(Schemas)
    BY <1>d, <2>0, <2>2
  <2> QED BY <2>0, <2>1, <2>5, <2>6, PairTyped
<1> QED BY <1>1, <1>2, <1>3 DEF Calls

(* The tracer stays one, whatever it observes.                              *)
LEMMA ObserveTyped ==
  ASSUME NEW Schemas, NEW t \in Tracers(Schemas), NEW e \in Events(Schemas)
  PROVE  Observe(t, e) \in Tracers(Schemas)
<1>1. CASE e.kind = "start"
  BY <1>1 DEF Observe, FallbackAtStart, Tracers
<1>2. ASSUME e.kind = "result" PROVE FallbackAtResult(t, e) \in Tracers(Schemas)
  BY <1>2 DEF FallbackAtResult, KeepPending, Keep, Tracers, Events, Results
<1>3. ASSUME NEW u \in Tracers(Schemas), e \in Results(Schemas)
      PROVE  SchemaAtResult(u, e) \in Tracers(Schemas)
  BY <1>3 DEF SchemaAtResult, Tracers, Results
<1>4. ASSUME NEW u \in Tracers(Schemas), e \in Results(Schemas)
      PROVE  SubmissionAtResult(u, e) \in Tracers(Schemas)
  <2>1. /\ e.counter \in Nat \union {Unseen} /\ e.accepted \in BOOLEAN
        /\ Append(u.submissions, e.accepted) \in Seq(BOOLEAN)
    BY <1>4 DEF Tracers, Results
  <2> QED BY <2>1 DEF SubmissionAtResult, Tracers
<1>5. CASE e \in Results(Schemas)
  <2>1. e.kind = "result" /\ e.decided  BY <1>5 DEF Results
  <2> QED BY <1>2, <1>3, <1>4, <1>5, <2>1 DEF Observe
<1>6. CASE e \in [kind : {"result"}, tool : Tools, schema : Schemas, decided : {FALSE}]
  BY <1>2, <1>6 DEF Observe
<1> QED BY <1>1, <1>5, <1>6 DEF Events

-----------------------------------------------------------------------------
(* A phase, call by call, and the tracer, event by event.                   *)
Phases(Schemas) == [s : Sessions(Schemas), events : Seq(Events(Schemas))]

FreshPhase == [s |-> FreshSession, events |-> <<>>]

(* Appending to a sequence keeps what is in it.                             *)
LEMMA Extended ==
  ASSUME NEW S, NEW seq \in Seq(S), NEW e \in S
  PROVE  /\ seq \o <<e>> = Append(seq, e)
         /\ Append(seq, e) \in Seq(S)
         /\ Len(Append(seq, e)) = Len(seq) + 1
         /\ \A k \in 1 .. Len(seq) : Append(seq, e)[k] = seq[k]
         /\ Append(seq, e)[Len(seq) + 1] = e
OBVIOUS

(* A phase stays one, whatever is called in it.                             *)
LEMMA CallTyped ==
  ASSUME NEW Schemas, NEW call \in Calls(Schemas), NEW phase \in Phases(Schemas)
  PROVE  CallMade(phase, call) \in Phases(Schemas)
<1> DEFINE begun == phase.events \o <<Start(call)>>
<1>1. phase.s \in Sessions(Schemas) /\ phase.events \in Seq(Events(Schemas))
  BY DEF Phases
<1>2. Start(call) \in Events(Schemas)
  <2>1. call.tool \in Tools  BY DEF Calls, DirectCalls, PlanCalls, DraftCalls, Tools
  <2> QED BY <2>1 DEF Start, Events
<1>3. begun \in Seq(Events(Schemas))  BY <1>1, <1>2
<1> HIDE DEF begun
<1>4. CASE phase.s.cancelled  BY <1>4, CallShape
<1>5. CASE ~ phase.s.cancelled /\ ~ LetThrough(call)
  <2> DEFINE plan == IF call.tool = "submit_schema_plan" THEN Unseen ELSE phase.s.plan
  <2>1. CallMade(phase, call) = [s |-> [phase.s EXCEPT !.plan = plan], events |-> begun]
    BY <1>5, CallShape DEF LetThrough, begun
  <2>2. plan \in Schemas \union {Unseen}  BY <1>1, SessionFields
  <2> HIDE DEF plan
  <2>3. Unseen \in Endings \union {Unseen}  OBVIOUS
  <2>4. [phase.s EXCEPT !.plan = plan] \in Sessions(Schemas)
    BY <1>1, <2>2, <2>3, SessionUpdates
  <2> QED BY <1>3, <2>1, <2>4 DEF Phases
<1>6. CASE ~ phase.s.cancelled /\ LetThrough(call)
  <2> DEFINE o == Outcome(phase.s, call)
  <2>1. CallMade(phase, call) = [s |-> o.s, events |-> begun \o o.events]
    BY <1>6, CallShape DEF LetThrough, begun
  <2>2. o.s \in Sessions(Schemas) /\ Announces(Schemas, o.events)
    BY <1>1, <1>6, OutcomeTyped DEF OutcomeOf
  <2>3. o.events \in Seq(Events(Schemas))  BY <2>2 DEF Announces
  <2> HIDE DEF o
  <2>4. begun \o o.events \in Seq(Events(Schemas))  BY <1>3, <2>3
  <2> QED BY <2>1, <2>2, <2>4 DEF Phases
<1> QED BY <1>4, <1>5, <1>6

(* A phase and a tracer start as such.                                      *)
LEMMA FreshTyped ==
  ASSUME NEW Schemas
  PROVE  FreshPhase \in Phases(Schemas) /\ FreshTracer \in Tracers(Schemas)
BY DEF FreshPhase, FreshSession, Phases, Sessions, Events, FreshTracer, Tracers

\* What Phase folds the calls into.
Made(calls, n, f) ==
  f = [s \in SUBSET (1 .. n) |->
         IF s = {} THEN FreshPhase ELSE CallMade(f[s \ {Max(s)}], calls[Max(s)])]

(* A phase is what its calls make of it one after the other (Phase is a     *)
(* fold).                                                                  *)
LEMMA PhaseRuns ==
  ASSUME NEW Schemas, NEW calls \in Seq(Calls(Schemas))
  PROVE  \E r : /\ r[0] = FreshPhase
                /\ \A k \in 1 .. Len(calls) : r[k] = CallMade(r[k - 1], calls[k])
                /\ Phase(calls) = r[Len(calls)]
<1> DEFINE n == Len(calls)
           X == Phases(Schemas)
           step == [p \in (1 .. n) \X X |-> CallMade(p[2], calls[p[1]])]
           f == CHOOSE g : Made(calls, n, g)
<1>1. n \in Nat /\ DOMAIN calls = 1 .. n /\ \A k \in 1 .. n : calls[k] \in Calls(Schemas)
  OBVIOUS
<1> HIDE DEF n
<1>2. FreshPhase \in X  BY FreshTyped
<1>3. step \in [(1 .. n) \X X -> X]
  <2>1. \A k \in 1 .. n, x \in X : CallMade(x, calls[k]) \in X  BY <1>1, CallTyped
  <2> HIDE DEF X
  <2> QED BY <2>1
<1>4. PICK g \in [SUBSET (1 .. n) -> X] : Folding(step, FreshPhase, n, g)
  <2> HIDE DEF step, X
  <2> QED BY <1>1, <1>2, <1>3, FoldExists
<1>5. Made(calls, n, g)
  <2>1. ASSUME NEW s \in SUBSET (1 .. n), s # {}
        PROVE  step[<<Max(s), g[s \ {Max(s)}]>>] = CallMade(g[s \ {Max(s)}], calls[Max(s)])
    <3>1. Max(s) \in 1 .. n  BY <1>1, <2>1, LargestIsMember
    <3>2. g[s \ {Max(s)}] \in X
      <4> HIDE DEF X
      <4> QED OBVIOUS
    <3> HIDE DEF X
    <3> QED BY <3>1, <3>2
  <2> HIDE DEF step, X
  <2> QED BY <1>4, <2>1 DEF Folding, Made
<1>6. Made(calls, n, f)  BY <1>5
<1>7. Phase(calls) = f[1 .. n]
  BY <1>1 DEF Phase, FoldLeft, MapThenFoldSet, Made, FreshPhase
<1> HIDE DEF f
<1> DEFINE r == [k \in 0 .. n |-> f[1 .. k]]
<1>8. r[0] = FreshPhase
  <2>1. 1 .. 0 = {} /\ 0 \in 0 .. n  BY <1>1
  <2> QED BY <1>6, <2>1 DEF Made
<1>9. ASSUME NEW k \in 1 .. n PROVE r[k] = CallMade(r[k - 1], calls[k])
  <2>1. k \in 0 .. n /\ k - 1 \in 0 .. n  BY <1>1
  <2>2. /\ 1 .. k \in SUBSET (1 .. n) /\ 1 .. k # {}
        /\ Max(1 .. k) = k /\ (1 .. k) \ {k} = 1 .. (k - 1)
    BY <1>1, LastPosition
  <2>3. f[1 .. k] = CallMade(f[(1 .. k) \ {Max(1 .. k)}], calls[Max(1 .. k)])
    BY <1>6, <2>2 DEF Made
  <2> QED BY <2>1, <2>2, <2>3
<1>10. n \in 0 .. n /\ Phase(calls) = r[n]  BY <1>1, <1>7
<1> HIDE DEF r
<1> QED BY <1>8, <1>9, <1>10 DEF n

(* A call more is one more step of the phase, and so with the tracer.        *)
LEMMA PhaseAppends ==
  ASSUME NEW Schemas
  PROVE  /\ Phase(<<>>) = FreshPhase
         /\ \A calls \in Seq(Calls(Schemas)), call \in Calls(Schemas) :
              Phase(Append(calls, call)) = CallMade(Phase(calls), call)
<1>1. Phase(<<>>) = FreshPhase
  <2>1. <<>> \in Seq(Calls(Schemas)) /\ Len(<<>>) = 0  OBVIOUS
  <2> QED BY <2>1, PhaseRuns
<1>2. ASSUME NEW calls \in Seq(Calls(Schemas)), NEW call \in Calls(Schemas)
      PROVE  Phase(Append(calls, call)) = CallMade(Phase(calls), call)
  <2> DEFINE n == Len(calls)
             more == Append(calls, call)
  <2>1. /\ n \in Nat /\ more \in Seq(Calls(Schemas)) /\ Len(more) = n + 1
        /\ \A k \in 1 .. n : more[k] = calls[k]
        /\ more[n + 1] = call
    BY Extended
  <2> HIDE DEF n, more
  <2>2. PICK r : /\ r[0] = FreshPhase
                 /\ \A k \in 1 .. n : r[k] = CallMade(r[k - 1], calls[k])
                 /\ Phase(calls) = r[n]
    BY PhaseRuns DEF n
  <2>3. PICK q : /\ q[0] = FreshPhase
                 /\ \A k \in 1 .. (n + 1) : q[k] = CallMade(q[k - 1], more[k])
                 /\ Phase(more) = q[n + 1]
    BY <2>1, PhaseRuns
  <2> DEFINE Holds == {k \in Nat : k <= n => q[k] = r[k]}
  <2>4. 0 \in Holds  BY <2>2, <2>3
  <2>5. ASSUME NEW k \in Nat, k \in Holds PROVE k + 1 \in Holds
    <3>1. SUFFICES ASSUME k + 1 <= n PROVE q[k + 1] = r[k + 1]  OBVIOUS
    <3>2. k + 1 \in 1 .. n /\ k + 1 \in 1 .. (n + 1) /\ (k + 1) - 1 = k /\ k <= n
      BY <2>1, <3>1
    <3>3. q[k] = r[k]  BY <2>5, <3>2
    <3>4. q[k + 1] = CallMade(q[k], more[k + 1])  BY <2>3, <3>2
    <3>5. r[k + 1] = CallMade(r[k], calls[k + 1])  BY <2>2, <3>2
    <3> QED BY <2>1, <3>2, <3>3, <3>4, <3>5
  <2>6. Nat \subseteq Holds
    <3> HIDE DEF Holds
    <3> QED BY <2>4, <2>5, Induct
  <2>7. q[n] = r[n]  BY <2>1, <2>6
  <2>8. n + 1 \in 1 .. (n + 1) /\ (n + 1) - 1 = n  BY <2>1
  <2>9. q[n + 1] = CallMade(q[n], more[n + 1])  BY <2>3, <2>8
  <2> QED BY <2>1, <2>2, <2>3, <2>7, <2>9 DEF more
<1> QED BY <1>1, <1>2

\* The tracer after some events, and what it folds them into.
Watched(events) == FoldLeft(Observe, FreshTracer, events)

Seen(events, n, f) ==
  f = [s \in SUBSET (1 .. n) |->
         IF s = {} THEN FreshTracer ELSE Observe(f[s \ {Max(s)}], events[Max(s)])]

(* A tracer, too, takes its events one after the other.                     *)
LEMMA TracerRuns ==
  ASSUME NEW Schemas, NEW events \in Seq(Events(Schemas))
  PROVE  \E r : /\ r[0] = FreshTracer
                /\ \A k \in 1 .. Len(events) : r[k] = Observe(r[k - 1], events[k])
                /\ Watched(events) = r[Len(events)]
<1> DEFINE n == Len(events)
           X == Tracers(Schemas)
           step == [p \in (1 .. n) \X X |-> Observe(p[2], events[p[1]])]
           f == CHOOSE g : Seen(events, n, g)
<1>1. n \in Nat /\ DOMAIN events = 1 .. n /\ \A k \in 1 .. n : events[k] \in Events(Schemas)
  OBVIOUS
<1> HIDE DEF n
<1>2. FreshTracer \in X  BY FreshTyped
<1>3. step \in [(1 .. n) \X X -> X]
  <2>1. \A k \in 1 .. n, x \in X : Observe(x, events[k]) \in X  BY <1>1, ObserveTyped
  <2> HIDE DEF X
  <2> QED BY <2>1
<1>4. PICK g \in [SUBSET (1 .. n) -> X] : Folding(step, FreshTracer, n, g)
  <2> HIDE DEF step, X
  <2> QED BY <1>1, <1>2, <1>3, FoldExists
<1>5. Seen(events, n, g)
  <2>1. ASSUME NEW s \in SUBSET (1 .. n), s # {}
        PROVE  step[<<Max(s), g[s \ {Max(s)}]>>] = Observe(g[s \ {Max(s)}], events[Max(s)])
    <3>1. Max(s) \in 1 .. n  BY <1>1, <2>1, LargestIsMember
    <3>2. g[s \ {Max(s)}] \in X
      <4> HIDE DEF X
      <4> QED OBVIOUS
    <3> HIDE DEF X
    <3> QED BY <3>1, <3>2
  <2> HIDE DEF step, X
  <2> QED BY <1>4, <2>1 DEF Folding, Seen
<1>6. Seen(events, n, f)  BY <1>5
<1>7. Watched(events) = f[1 .. n]
  BY <1>1 DEF Watched, FoldLeft, MapThenFoldSet, Seen
<1> HIDE DEF f
<1> DEFINE r == [k \in 0 .. n |-> f[1 .. k]]
<1>8. r[0] = FreshTracer
  <2>1. 1 .. 0 = {} /\ 0 \in 0 .. n  BY <1>1
  <2> QED BY <1>6, <2>1 DEF Seen
<1>9. ASSUME NEW k \in 1 .. n PROVE r[k] = Observe(r[k - 1], events[k])
  <2>1. k \in 0 .. n /\ k - 1 \in 0 .. n  BY <1>1
  <2>2. /\ 1 .. k \in SUBSET (1 .. n) /\ 1 .. k # {}
        /\ Max(1 .. k) = k /\ (1 .. k) \ {k} = 1 .. (k - 1)
    BY <1>1, LastPosition
  <2>3. f[1 .. k] = Observe(f[(1 .. k) \ {Max(1 .. k)}], events[Max(1 .. k)])
    BY <1>6, <2>2 DEF Seen
  <2> QED BY <2>1, <2>2, <2>3
<1>10. n \in 0 .. n /\ Watched(events) = r[n]  BY <1>1, <1>7
<1> HIDE DEF r
<1> QED BY <1>8, <1>9, <1>10 DEF n

(* An event more is one more step of the tracer.                            *)
LEMMA TracerAppends ==
  ASSUME NEW Schemas
  PROVE  /\ Watched(<<>>) = FreshTracer
         /\ \A events \in Seq(Events(Schemas)), event \in Events(Schemas) :
              Watched(Append(events, event)) = Observe(Watched(events), event)
<1>1. Watched(<<>>) = FreshTracer
  <2>1. <<>> \in Seq(Events(Schemas)) /\ Len(<<>>) = 0  OBVIOUS
  <2> QED BY <2>1, TracerRuns
<1>2. ASSUME NEW events \in Seq(Events(Schemas)), NEW event \in Events(Schemas)
      PROVE  Watched(Append(events, event)) = Observe(Watched(events), event)
  <2> DEFINE n == Len(events)
             more == Append(events, event)
  <2>1. /\ n \in Nat /\ more \in Seq(Events(Schemas)) /\ Len(more) = n + 1
        /\ \A k \in 1 .. n : more[k] = events[k]
        /\ more[n + 1] = event
    BY Extended
  <2> HIDE DEF n, more
  <2>2. PICK r : /\ r[0] = FreshTracer
                 /\ \A k \in 1 .. n : r[k] = Observe(r[k - 1], events[k])
                 /\ Watched(events) = r[n]
    BY TracerRuns DEF n
  <2>3. PICK q : /\ q[0] = FreshTracer
                 /\ \A k \in 1 .. (n + 1) : q[k] = Observe(q[k - 1], more[k])
                 /\ Watched(more) = q[n + 1]
    BY <2>1, TracerRuns
  <2> DEFINE Holds == {k \in Nat : k <= n => q[k] = r[k]}
  <2>4. 0 \in Holds  BY <2>2, <2>3
  <2>5. ASSUME NEW k \in Nat, k \in Holds PROVE k + 1 \in Holds
    <3>1. SUFFICES ASSUME k + 1 <= n PROVE q[k + 1] = r[k + 1]  OBVIOUS
    <3>2. k + 1 \in 1 .. n /\ k + 1 \in 1 .. (n + 1) /\ (k + 1) - 1 = k /\ k <= n
      BY <2>1, <3>1
    <3>3. q[k] = r[k]  BY <2>5, <3>2
    <3>4. q[k + 1] = Observe(q[k], more[k + 1])  BY <2>3, <3>2
    <3>5. r[k + 1] = Observe(r[k], events[k + 1])  BY <2>2, <3>2
    <3> QED BY <2>1, <3>2, <3>3, <3>4, <3>5
  <2>6. Nat \subseteq Holds
    <3> HIDE DEF Holds
    <3> QED BY <2>4, <2>5, Induct
  <2>7. q[n] = r[n]  BY <2>1, <2>6
  <2>8. n + 1 \in 1 .. (n + 1) /\ (n + 1) - 1 = n  BY <2>1
  <2>9. q[n + 1] = Observe(q[n], more[n + 1])  BY <2>3, <2>8
  <2> QED BY <2>1, <2>2, <2>3, <2>7, <2>9 DEF more
<1> QED BY <1>1, <1>2

(* After any events the tracer is one.                                      *)
LEMMA WatchedTyped ==
  ASSUME NEW Schemas, NEW events \in Seq(Events(Schemas))
  PROVE  Watched(events) \in Tracers(Schemas)
<1> DEFINE n == Len(events)
<1>1. n \in Nat /\ \A k \in 1 .. n : events[k] \in Events(Schemas)  OBVIOUS
<1>2. PICK r : /\ r[0] = FreshTracer
               /\ \A k \in 1 .. n : r[k] = Observe(r[k - 1], events[k])
               /\ Watched(events) = r[n]
  BY TracerRuns
<1> HIDE DEF n
<1> DEFINE Holds == {k \in Nat : k <= n => r[k] \in Tracers(Schemas)}
<1>3. 0 \in Holds  BY <1>2, FreshTyped
<1>4. ASSUME NEW k \in Nat, k \in Holds PROVE k + 1 \in Holds
  <2>1. SUFFICES ASSUME k + 1 <= n PROVE r[k + 1] \in Tracers(Schemas)  OBVIOUS
  <2>2. k + 1 \in 1 .. n /\ (k + 1) - 1 = k /\ k <= n  BY <1>1, <2>1
  <2>3. r[k + 1] = Observe(r[k], events[k + 1])  BY <1>2, <2>2
  <2> QED BY <1>1, <1>4, <2>2, <2>3, ObserveTyped
<1>5. Nat \subseteq Holds
  <2> HIDE DEF Holds
  <2> QED BY <1>3, <1>4, Induct
<1> QED BY <1>1, <1>2, <1>5

-----------------------------------------------------------------------------
(* What a call changes in the tracer: its start, and the result announced.  *)
Announcement(call, accepted, froze, counter, compiled) ==
  [kind |-> "result", tool |-> call.tool, schema |-> call.schema, decided |-> TRUE,
   accepted |-> accepted, frozen |-> froze, counter |-> counter, compiled |-> compiled]

(* At a start the tracer only forgets the pending plan.                     *)
LEMMA StartWatched ==
  ASSUME NEW Schemas, NEW call \in Calls(Schemas), NEW t \in Tracers(Schemas)
  PROVE  /\ Start(call) \in Events(Schemas)
         /\ Observe(t, Start(call)) \in Tracers(Schemas)
         /\ Observe(t, Start(call)) =
              [t EXCEPT !.pending = IF call.tool = "submit_schema_plan" THEN Unseen ELSE @]
<1>1. Start(call) \in Events(Schemas)
  <2>1. call.tool \in Tools  BY DEF Calls, DirectCalls, PlanCalls, DraftCalls, Tools
  <2> QED BY <2>1 DEF Start, Events
<1>2. Observe(t, Start(call)) \in Tracers(Schemas)  BY <1>1, ObserveTyped
<1>3. Observe(t, Start(call)) =
        [t EXCEPT !.pending = IF call.tool = "submit_schema_plan" THEN Unseen ELSE @]
  BY DEF Observe, Start, FallbackAtStart, Tracers
<1> QED BY <1>1, <1>2, <1>3

(* At a result it takes over the schema, counts, and keeps the fallback.    *)
LEMMA ResultWatched ==
  ASSUME NEW Schemas, NEW e \in Results(Schemas), NEW t \in Tracers(Schemas)
  PROVE  LET v == Observe(t, e)
             kept == FallbackAtResult(t, e)
         IN  /\ v \in Tracers(Schemas)
             /\ v.frozenSchema =
                  IF e.accepted /\ e.frozen /\ t.frozenSchema = Unseen
                    THEN IF e.tool = "submit_result_schema" THEN e.schema ELSE e.compiled
                    ELSE t.frozenSchema
             /\ v.submissions =
                  IF \/ e.tool = "confirm_schema_plan"
                     \/ e.counter = Unseen /\ e.tool = "submit_schema_draft"
                     \/ e.counter # Unseen /\ e.counter <= t.last
                    THEN t.submissions ELSE Append(t.submissions, e.accepted)
             /\ v.last =
                  IF \/ e.tool = "confirm_schema_plan"
                     \/ e.counter = Unseen
                     \/ e.counter <= t.last
                    THEN t.last ELSE e.counter
             /\ v.pending = kept.pending
             /\ v.frozenFallback = kept.frozenFallback
             /\ v.hasFallback = kept.hasFallback
<1> DEFINE kept == FallbackAtResult(t, e)
           schema == SchemaAtResult(kept, e)
<1>1. e.kind = "result" /\ e.decided /\ e \in Events(Schemas)
  BY DEF Results, Events
<1>2. kept \in Tracers(Schemas)
  BY DEF FallbackAtResult, KeepPending, Keep, Tracers, Results
<1>3. /\ kept.frozenSchema = t.frozenSchema /\ kept.submissions = t.submissions
      /\ kept.last = t.last
  BY DEF FallbackAtResult, KeepPending, Keep, Tracers, Results
<1> HIDE DEF kept
<1>4. /\ schema \in Tracers(Schemas)
      /\ schema.frozenSchema =
           IF e.accepted /\ e.frozen /\ kept.frozenSchema = Unseen
             THEN IF e.tool = "submit_result_schema" THEN e.schema ELSE e.compiled
             ELSE kept.frozenSchema
      /\ schema.submissions = kept.submissions /\ schema.last = kept.last
      /\ schema.pending = kept.pending /\ schema.frozenFallback = kept.frozenFallback
      /\ schema.hasFallback = kept.hasFallback
  BY <1>2 DEF SchemaAtResult, Tracers, Results
<1> HIDE DEF schema
<1>5. Observe(t, e) = SubmissionAtResult(schema, e)
  BY <1>1 DEF Observe, kept, schema
<1> DEFINE v == SubmissionAtResult(schema, e)
<1>6. /\ v.frozenSchema = schema.frozenSchema /\ v.pending = schema.pending
      /\ v.frozenFallback = schema.frozenFallback /\ v.hasFallback = schema.hasFallback
  BY <1>4 DEF SubmissionAtResult, Tracers, Results
<1>7. v.submissions =
        IF \/ e.tool = "confirm_schema_plan"
           \/ e.counter = Unseen /\ e.tool = "submit_schema_draft"
           \/ e.counter # Unseen /\ e.counter <= schema.last
          THEN schema.submissions ELSE Append(schema.submissions, e.accepted)
  BY <1>4 DEF SubmissionAtResult, Tracers, Results
<1>8. v.last =
        IF \/ e.tool = "confirm_schema_plan"
           \/ e.counter = Unseen
           \/ e.counter <= schema.last
          THEN schema.last ELSE e.counter
  BY <1>4 DEF SubmissionAtResult, Tracers, Results
<1>9. v \in Tracers(Schemas)  BY <1>1, <1>5, ObserveTyped
<1> HIDE DEF v
<1> QED BY <1>3, <1>4, <1>5, <1>6, <1>7, <1>8, <1>9 DEF v, kept

-----------------------------------------------------------------------------
\* "Unseen" is none of the values it stands beside.
UnseenIsApart(Schemas) ==
  /\ Unseen \notin Schemas
  /\ Unseen \notin Nat
  /\ Unseen \notin Endings

(* How the session a tool leaves and the result it announces go together.   *)
Freezes(s, s2, e) ==
  IF e.accepted /\ e.frozen
    THEN /\ s.frozen = Unseen /\ s2.frozen # Unseen
         /\ s2.frozen = IF e.tool = "submit_result_schema" THEN e.schema ELSE e.compiled
    ELSE s2.frozen = s.frozen

\* What of the session has to do with counting is as it was.
SameCounts(s, s2) ==
  /\ s2.submitted = s.submitted /\ s2.first = s.first
  /\ s2.cancelled = s.cancelled /\ (s2.plan = Unseen \/ s2.plan = s.plan)

\* The session has counted the call, and remembers how the first one ended.
CountsIt(s, call, s2) ==
  /\ s2.submitted = s.submitted + 1 /\ s2.late = s.late
  /\ s2.first = IF s.first = Unseen THEN call.ending ELSE s.first
  /\ call.ending \in Endings

\* A result the tool decided: out of order, late, a confirmation, or counted.
Decided(s, call, s2, e) ==
  \/ /\ e.tool = "submit_result_schema" /\ ~ e.accepted
     /\ SameCounts(s, s2) /\ s2.late = s.late /\ e.counter = s.submitted
  \/ /\ e.tool = "submit_result_schema" /\ ~ e.accepted
     /\ SameCounts(s, s2) /\ s2.late = s.late + 1 /\ e.counter = Unseen /\ s.frozen # Unseen
  \/ /\ e.tool = "confirm_schema_plan"
     /\ SameCounts(s, s2) /\ s2.late = s.late /\ s2.plan = s.plan
     /\ e.accepted => e.frozen /\ s2.frozen = s.plan
     /\ s2.frozen # Unseen => s.frozen # Unseen \/ s.plan # Unseen
  \/ /\ e.tool # "confirm_schema_plan"
     /\ CountsIt(s, call, s2) /\ ~ s2.cancelled /\ e.counter = s.submitted + 1
     /\ s.frozen = Unseen => e.accepted = (call.ending = "accepted")
     /\ e.tool = "submit_schema_plan" =>
          ~ e.frozen /\ s2.plan = IF e.accepted THEN e.schema ELSE Unseen
     /\ e.tool # "submit_schema_plan" => s2.plan = s.plan
     /\ e.tool = "submit_schema_draft" =>
          (e.accepted => e.frozen) /\ e.schema # Unseen /\ e.compiled = IF e.accepted THEN e.schema ELSE Unseen

\* A cancelled submission: counted, and nothing else is known of it.
Undecided(s, call, s2, e) ==
  /\ e.tool = "submit_result_schema" /\ e.kind = "result" /\ ~ e.decided
  /\ call.ending = "cancelled" /\ CountsIt(s, call, s2) /\ s2.cancelled
  /\ s2.frozen = s.frozen /\ s2.plan = s.plan

\* The session a call leaves, beside the event it announces.
Follows(Schemas, s, call, s2, e) ==
  /\ e \in Events(Schemas) /\ e.tool = call.tool
  /\ \/ e \in Results(Schemas) /\ Freezes(s, s2, e) /\ Decided(s, call, s2, e)
     \/ Undecided(s, call, s2, e)

(* The fields of what a tool announces.                                     *)
LEMMA AnnouncementTyped ==
  ASSUME NEW Schemas, NEW call \in Calls(Schemas),
         NEW accepted \in BOOLEAN, NEW froze \in BOOLEAN,
         NEW counter \in Nat \union {Unseen}, NEW compiled \in Schemas \union {Unseen}
  PROVE  LET e == Announcement(call, accepted, froze, counter, compiled)
         IN  /\ Result(call, accepted, froze, counter, compiled) = <<e>>
             /\ e \in Results(Schemas) /\ e \in Events(Schemas)
             /\ e.tool = call.tool /\ e.schema = call.schema
             /\ e.accepted = accepted /\ e.frozen = froze
             /\ e.counter = counter /\ e.compiled = compiled
<1>1. call.tool \in Tools /\ call.schema \in Schemas \union {Unseen}
  BY DEF Calls, DirectCalls, PlanCalls, DraftCalls, Tools
<1> QED BY <1>1 DEF Announcement, Result, Results, Events

(* The fields of a counted session.                                         *)
LEMMA CountedFields ==
  ASSUME NEW Schemas, NEW s \in Sessions(Schemas), NEW call, call.ending \in Endings,
         ~ s.cancelled
  PROVE  LET counted == Counted(s, call.ending)
         IN  /\ CountsIt(s, call, counted) /\ counted.cancelled = FALSE
             /\ counted.frozen = s.frozen /\ counted.plan = s.plan
             /\ DOMAIN counted = DOMAIN s
             /\ counted \in Sessions(Schemas)
<1>1. Counted(s, call.ending) \in Sessions(Schemas)  BY CountedTyped
<1>2. s.cancelled = FALSE  BY DEF Sessions
<1> QED BY <1>1, <1>2 DEF Counted, CountsIt, Sessions

(* Every tool leaves the session its result tells of.                       *)
LEMMA OutcomeFollows ==
  ASSUME NEW Schemas, UnseenIsApart(Schemas),
         NEW s \in Sessions(Schemas), NEW call \in Calls(Schemas),
         LetThrough(call), ~ s.cancelled
  PROVE  \E e : /\ Outcome(s, call).events = <<e>>
                /\ Follows(Schemas, s, call, Outcome(s, call).s, e)
<1> DEFINE counted == Counted(s, call.ending)
           Ends(s2, e) == Follows(Schemas, s, call, s2, e)
<1>c. /\ s.submitted \in Nat /\ s.submitted + 1 \in Nat
      /\ s.frozen \in Schemas \union {Unseen} /\ s.plan \in Schemas \union {Unseen}
  BY SessionFields
<1>d. ASSUME call.ending \in Endings
      PROVE  /\ CountsIt(s, call, counted) /\ counted.cancelled = FALSE
             /\ counted.frozen = s.frozen /\ counted.plan = s.plan
             /\ counted \in Sessions(Schemas)
  BY <1>d, CountedFields
<1>e. ASSUME NEW s2, NEW accepted \in BOOLEAN, NEW froze \in BOOLEAN,
             NEW counter \in Nat \union {Unseen}, NEW compiled \in Schemas \union {Unseen},
             Outcome(s, call) =
               [s |-> s2, events |-> Result(call, accepted, froze, counter, compiled)],
             Ends(s2, Announcement(call, accepted, froze, counter, compiled))
      PROVE  \E e : Outcome(s, call).events = <<e>> /\ Ends(Outcome(s, call).s, e)
  <2> DEFINE e == Announcement(call, accepted, froze, counter, compiled)
  <2>1. Result(call, accepted, froze, counter, compiled) = <<e>>
    BY AnnouncementTyped
  <2>2. Ends(s2, e)  BY <1>e
  <2> HIDE DEF e, Ends
  <2>3. Outcome(s, call).events = <<e>> /\ Outcome(s, call).s = s2  BY <1>e, <2>1
  <2> QED BY <2>2, <2>3
<1>f. call.tool \in Tools /\ call.schema \in Schemas \union {Unseen}
  BY DEF Calls, DirectCalls, PlanCalls, DraftCalls, Tools
<1> HIDE DEF counted
<1>1. CASE call \in DirectCalls(Schemas)
  <2>0. /\ call.tool = "submit_result_schema" /\ call.schema \in Schemas
        /\ call.ending \in Endings \union {"arguments"}
        /\ Outcome(s, call) = DirectResult(s, call)
    BY <1>1 DEF LetThrough, DirectCalls, Endings, Outcome
  <2>1. CASE call.ending = "arguments"
    <3>1. DirectResult(s, call) = [s |-> s, events |-> Result(call, FALSE, FALSE, s.submitted, Unseen)]
      BY <2>1 DEF DirectResult
    <3>2. Ends(s, Announcement(call, FALSE, FALSE, s.submitted, Unseen))
      <4> DEFINE e == Announcement(call, FALSE, FALSE, s.submitted, Unseen)
      <4>1. /\ e \in Results(Schemas) /\ e \in Events(Schemas)
           /\ e.tool = call.tool /\ e.schema = call.schema
           /\ e.accepted = FALSE /\ e.frozen = FALSE /\ e.counter = s.submitted /\ e.compiled = Unseen
        BY <2>0, <1>c, <1>f DEF Announcement, Results, Events
      <4> HIDE DEF e
      <4>2. Freezes(s, s, e)  BY <2>0, <1>c, <4>1 DEF Freezes
      <4>3. Decided(s, call, s, e)  BY <2>0, <1>c, <4>1 DEF Decided, SameCounts
      <4> QED BY <4>1, <4>2, <4>3 DEF Follows, e
    <3> QED BY <2>0, <3>1, <3>2, <1>c, <1>e
  <2>2. CASE call.ending # "arguments" /\ s.frozen # Unseen
    <3>1. DirectResult(s, call) = [s |-> [s EXCEPT !.late = @ + 1],
                                   events |-> Result(call, FALSE, TRUE, Unseen, Unseen)]
      BY <2>2 DEF DirectResult
    <3>2. Ends([s EXCEPT !.late = @ + 1], Announcement(call, FALSE, TRUE, Unseen, Unseen))
      <4> DEFINE s2 == [s EXCEPT !.late = @ + 1]
      <4>1. s2.late = s.late + 1 /\ SameCounts(s, s2) /\ s2.frozen = s.frozen
        BY DEF SameCounts, Sessions
      <4> DEFINE e == Announcement(call, FALSE, TRUE, Unseen, Unseen)
      <4>2. /\ e \in Results(Schemas) /\ e \in Events(Schemas)
            /\ e.tool = call.tool /\ e.accepted = FALSE /\ e.counter = Unseen
        BY <1>f DEF Announcement, Results, Events
      <4> HIDE DEF s2, e
      <4>3. Freezes(s, s2, e)  BY <4>1, <4>2 DEF Freezes
      <4>4. Decided(s, call, s2, e)  BY <2>0, <2>2, <4>1, <4>2 DEF Decided
      <4>5. Ends(s2, e)  BY <4>2, <4>3, <4>4 DEF Follows
      <4> QED BY <4>5 DEF s2, e
    <3> QED BY <2>0, <3>1, <3>2, <1>e
  <2>3. CASE call.ending = "rejected" /\ s.frozen = Unseen
    <3>1. DirectResult(s, call) = [s |-> counted,
                                   events |-> Result(call, FALSE, FALSE, counted.submitted, Unseen)]
      BY <2>3 DEF DirectResult, counted, Counted
    <3>2. call.ending \in Endings  BY <2>3 DEF Endings
    <3>3. counted.submitted = s.submitted + 1  BY <1>d, <3>2 DEF CountsIt
    <3>4. Ends(counted, Announcement(call, FALSE, FALSE, counted.submitted, Unseen))
      <4> DEFINE e == Announcement(call, FALSE, FALSE, counted.submitted, Unseen)
      <4>1. /\ e \in Results(Schemas) /\ e \in Events(Schemas)
           /\ e.tool = call.tool /\ e.schema = call.schema
           /\ e.accepted = FALSE /\ e.frozen = FALSE /\ e.counter = counted.submitted /\ e.compiled = Unseen
        BY <2>0, <2>3, <3>2, <3>3, <1>c, <1>d, <1>f DEF Announcement, Results, Events
      <4> HIDE DEF e
      <4>2. Freezes(s, counted, e)  BY <2>0, <2>3, <3>2, <3>3, <1>c, <1>d, <4>1 DEF Freezes
      <4>3. Decided(s, call, counted, e)  BY <2>0, <2>3, <3>2, <3>3, <1>c, <1>d, <4>1 DEF Decided
      <4> QED BY <4>1, <4>2, <4>3 DEF Follows, e
    <3> QED BY <2>0, <3>1, <3>3, <3>4, <1>c, <1>e
  <2>4. CASE call.ending = "accepted" /\ s.frozen = Unseen
    <3> DEFINE s2 == [counted EXCEPT !.frozen = call.schema]
    <3>1. DirectResult(s, call) = [s |-> s2,
                                   events |-> Result(call, TRUE, TRUE, counted.submitted, Unseen)]
      BY <2>4 DEF DirectResult, counted, Counted
    <3>2. call.ending \in Endings  BY <2>4 DEF Endings
    <3>3. counted.submitted = s.submitted + 1  BY <1>d, <3>2 DEF CountsIt
    <3>4. /\ CountsIt(s, call, s2) /\ s2.cancelled = FALSE
          /\ s2.frozen = call.schema /\ s2.plan = s.plan
      BY <1>d, <3>2 DEF CountsIt, Sessions
    <3>5. call.schema # Unseen  BY <2>0 DEF UnseenIsApart
    <3> HIDE DEF s2
    <3>6. Ends(s2, Announcement(call, TRUE, TRUE, counted.submitted, Unseen))
      <4> DEFINE e == Announcement(call, TRUE, TRUE, counted.submitted, Unseen)
      <4>1. /\ e \in Results(Schemas) /\ e \in Events(Schemas)
           /\ e.tool = call.tool /\ e.schema = call.schema
           /\ e.accepted = TRUE /\ e.frozen = TRUE /\ e.counter = counted.submitted /\ e.compiled = Unseen
        BY <2>0, <2>4, <3>3, <3>4, <3>5, <1>c, <1>f DEF Announcement, Results, Events
      <4> HIDE DEF e
      <4>2. Freezes(s, s2, e)  BY <2>0, <2>4, <3>3, <3>4, <3>5, <1>c, <4>1 DEF Freezes
      <4>3. Decided(s, call, s2, e)  BY <2>0, <2>4, <3>3, <3>4, <3>5, <1>c, <4>1 DEF Decided
      <4> QED BY <4>1, <4>2, <4>3 DEF Follows, e
    <3> QED BY <2>0, <3>1, <3>3, <3>6, <1>c, <1>e
  <2>5. CASE call.ending = "cancelled" /\ s.frozen = Unseen
    <3> DEFINE e == [kind |-> "result", tool |-> call.tool, schema |-> call.schema,
                     decided |-> FALSE]
               s2 == [counted EXCEPT !.cancelled = TRUE]
    <3>1. DirectResult(s, call) = [s |-> s2, events |-> <<e>>]
      BY <2>5 DEF DirectResult, counted, Counted
    <3>2. call.ending \in Endings  BY <2>5 DEF Endings
    <3>3. /\ CountsIt(s, call, s2) /\ s2.cancelled = TRUE
          /\ s2.frozen = s.frozen /\ s2.plan = s.plan
      BY <1>d, <3>2 DEF CountsIt, Sessions
    <3>4. /\ e \in Events(Schemas) /\ e.tool = call.tool /\ e.kind = "result"
          /\ e.decided = FALSE
      BY <2>0 DEF Events, Tools
    <3> HIDE DEF e, s2
    <3>5. Ends(s2, e)  BY <2>0, <2>5, <3>3, <3>4 DEF Follows, Undecided
    <3> QED BY <2>0, <3>1, <3>5
  <2> QED BY <2>0, <2>1, <2>2, <2>3, <2>4, <2>5 DEF Endings
<1>2. CASE call \in PlanCalls(Schemas)
  <2> DEFINE accepted == call.ending = "accepted"
             plan == IF accepted THEN call.schema ELSE Unseen
             planned == [counted EXCEPT !.plan = plan]
             confirmed == call.ending = "accepted" /\ s.plan # Unseen /\ s.frozen = Unseen
  <2>0. /\ call.tool \in {"submit_schema_plan", "confirm_schema_plan"}
        /\ call.tool = "submit_schema_plan" => call.schema \in Schemas
        /\ call.ending \in {"rejected", "accepted"} /\ call.ending \in Endings
        /\ Outcome(s, call) = PlanResult(s, call)
    BY <1>2 DEF LetThrough, PlanCalls, Endings, Outcome
  <2>1. CASE call.tool = "submit_schema_plan"
    <3>1. PlanResult(s, call) =
            [s |-> planned,
             events |-> Result(call, accepted, FALSE, planned.submitted, planned.plan)]
      BY <2>1 DEF PlanResult, counted, Counted
    <3>2. plan \in Schemas \union {Unseen}  BY <2>0, <2>1
    <3>3. accepted \in BOOLEAN /\ plan = IF accepted THEN call.schema ELSE Unseen  OBVIOUS
    <3>4. accepted = (call.ending = "accepted")  OBVIOUS
    <3> HIDE DEF accepted, plan
    <3>5. /\ CountsIt(s, call, planned) /\ planned.cancelled = FALSE
          /\ planned.frozen = s.frozen /\ planned.plan = plan
          /\ planned.submitted = s.submitted + 1
      BY <1>d, <2>0 DEF CountsIt, Sessions
    <3> HIDE DEF planned
    <3>6. Ends(planned, Announcement(call, accepted, FALSE, planned.submitted, planned.plan))
      <4> DEFINE e == Announcement(call, accepted, FALSE, planned.submitted, planned.plan)
      <4>1. /\ e \in Results(Schemas) /\ e \in Events(Schemas)
           /\ e.tool = call.tool /\ e.schema = call.schema
           /\ e.accepted = accepted /\ e.frozen = FALSE /\ e.counter = planned.submitted /\ e.compiled = planned.plan
        BY <2>0, <2>1, <3>2, <3>3, <3>4, <3>5, <1>c, <1>f DEF Announcement, Results, Events
      <4> HIDE DEF e
      <4>2. Freezes(s, planned, e)  BY <2>0, <2>1, <3>2, <3>3, <3>4, <3>5, <1>c, <4>1 DEF Freezes
      <4>3. Decided(s, call, planned, e)  BY <2>0, <2>1, <3>2, <3>3, <3>4, <3>5, <1>c, <4>1 DEF Decided
      <4> QED BY <4>1, <4>2, <4>3 DEF Follows, e
    <3> QED BY <2>0, <3>1, <3>2, <3>3, <3>5, <3>6, <1>c, <1>e
  <2>2. CASE call.tool = "confirm_schema_plan"
    <3> DEFINE s2 == IF confirmed THEN [s EXCEPT !.frozen = s.plan] ELSE s
               compiled == IF confirmed THEN s.plan ELSE Unseen
    <3>1. PlanResult(s, call) =
            [s |-> s2, events |-> Result(call, confirmed, confirmed, Unseen, compiled)]
      BY <2>2 DEF PlanResult
    <3>2. compiled \in Schemas \union {Unseen}  BY <1>c
    <3>3. confirmed \in BOOLEAN  OBVIOUS
    <3>4. confirmed => /\ s.plan # Unseen /\ s.frozen = Unseen
                       /\ compiled = s.plan /\ s2.frozen = s.plan
      BY DEF Sessions
    <3>5. ~ confirmed => s2.frozen = s.frozen  OBVIOUS
    <3>6. SameCounts(s, s2) /\ s2.late = s.late /\ s2.plan = s.plan
      BY DEF SameCounts, Sessions
    <3> HIDE DEF confirmed, s2, compiled
    <3>7. Ends(s2, Announcement(call, confirmed, confirmed, Unseen, compiled))
      <4> DEFINE e == Announcement(call, confirmed, confirmed, Unseen, compiled)
      <4>1. /\ e \in Results(Schemas) /\ e \in Events(Schemas)
           /\ e.tool = call.tool /\ e.schema = call.schema
           /\ e.accepted = confirmed /\ e.frozen = confirmed /\ e.counter = Unseen /\ e.compiled = compiled
        BY <2>2, <3>2, <3>3, <3>4, <3>5, <3>6, <1>f DEF Announcement, Results, Events
      <4> HIDE DEF e
      <4>2. Freezes(s, s2, e)  BY <2>2, <3>2, <3>3, <3>4, <3>5, <3>6, <4>1 DEF Freezes
      <4>3. Decided(s, call, s2, e)  BY <2>2, <3>2, <3>3, <3>4, <3>5, <3>6, <4>1 DEF Decided
      <4> QED BY <4>1, <4>2, <4>3 DEF Follows, e
    <3> QED BY <2>0, <3>1, <3>2, <3>3, <3>7, <1>e
  <2> QED BY <2>0, <2>1, <2>2
<1>3. CASE call \in DraftCalls(Schemas)
  <2> DEFINE accepted == call.ending = "accepted" /\ s.frozen = Unseen
             s2 == IF accepted THEN [counted EXCEPT !.frozen = call.schema] ELSE counted
             compiled == IF accepted THEN call.schema ELSE Unseen
  <2>0. /\ call.tool = "submit_schema_draft" /\ call.schema \in Schemas
        /\ call.ending \in {"rejected", "accepted"} /\ call.ending \in Endings
        /\ Outcome(s, call) = DraftResult(s, call)
    BY <1>3 DEF LetThrough, DraftCalls, Endings, Outcome
  <2>1. DraftResult(s, call) =
          [s |-> s2, events |-> Result(call, accepted, accepted, counted.submitted, compiled)]
    BY DEF DraftResult, counted, Counted
  <2>2. compiled \in Schemas \union {Unseen} /\ accepted \in BOOLEAN  BY <2>0
  <2>3. accepted => /\ s.frozen = Unseen /\ s2.frozen = call.schema /\ call.schema # Unseen
    BY <1>d, <2>0 DEF Sessions, UnseenIsApart
  <2>4. ~ accepted => s2.frozen = s.frozen  BY <1>d, <2>0
  <2>5. /\ CountsIt(s, call, s2) /\ s2.cancelled = FALSE /\ s2.plan = s.plan
        /\ counted.submitted = s.submitted + 1
    BY <1>d, <2>0 DEF CountsIt, Sessions
  <2>6. s.frozen = Unseen => accepted = (call.ending = "accepted")  OBVIOUS
  <2>7. compiled = (IF accepted THEN call.schema ELSE Unseen) /\ call.schema # Unseen
    BY <2>0 DEF UnseenIsApart
  <2> HIDE DEF accepted, s2, compiled
  <2>8. Ends(s2, Announcement(call, accepted, accepted, counted.submitted, compiled))
    <3> DEFINE e == Announcement(call, accepted, accepted, counted.submitted, compiled)
    <3>1. /\ e \in Results(Schemas) /\ e \in Events(Schemas)
         /\ e.tool = call.tool /\ e.schema = call.schema
         /\ e.accepted = accepted /\ e.frozen = accepted /\ e.counter = counted.submitted /\ e.compiled = compiled
      BY <2>0, <2>2, <2>3, <2>4, <2>5, <2>6, <2>7, <1>c, <1>f DEF Announcement, Results, Events
    <3> HIDE DEF e
    <3>2. Freezes(s, s2, e)  BY <2>0, <2>2, <2>3, <2>4, <2>5, <2>6, <2>7, <1>c, <3>1 DEF Freezes
    <3>3. Decided(s, call, s2, e)  BY <2>0, <2>2, <2>3, <2>4, <2>5, <2>6, <2>7, <1>c, <3>1 DEF Decided
    <3> QED BY <3>1, <3>2, <3>3 DEF Follows, e
  <2> QED BY <2>0, <2>1, <2>2, <2>5, <2>8, <1>c, <1>e
<1> QED BY <1>1, <1>2, <1>3 DEF Calls
-----------------------------------------------------------------------------
(* The tracer knows what the session froze, and every submission it counted *)
(* and answered; "late" calls are the ones a session does not count.        *)
FirstSeen(first, submissions) ==
  first \in {"accepted", "rejected"} =>
    submissions # <<>> /\ submissions[1] = (first = "accepted")

Together(s, t) ==
  /\ t.frozenSchema = s.frozen
  /\ s.cancelled => Len(t.submissions) + 1 = s.submitted + s.late /\ s.submitted > 0
  /\ ~ s.cancelled => Len(t.submissions) = s.submitted + s.late /\ t.last = s.submitted
  /\ s.first = Unseen <=> s.submitted = 0
  /\ s.plan # Unseen \/ s.frozen # Unseen \/ s.late > 0 => s.submitted > 0
  /\ FirstSeen(s.first, t.submissions)

(* The first submission stays the first.                                    *)
LEMMA AppendedFirst ==
  ASSUME NEW seq \in Seq(BOOLEAN), NEW b \in BOOLEAN
  PROVE  /\ Append(seq, b) \in Seq(BOOLEAN) /\ Append(seq, b) # <<>>
         /\ Len(Append(seq, b)) = Len(seq) + 1
         /\ Append(seq, b)[1] = IF seq = <<>> THEN b ELSE seq[1]
<1>1. /\ Append(seq, b) \in Seq(BOOLEAN) /\ Append(seq, b) # <<>>
      /\ Len(Append(seq, b)) = Len(seq) + 1
  OBVIOUS
<1>2. CASE seq = <<>>  BY <1>1, <1>2
<1>3. CASE seq # <<>>
  <2>1. Len(seq) \in Nat /\ Len(seq) # 0  BY <1>3
  <2>2. 1 \in 1 .. Len(seq)  BY <2>1
  <2> QED BY <1>1, <1>3, <2>2
<1> QED BY <1>1, <1>2, <1>3

(* A counted submission that the tracer appends leaves them together.       *)
LEMMA SubmissionTogether ==
  ASSUME NEW Schemas, UnseenIsApart(Schemas),
         NEW s \in Sessions(Schemas), NEW t \in Tracers(Schemas), NEW ending \in Endings,
         NEW s2 \in Sessions(Schemas), NEW v \in Tracers(Schemas), NEW b \in BOOLEAN,
         ~ s.cancelled, Together(s, t),
         s2.submitted = s.submitted + 1, s2.late = s.late, ~ s2.cancelled,
         s2.first = IF s.first = Unseen THEN ending ELSE s.first,
         s.first = Unseen => b = (ending = "accepted"),
         v.submissions = Append(t.submissions, b),
         v.last = s.submitted + 1, v.frozenSchema = s2.frozen
  PROVE  Together(s2, v)
<1>1. s.submitted \in Nat /\ s.late \in Nat /\ s.first \in Endings \union {Unseen}
  BY DEF Sessions
<1>2. t.submissions \in Seq(BOOLEAN)  BY DEF Tracers
<1>3. /\ Len(t.submissions) = s.submitted + s.late
      /\ s.first = Unseen <=> s.submitted = 0
      /\ s.late > 0 => s.submitted > 0
      /\ FirstSeen(s.first, t.submissions)
  BY <1>1 DEF Together
<1>4. s2.first # Unseen  BY <1>1 DEF UnseenIsApart
<1>5. Len(v.submissions) = Len(t.submissions) + 1 /\ v.submissions # <<>>
  BY <1>2, AppendedFirst
<1>c. /\ v.frozenSchema = s2.frozen
      /\ Len(v.submissions) = s2.submitted + s2.late /\ v.last = s2.submitted
      /\ s2.first = Unseen <=> s2.submitted = 0
      /\ s2.plan # Unseen \/ s2.frozen # Unseen \/ s2.late > 0 => s2.submitted > 0
  <2>1. s2.submitted = s.submitted + 1 /\ s2.submitted > 0 /\ s2.submitted # 0
    BY <1>1
  <2>2. Len(v.submissions) = s2.submitted + s2.late
    <3>1. Len(v.submissions) = (s.submitted + s.late) + 1  BY <1>3, <1>5
    <3> QED BY <1>1, <2>1, <3>1
  <2> QED BY <1>4, <2>1, <2>2
<1>6. CASE s.first = Unseen
  <2>1. Len(t.submissions) = 0  BY <1>1, <1>3, <1>6
  <2>2. t.submissions = <<>>  BY <1>2, <2>1
  <2>3. v.submissions[1] = (s2.first = "accepted")  BY <1>2, <1>6, <2>2, AppendedFirst
  <2>4. FirstSeen(s2.first, v.submissions)  BY <1>5, <2>3 DEF FirstSeen
  <2> QED BY <1>c, <2>4 DEF Together
<1>7. CASE s.first # Unseen
  <2>1. s2.first = s.first  BY <1>7
  <2>2. t.submissions # <<>> => v.submissions[1] = t.submissions[1]  BY <1>2, AppendedFirst
  <2>3. FirstSeen(s2.first, v.submissions)  BY <1>3, <1>5, <2>1, <2>2 DEF FirstSeen
  <2> QED BY <1>c, <2>3 DEF Together
<1> QED BY <1>6, <1>7

(* So does every call that is let through to its tool.                      *)
LEMMA FollowedTogether ==
  ASSUME NEW Schemas, UnseenIsApart(Schemas), NEW call, NEW e,
         NEW s \in Sessions(Schemas), NEW s2 \in Sessions(Schemas),
         NEW t \in Tracers(Schemas),
         ~ s.cancelled, Together(s, t), Follows(Schemas, s, call, s2, e)
  PROVE  Together(s2, Observe(t, e))
<1> DEFINE v == Observe(t, e)
<1> SUFFICES Together(s2, v)  OBVIOUS
<1>1. /\ s.submitted \in Nat /\ s.late \in Nat /\ s.first \in Endings \union {Unseen}
      /\ s.cancelled = FALSE
      /\ s2.submitted \in Nat /\ s2.late \in Nat
      /\ t.submissions \in Seq(BOOLEAN) /\ t.last \in Nat
  BY DEF Sessions, Tracers
<1>2. /\ t.frozenSchema = s.frozen /\ t.last = s.submitted
      /\ Len(t.submissions) = s.submitted + s.late
      /\ s.first = Unseen <=> s.submitted = 0
      /\ s.plan # Unseen \/ s.frozen # Unseen \/ s.late > 0 => s.submitted > 0
      /\ FirstSeen(s.first, t.submissions)
  BY <1>1 DEF Together
<1>3. CASE Undecided(s, call, s2, e)
  <2>1. v = t
    BY <1>3 DEF v, Observe, FallbackAtResult, Undecided
  <2>2. /\ s2.submitted = s.submitted + 1 /\ s2.late = s.late /\ s2.cancelled
        /\ s2.first = (IF s.first = Unseen THEN "cancelled" ELSE s.first)
        /\ s2.frozen = s.frozen
    BY <1>3 DEF Undecided, CountsIt
  <2>3. Len(t.submissions) + 1 = s2.submitted + s2.late /\ s2.submitted > 0
    BY <1>1, <1>2, <2>2
  <2>4. s2.first # Unseen  BY <2>2 DEF UnseenIsApart, Endings
  <2>5. FirstSeen(s2.first, t.submissions)  BY <1>2, <2>2 DEF FirstSeen
  <2> HIDE DEF v
  <2> QED BY <1>1, <1>2, <2>1, <2>2, <2>3, <2>4, <2>5 DEF Together
<1>4. CASE e \in Results(Schemas) /\ Freezes(s, s2, e) /\ Decided(s, call, s2, e)
  <2>1. /\ v \in Tracers(Schemas)
        /\ v.frozenSchema =
             IF e.accepted /\ e.frozen /\ t.frozenSchema = Unseen
               THEN IF e.tool = "submit_result_schema" THEN e.schema ELSE e.compiled
               ELSE t.frozenSchema
        /\ v.submissions =
             IF \/ e.tool = "confirm_schema_plan"
                \/ e.counter = Unseen /\ e.tool = "submit_schema_draft"
                \/ e.counter # Unseen /\ e.counter <= t.last
               THEN t.submissions ELSE Append(t.submissions, e.accepted)
        /\ v.last =
             IF \/ e.tool = "confirm_schema_plan"
                \/ e.counter = Unseen
                \/ e.counter <= t.last
               THEN t.last ELSE e.counter
    BY <1>4, ResultWatched DEF v
  <2> HIDE DEF v
  <2>2. v.frozenSchema = s2.frozen  BY <1>2, <1>4, <2>1 DEF Freezes
  <2>3. e.accepted \in BOOLEAN  BY <1>4 DEF Results
  <2>4. CASE /\ e.tool = "submit_result_schema" /\ ~ e.accepted
             /\ SameCounts(s, s2) /\ s2.late = s.late /\ e.counter = s.submitted
    <3>1. e.counter # Unseen /\ e.counter <= t.last
      BY <1>1, <1>2, <2>4 DEF UnseenIsApart
    <3>2. v.submissions = t.submissions /\ v.last = t.last  BY <2>1, <3>1
    <3>3. s2.frozen = s.frozen  BY <1>4, <2>4 DEF Freezes
    <3>4. /\ s2.submitted = s.submitted /\ s2.first = s.first /\ s2.cancelled = FALSE
          /\ s2.late = s.late /\ (s2.plan = Unseen \/ s2.plan = s.plan)
      BY <1>1, <2>4 DEF SameCounts
    <3> QED BY <1>1, <1>2, <2>2, <3>2, <3>3, <3>4 DEF Together
  <2>5. CASE /\ e.tool = "submit_result_schema" /\ ~ e.accepted
             /\ SameCounts(s, s2) /\ s2.late = s.late + 1 /\ e.counter = Unseen
             /\ s.frozen # Unseen
    <3>1. v.submissions = Append(t.submissions, e.accepted) /\ v.last = t.last
      BY <2>1, <2>5
    <3>2. /\ Len(v.submissions) = Len(t.submissions) + 1 /\ v.submissions # <<>>
          /\ t.submissions # <<>> => v.submissions[1] = t.submissions[1]
      BY <1>1, <2>3, <3>1, AppendedFirst
    <3>3. s2.frozen = s.frozen  BY <1>4, <2>5 DEF Freezes
    <3>4. /\ s2.submitted = s.submitted /\ s2.first = s.first /\ s2.cancelled = FALSE
          /\ s2.late = s.late + 1 /\ s.submitted > 0
      BY <1>1, <1>2, <2>5 DEF SameCounts
    <3>5. Len(v.submissions) = s2.submitted + s2.late
      BY <1>1, <1>2, <3>2, <3>4
    <3>6. FirstSeen(s2.first, v.submissions)  BY <1>2, <3>2, <3>4 DEF FirstSeen
    <3> QED BY <1>1, <1>2, <2>2, <3>1, <3>2, <3>3, <3>4, <3>5, <3>6 DEF Together
  <2>6. CASE /\ e.tool = "confirm_schema_plan"
             /\ SameCounts(s, s2) /\ s2.late = s.late /\ s2.plan = s.plan
             /\ s2.frozen # Unseen => s.frozen # Unseen \/ s.plan # Unseen
    <3>1. v.submissions = t.submissions /\ v.last = t.last  BY <2>1, <2>6
    <3>2. /\ s2.submitted = s.submitted /\ s2.first = s.first /\ s2.cancelled = FALSE
          /\ s2.late = s.late /\ s2.plan = s.plan
      BY <1>1, <2>6 DEF SameCounts
    <3> QED BY <1>1, <1>2, <2>2, <2>6, <3>1, <3>2 DEF Together
  <2>7. CASE /\ e.tool # "confirm_schema_plan"
             /\ CountsIt(s, call, s2) /\ ~ s2.cancelled /\ e.counter = s.submitted + 1
             /\ s.frozen = Unseen => e.accepted = (call.ending = "accepted")
    <3>1. e.counter \in Nat /\ e.counter # Unseen /\ ~ (e.counter <= t.last)
      BY <1>1, <1>2, <2>7 DEF UnseenIsApart
    <3>2. v.submissions = Append(t.submissions, e.accepted) /\ v.last = s.submitted + 1
      BY <2>1, <2>7, <3>1
    <3>3. s.first = Unseen => s.frozen = Unseen  BY <1>1, <1>2
    <3>4. /\ s2.submitted = s.submitted + 1 /\ s2.late = s.late /\ ~ s2.cancelled
          /\ s2.first = (IF s.first = Unseen THEN call.ending ELSE s.first)
          /\ call.ending \in Endings
      BY <2>7 DEF CountsIt
    <3>5. s.first = Unseen => e.accepted = (call.ending = "accepted")  BY <2>7, <3>3
    <3> QED BY <2>1, <2>2, <2>3, <3>2, <3>4, <3>5, SubmissionTogether
  <2> QED BY <1>4, <2>4, <2>5, <2>6, <2>7 DEF Decided
<1> QED BY <1>3, <1>4 DEF Follows

(* The fallback names the tracer holds are those of what was frozen, and    *)
(* until then it knows which plan is pending.                              *)
FallbackKept(s, t) ==
  /\ t.frozenFallback = s.frozen
  /\ t.hasFallback = (s.frozen # Unseen)
  /\ s.frozen = Unseen => t.pending = s.plan

(* Without a direct submission the fallback names are kept, too.            *)
LEMMA FollowedFallback ==
  ASSUME NEW Schemas, NEW call, NEW e \in Results(Schemas),
         NEW s \in Sessions(Schemas), NEW s2 \in Sessions(Schemas),
         NEW t \in Tracers(Schemas),
         e.tool # "submit_result_schema",
         Freezes(s, s2, e), Decided(s, call, s2, e),
         t.frozenFallback = s.frozen, t.hasFallback = (s.frozen # Unseen),
         e.tool # "submit_schema_plan" /\ s.frozen = Unseen => t.pending = s.plan
  PROVE  FallbackKept(s2, Observe(t, e))
<1> DEFINE kept == FallbackAtResult(t, e)
           v == Observe(t, e)
<1>1. /\ v.pending = kept.pending /\ v.frozenFallback = kept.frozenFallback
      /\ v.hasFallback = kept.hasFallback
  BY ResultWatched
<1> SUFFICES FallbackKept(s2, v)  OBVIOUS
<1>d. e.decided = TRUE /\ e.accepted \in BOOLEAN /\ e.frozen \in BOOLEAN  BY DEF Results
<1>2. CASE /\ e.tool = "confirm_schema_plan" /\ s2.plan = s.plan
           /\ e.accepted => e.frozen /\ s2.frozen = s.plan
  <2>1. CASE e.accepted
    <3>1. s.frozen = Unseen /\ s2.frozen # Unseen /\ s2.frozen = s.plan /\ e.frozen
      BY <1>2, <2>1 DEF Freezes
    <3>2. t.pending = s.plan /\ t.hasFallback = FALSE  BY <1>2, <3>1
    <3>3. kept = KeepPending(t)
      BY <1>2, <1>d, <2>1, <3>1 DEF FallbackAtResult
    <3>4. kept.frozenFallback = t.pending /\ kept.hasFallback = (t.pending # Unseen)
      BY <3>2, <3>3 DEF KeepPending, Keep, Tracers
    <3> HIDE DEF kept, v
    <3> QED BY <1>1, <3>1, <3>2, <3>4 DEF FallbackKept
  <2>2. CASE ~ e.accepted
    <3>1. kept = t  BY <1>2, <1>d, <2>2 DEF FallbackAtResult
    <3>2. s2.frozen = s.frozen  BY <2>2 DEF Freezes
    <3> HIDE DEF kept, v
    <3> QED BY <1>1, <1>2, <3>1, <3>2 DEF FallbackKept
  <2> QED BY <2>1, <2>2
<1>3. CASE /\ e.tool = "submit_schema_plan" /\ ~ e.frozen
           /\ s2.plan = IF e.accepted THEN e.schema ELSE Unseen
  <2>1. s2.frozen = s.frozen  BY <1>3 DEF Freezes
  <2>2. /\ kept.pending = IF e.accepted THEN e.schema ELSE Unseen
        /\ kept.frozenFallback = t.frozenFallback /\ kept.hasFallback = t.hasFallback
    BY <1>3, <1>d DEF FallbackAtResult, Tracers
  <2> HIDE DEF kept, v
  <2> QED BY <1>1, <1>3, <2>1, <2>2 DEF FallbackKept
<1>4. CASE /\ e.tool = "submit_schema_draft" /\ s2.plan = s.plan
           /\ e.accepted => e.frozen
           /\ e.schema # Unseen /\ e.compiled = IF e.accepted THEN e.schema ELSE Unseen
  <2>1. CASE e.accepted
    <3>1. s.frozen = Unseen /\ s2.frozen = e.schema /\ e.frozen
      BY <1>4, <2>1 DEF Freezes
    <3>2. t.hasFallback = FALSE  BY <3>1
    <3>3. kept = Keep(t, e.schema)  BY <1>4, <1>d, <2>1, <3>1 DEF FallbackAtResult
    <3>4. kept.frozenFallback = e.schema /\ kept.hasFallback = (e.schema # Unseen)
      BY <3>2, <3>3 DEF Keep, Tracers
    <3> HIDE DEF kept, v
    <3> QED BY <1>1, <1>4, <3>1, <3>4 DEF FallbackKept
  <2>2. CASE ~ e.accepted
    <3>1. kept = t  BY <1>4, <1>d, <2>2 DEF FallbackAtResult
    <3>2. s2.frozen = s.frozen  BY <2>2 DEF Freezes
    <3> HIDE DEF kept, v
    <3> QED BY <1>1, <1>4, <3>1, <3>2 DEF FallbackKept
  <2> QED BY <2>1, <2>2
<1>5. e.tool \in Tools  BY DEF Results
<1> HIDE DEF kept, v
<1> QED BY <1>2, <1>3, <1>4, <1>5 DEF Decided, Tools

(* One call more: the tracer stays with the session.                        *)
LEMMA CallTogether ==
  ASSUME NEW Schemas, UnseenIsApart(Schemas), NEW call \in Calls(Schemas),
         NEW phase \in Phases(Schemas), Together(phase.s, Watched(phase.events))
  PROVE  LET after == CallMade(phase, call)
         IN  /\ Together(after.s, Watched(after.events))
             /\ call.tool # "submit_result_schema"
                  /\ FallbackKept(phase.s, Watched(phase.events)) =>
                    FallbackKept(after.s, Watched(after.events))
<1> DEFINE s == phase.s
           t == Watched(phase.events)
           u == Observe(t, Start(call))
           begun == phase.events \o <<Start(call)>>
           after == CallMade(phase, call)
           Good == /\ Together(after.s, Watched(after.events))
                   /\ call.tool # "submit_result_schema" /\ FallbackKept(s, t) =>
                        FallbackKept(after.s, Watched(after.events))
<1> SUFFICES Good  OBVIOUS
<1>1. s \in Sessions(Schemas) /\ phase.events \in Seq(Events(Schemas))  BY DEF Phases
<1>2. t \in Tracers(Schemas)  BY <1>1, WatchedTyped
<1>3. /\ Start(call) \in Events(Schemas) /\ u \in Tracers(Schemas)
      /\ u = [t EXCEPT !.pending = IF call.tool = "submit_schema_plan" THEN Unseen ELSE @]
  <2> HIDE DEF t
  <2> QED BY <1>2, StartWatched
<1>4. begun \in Seq(Events(Schemas)) /\ begun = Append(phase.events, Start(call))
  BY <1>1, <1>3, Extended
<1>5. Watched(begun) = u  BY <1>1, <1>3, <1>4, TracerAppends
<1>t. Together(s, t)  OBVIOUS
<1> HIDE DEF s, t, begun, u
<1>6. /\ u.frozenSchema = t.frozenSchema /\ u.submissions = t.submissions
      /\ u.last = t.last /\ u.frozenFallback = t.frozenFallback
      /\ u.hasFallback = t.hasFallback
      /\ u.pending = IF call.tool = "submit_schema_plan" THEN Unseen ELSE t.pending
  BY <1>2, <1>3 DEF Tracers
<1>7. Together(s, u)  BY <1>t, <1>6 DEF Together
<1>8. CASE s.cancelled
  <2>1. after = phase  BY <1>8, CallShape DEF s
  <2> QED BY <1>t, <2>1 DEF s, t
<1>9. CASE ~ s.cancelled /\ ~ LetThrough(call)
  <2> DEFINE s2 == [s EXCEPT !.plan = IF call.tool = "submit_schema_plan" THEN Unseen ELSE @]
  <2>1. after = [s |-> s2, events |-> begun]
    BY <1>9, CallShape DEF LetThrough, begun, s
  <2>2. /\ s2.frozen = s.frozen /\ s2.submitted = s.submitted /\ s2.late = s.late
        /\ s2.cancelled = s.cancelled /\ s2.first = s.first
        /\ s2.plan = IF call.tool = "submit_schema_plan" THEN Unseen ELSE s.plan
    BY <1>1 DEF Sessions
  <2> HIDE DEF s2
  <2>3. Together(s2, u)  BY <1>7, <2>2 DEF Together
  <2>4. FallbackKept(s, t) => FallbackKept(s2, u)  BY <1>6, <2>2 DEF FallbackKept
  <2>5. after.s = s2 /\ Watched(after.events) = u  BY <1>5, <2>1
  <2> HIDE DEF after
  <2> QED BY <2>3, <2>4, <2>5
<1>10. CASE ~ s.cancelled /\ LetThrough(call)
  <2> DEFINE o == Outcome(s, call)
  <2>1. after = [s |-> o.s, events |-> begun \o o.events]
    BY <1>10, CallShape DEF LetThrough, begun, s
  <2>2. PICK e : o.events = <<e>> /\ Follows(Schemas, s, call, o.s, e)
    BY <1>1, <1>10, OutcomeFollows
  <2>3. o.s \in Sessions(Schemas)  BY <1>1, <1>10, OutcomeTyped DEF OutcomeOf
  <2> HIDE DEF o
  <2>4. e \in Events(Schemas) /\ e.tool = call.tool  BY <2>2 DEF Follows
  <2>5. begun \o <<e>> = Append(begun, e)  BY <1>4, <2>4, Extended
  <2>6. Watched(Append(begun, e)) = Observe(u, e)  BY <1>4, <1>5, <2>4, TracerAppends
  <2> HIDE DEF after
  <2>7. after.s = o.s /\ Watched(after.events) = Observe(u, e)
    <3>1. after.s = o.s /\ after.events = begun \o o.events  BY <2>1
    <3>2. after.events = Append(begun, e)  BY <3>1, <2>2, <2>5
    <3> QED BY <3>1, <3>2, <2>6
  <2>8. Together(o.s, Observe(u, e))
    BY <1>1, <1>3, <1>7, <1>10, <2>2, <2>3, FollowedTogether
  <2>9. ASSUME call.tool # "submit_result_schema", FallbackKept(s, t)
        PROVE  FallbackKept(o.s, Observe(u, e))
    <3>1. /\ e \in Results(Schemas) /\ Freezes(s, o.s, e) /\ Decided(s, call, o.s, e)
      BY <2>2, <2>4, <2>9 DEF Follows, Undecided
    <3>2. /\ u.frozenFallback = s.frozen /\ u.hasFallback = (s.frozen # Unseen)
          /\ e.tool # "submit_schema_plan" /\ s.frozen = Unseen => u.pending = s.plan
      BY <1>6, <2>4, <2>9 DEF FallbackKept
    <3> QED BY <1>1, <1>3, <2>3, <2>4, <2>9, <3>1, <3>2, FollowedFallback
  <2> QED BY <2>7, <2>8, <2>9
<1> QED BY <1>8, <1>9, <1>10

(* They start together.                                                     *)
LEMMA FreshTogether ==
  ASSUME NEW Schemas, UnseenIsApart(Schemas)
  PROVE  Together(FreshSession, FreshTracer) /\ FallbackKept(FreshSession, FreshTracer)
<1>1. /\ FreshTracer.submissions = <<>> /\ FreshTracer.last = 0
      /\ FreshTracer.frozenSchema = Unseen /\ FreshTracer.pending = Unseen
      /\ FreshTracer.frozenFallback = Unseen /\ FreshTracer.hasFallback = FALSE
  BY DEF FreshTracer
<1>2. /\ FreshSession.submitted = 0 /\ FreshSession.frozen = Unseen
      /\ FreshSession.plan = Unseen /\ FreshSession.cancelled = FALSE
      /\ FreshSession.late = 0 /\ FreshSession.first = Unseen
  BY DEF FreshSession
<1>3. Unseen \notin {"accepted", "rejected"}  BY DEF UnseenIsApart, Endings
<1>4. FirstSeen(Unseen, <<>>)  BY <1>3 DEF FirstSeen
<1>5. Len(<<>>) = 0  OBVIOUS
<1>6. Together(FreshSession, FreshTracer)  BY <1>1, <1>2, <1>4, <1>5 DEF Together
<1>7. FallbackKept(FreshSession, FreshTracer)  BY <1>1, <1>2 DEF FallbackKept
<1> QED BY <1>6, <1>7

\* The calls of a phase that submits no schema directly.
Compiled(calls) == \A i \in DOMAIN calls : calls[i].tool # "submit_result_schema"

(* And stay together through every phase.                                   *)
LEMMA PhaseTogether ==
  ASSUME NEW Schemas, UnseenIsApart(Schemas), NEW calls \in Seq(Calls(Schemas))
  PROVE  /\ Phase(calls) \in Phases(Schemas)
         /\ Together(Phase(calls).s, Traced(calls))
         /\ Compiled(calls) => FallbackKept(Phase(calls).s, Traced(calls))
<1> DEFINE Good(cs) ==
             /\ Phase(cs) \in Phases(Schemas)
             /\ Together(Phase(cs).s, Watched(Phase(cs).events))
             /\ Compiled(cs) => FallbackKept(Phase(cs).s, Watched(Phase(cs).events))
           Holds == {n \in Nat : \A cs \in Seq(Calls(Schemas)) : Len(cs) = n => Good(cs)}
<1>1. Good(<<>>)
  <2>1. Phase(<<>>) = FreshPhase /\ FreshPhase \in Phases(Schemas)
    BY PhaseAppends, FreshTyped
  <2>2. Watched(<<>>) = FreshTracer  BY TracerAppends
  <2>3. FreshPhase.s = FreshSession /\ FreshPhase.events = <<>>  BY DEF FreshPhase
  <2> QED BY <2>1, <2>2, <2>3, FreshTogether
<1>2. ASSUME NEW cs \in Seq(Calls(Schemas)), NEW call \in Calls(Schemas), Good(cs)
      PROVE  Good(Append(cs, call))
  <2>1. Phase(Append(cs, call)) = CallMade(Phase(cs), call)  BY PhaseAppends
  <2>0. Phase(cs) \in Phases(Schemas) /\ Together(Phase(cs).s, Watched(Phase(cs).events))
    BY <1>2
  <2>2. CallMade(Phase(cs), call) \in Phases(Schemas)  BY <2>0, CallTyped
  <2>3. Compiled(Append(cs, call)) => Compiled(cs) /\ call.tool # "submit_result_schema"
    <3>1. DOMAIN cs = 1 .. Len(cs) /\ Len(cs) \in Nat
          /\ DOMAIN Append(cs, call) = 1 .. (Len(cs) + 1)
      OBVIOUS
    <3>2. /\ \A i \in 1 .. Len(cs) : Append(cs, call)[i] = cs[i]
          /\ Append(cs, call)[Len(cs) + 1] = call
      BY Extended
    <3>3. /\ \A i \in 1 .. Len(cs) : i \in 1 .. (Len(cs) + 1)
          /\ Len(cs) + 1 \in 1 .. (Len(cs) + 1)
      BY <3>1
    <3> QED BY <3>1, <3>2, <3>3 DEF Compiled
  <2>4. Compiled(cs) => FallbackKept(Phase(cs).s, Watched(Phase(cs).events))  BY <1>2
  <2> DEFINE after == CallMade(Phase(cs), call)
  <2>5. /\ Together(after.s, Watched(after.events))
        /\ Compiled(cs) /\ call.tool # "submit_result_schema" =>
             FallbackKept(after.s, Watched(after.events))
    BY <2>0, <2>4, CallTogether
  <2> HIDE DEF after
  <2>6. Phase(Append(cs, call)) = after  BY <2>1 DEF after
  <2>7. after \in Phases(Schemas)  BY <2>2 DEF after
  <2> QED BY <2>3, <2>5, <2>6, <2>7
<1> HIDE DEF Good
<1>3. 0 \in Holds
  <2>1. \A cs \in Seq(Calls(Schemas)) : Len(cs) = 0 => cs = <<>>  OBVIOUS
  <2> QED BY <1>1, <2>1
<1>4. ASSUME NEW n \in Nat, n \in Holds PROVE n + 1 \in Holds
  <2>1. SUFFICES ASSUME NEW cs \in Seq(Calls(Schemas)), Len(cs) = n + 1 PROVE Good(cs)
    OBVIOUS
  <2> DEFINE front == SubSeq(cs, 1, n)
  <2>2. /\ front \in Seq(Calls(Schemas)) /\ Len(front) = n
        /\ cs[n + 1] \in Calls(Schemas) /\ cs = Append(front, cs[n + 1])
    BY <2>1
  <2> HIDE DEF front
  <2>3. Good(front)  BY <1>4, <2>2
  <2> QED BY <1>2, <2>2, <2>3
<1>5. Nat \subseteq Holds
  <2> HIDE DEF Holds
  <2> QED BY <1>3, <1>4, Induct
<1>6. Good(calls)
  <2>1. Len(calls) \in Nat  OBVIOUS
  <2> QED BY <1>5, <2>1
<1>7. Watched(Phase(calls).events) = Traced(calls)  BY DEF Watched, Traced
<1> QED BY <1>6, <1>7 DEF Good

(* What a trial is scored by is what its session froze, however many calls  *)
(* the phase made, of whichever tools, and however each ended: the schema   *)
(* (run_test_sets.py, _observe_submission), and where every submission was  *)
(* a plan or a draft, the fallback names of the one that was frozen.        *)
(* Submissions are observed once, in order, up to the calls after the       *)
(* freeze and a cancelled one.                                             *)
THEOREM TrialKnowsItsSession ==
  ASSUME NEW Schemas, UnseenIsApart(Schemas), NEW calls \in Seq(Calls(Schemas))
  PROVE  /\ FrozenSchemaIsTheSessions(calls)
         /\ FallbackIsTheFrozenPlans(calls)
         /\ SubmissionsAreObservedOnce(calls)
<1> DEFINE s == Phase(calls).s
           t == Traced(calls)
<1>1. Together(s, t) /\ (Compiled(calls) => FallbackKept(s, t))  BY PhaseTogether
<1>2. s \in Sessions(Schemas)  BY PhaseTogether DEF Phases
<1>3. t \in Tracers(Schemas)
  BY PhaseTogether, WatchedTyped DEF Phases, Traced, Watched
<1> HIDE DEF s, t
<1>4. t.frozenSchema = s.frozen  BY <1>1 DEF Together
<1>5. Compiled(calls) => t.frozenFallback = s.frozen  BY <1>1 DEF FallbackKept
<1>6. Len(t.submissions) = s.submitted + s.late - (IF s.cancelled THEN 1 ELSE 0)
  <2>1. /\ Len(t.submissions) \in Nat /\ s.submitted \in Nat /\ s.late \in Nat
        /\ s.cancelled \in BOOLEAN
    BY <1>2, <1>3 DEF Sessions, Tracers
  <2>2. CASE s.cancelled = TRUE  BY <1>1, <2>1, <2>2 DEF Together
  <2>3. CASE s.cancelled = FALSE  BY <1>1, <2>1, <2>3 DEF Together
  <2> QED BY <2>1, <2>2, <2>3
<1>7. s.first \in {"accepted", "rejected"} => t.submissions[1] = (s.first = "accepted")
  BY <1>1 DEF Together, FirstSeen
<1> QED BY <1>4, <1>5, <1>6, <1>7
    DEF s, t, Compiled, FrozenSchemaIsTheSessions, FallbackIsTheFrozenPlans,
        SubmissionsAreObservedOnce

-----------------------------------------------------------------------------
(* Data sets as the registry names them: what the template makes of each    *)
(* input is known, the expected records are as many as the file holds.      *)
IsDataSet(d, Records) ==
  /\ d.inputs \in Seq({"legible", "absent", "illegible"})
  /\ d.parsed \in Seq(Records \union {Issues}) /\ Len(d.parsed) = Len(d.inputs)
  /\ d.expected \in Seq(Records \union {Malformed})
  /\ Issues \notin Records

\* The places a scope takes of a data set that loads, and what is there.
LEMMA ScopedPlaces ==
  ASSUME NEW Records, NEW d, IsDataSet(d, Records), d.default \in 1 .. Len(d.inputs)
  PROVE  /\ ScopedIndices(d, "default") = <<d.default>>
         /\ DOMAIN ScopedIndices(d, "default") = {1} /\ Len(ScopedIndices(d, "default")) = 1
         /\ ToSet(ScopedIndices(d, "default")) = {d.default}
         /\ Baseline(d, "default") = [i \in {1} |-> d.parsed[d.default]]
         /\ Len(Baseline(d, "default")) = 1
         /\ SelectedExpected(d, "default") = [i \in {1} |-> d.expected[d.default]]
<1>1. Len(d.inputs) \in Nat /\ d.default # 0  BY DEF IsDataSet
<1>2. ScopedIndices(d, "default") = <<d.default>>  BY <1>1 DEF ScopedIndices
<1>3. /\ DOMAIN <<d.default>> = {1} /\ Len(<<d.default>>) = 1 /\ <<d.default>>[1] = d.default
      /\ 1 .. 1 = {1}
  OBVIOUS
<1>4. ToSet(<<d.default>>) = {d.default}  BY <1>3 DEF ToSet
<1>5. Baseline(d, "default") = [i \in {1} |-> d.parsed[d.default]]
  BY <1>2, <1>3 DEF Baseline
<1>6. SelectedExpected(d, "default") = [i \in {1} |-> d.expected[d.default]]
  BY <1>2, <1>3 DEF SelectedExpected
<1>7. Len([i \in {1} |-> d.parsed[d.default]]) = 1
  <2>1. [i \in {1} |-> d.parsed[d.default]] = <<d.parsed[d.default]>>  OBVIOUS
  <2> QED BY <2>1
<1> QED BY <1>2, <1>3, <1>4, <1>5, <1>6, <1>7

\* The same for the full scope.
LEMMA WholePlaces ==
  ASSUME NEW Records, NEW d, IsDataSet(d, Records)
  PROVE  /\ DOMAIN d.inputs = 1 .. Len(d.inputs) /\ Len(d.inputs) \in Nat
         /\ DOMAIN ScopedIndices(d, "full") = 1 .. Len(d.inputs)
         /\ ToSet(ScopedIndices(d, "full")) = 1 .. Len(d.inputs)
         /\ Baseline(d, "full") = [i \in 1 .. Len(d.inputs) |-> d.parsed[i]]
         /\ SelectedExpected(d, "full") = [i \in 1 .. Len(d.inputs) |-> d.expected[i]]
<1>1. DOMAIN d.inputs = 1 .. Len(d.inputs) /\ Len(d.inputs) \in Nat  BY DEF IsDataSet
<1>2. ScopedIndices(d, "full") = [i \in 1 .. Len(d.inputs) |-> i]
  BY <1>1 DEF ScopedIndices
<1> QED BY <1>1, <1>2 DEF ToSet, Baseline, SelectedExpected

\* A data set that loads has inputs, and a default that is one of them, or none.
LEMMA Loads ==
  ASSUME NEW Records, NEW d, IsDataSet(d, Records), ~ LoadRejected(<<d>>, {d.name})
  PROVE  d.default \in 0 .. Len(d.inputs) /\ Len(d.inputs) > 0
<1>1. ~ EntryRejected(d, {d.name})
  <2>1. 1 \in DOMAIN <<d>> /\ <<d>>[1] = d  OBVIOUS
  <2> QED BY <2>1 DEF LoadRejected
<1>2. d.inputs # <<>> /\ d.default \in 0 .. Len(d.inputs)  BY <1>1 DEF EntryRejected
<1>3. Len(d.inputs) > 0  BY <1>2 DEF IsDataSet
<1> QED BY <1>2, <1>3

\* What a scope has passed: a data set in order, tried or compared.
LEMMA Passed ==
  ASSUME NEW d, NEW scope, Preflight(d, scope).status = "passed"
  PROVE  /\ RegistryErrors(d) = {} /\ MissingFiles(d) = {}
         /\ ~ (scope = "default" /\ d.default = 0)
         /\ Stage(d) # "inputs-only" /\ "template" \in d.declared
         /\ Stage(d) = "template" =>
              \A i \in DOMAIN Baseline(d, scope) : Baseline(d, scope)[i] # Issues
         /\ Stage(d) # "template" =>
              ~ CompleteCaseRejected(d, scope) /\ SelectedExpected(d, scope) = Baseline(d, scope)
<1>1. /\ RegistryErrors(d) = {} /\ MissingFiles(d) = {}
      /\ ~ (scope = "default" /\ d.default = 0)
      /\ Stage(d) # "inputs-only" /\ "template" \in d.declared
      /\ Preflight(d, scope) = IF Stage(d) = "template" THEN SmokeReport(d, scope)
                               ELSE CompleteReport(d, scope)
  BY DEF Preflight, Report
<1>2. CASE Stage(d) = "template"
  <2>1. SmokeReport(d, scope).status = "passed"  BY <1>1, <1>2
  <2>2. {i \in DOMAIN Baseline(d, scope) : Baseline(d, scope)[i] = Issues} = {}
    BY <2>1 DEF SmokeReport, Report
  <2> QED BY <1>1, <1>2, <2>2
<1>3. CASE Stage(d) # "template"
  <2>1. CompleteReport(d, scope).status = "passed"  BY <1>1, <1>3
  <2> QED BY <1>1, <1>3, <2>1 DEF CompleteReport, Report
<1> QED BY <1>2, <1>3

(* The default scope is the cheaper check of the same data set: whatever    *)
(* the data set holds, what the full scope passes it passes too, unless     *)
(* there is no default input (evaluation.py, preflight_dataset_registry).   *)
THEOREM DefaultIsTheCheaperScope ==
  ASSUME NEW Records, NEW d, IsDataSet(d, Records)
  PROVE  FullImpliesDefault(d)
<1> SUFFICES ASSUME ~ LoadRejected(<<d>>, {d.name}), Preflight(d, "full").status = "passed"
             PROVE  IF d.default = 0 THEN Preflight(d, "default").status = "pending"
                    ELSE Preflight(d, "default") = Report("passed", 1)
  BY DEF FullImpliesDefault
<1>1. d.default \in 0 .. Len(d.inputs) /\ Len(d.inputs) \in Nat
  BY Loads, WholePlaces
<1>2. /\ RegistryErrors(d) = {} /\ MissingFiles(d) = {}
      /\ Stage(d) # "inputs-only" /\ "template" \in d.declared
      /\ Stage(d) = "template" =>
           \A i \in DOMAIN Baseline(d, "full") : Baseline(d, "full")[i] # Issues
      /\ Stage(d) # "template" =>
           ~ CompleteCaseRejected(d, "full") /\ SelectedExpected(d, "full") = Baseline(d, "full")
  BY Passed
<1>3. CASE d.default = 0
  BY <1>2, <1>3 DEF Preflight, Report
<1>4. CASE d.default # 0
  <2>1. d.default \in 1 .. Len(d.inputs)  BY <1>1, <1>4
  <2>2. Preflight(d, "default") = IF Stage(d) = "template" THEN SmokeReport(d, "default")
                                  ELSE CompleteReport(d, "default")
    BY <1>2, <1>4 DEF Preflight
  <2>3. CASE Stage(d) = "template"
    <3>1. d.parsed[d.default] # Issues  BY <1>2, <2>1, <2>3, WholePlaces
    <3>2. {i \in DOMAIN Baseline(d, "default") : Baseline(d, "default")[i] = Issues} = {}
      BY <2>1, <3>1, ScopedPlaces
    <3>3. Len(Baseline(d, "default")) = 1  BY <2>1, ScopedPlaces
    <3> QED BY <1>4, <2>2, <2>3, <3>2, <3>3 DEF SmokeReport
  <2>4. CASE Stage(d) # "template"
    <3>1. /\ d.supported
          /\ \A i \in 1 .. Len(d.inputs) : ~ (i > Len(d.expected))
          /\ \A i \in 1 .. Len(d.inputs) : d.expected[i] # Malformed
      BY <1>2, <2>4, WholePlaces DEF CompleteCaseRejected
    <3>2. d.expected[d.default] = d.parsed[d.default]
      BY <1>2, <2>1, <2>4, WholePlaces
    <3>3. ~ CompleteCaseRejected(d, "default")
      BY <1>2, <2>1, <3>1, ScopedPlaces DEF CompleteCaseRejected
    <3>4. SelectedExpected(d, "default") = Baseline(d, "default")
      BY <2>1, <3>2, ScopedPlaces
    <3> QED BY <1>4, <2>1, <2>2, <2>4, <3>3, <3>4, ScopedPlaces DEF CompleteReport
  <2> QED BY <2>3, <2>4
<1> QED BY <1>3, <1>4

(* A complete data set passes only where the template reproduces, of every  *)
(* input the scope takes, the record expected of that same input.           *)
THEOREM PassedRecordsAreExact ==
  ASSUME NEW Records, NEW d, IsDataSet(d, Records)
  PROVE  PassedIsExact(d)
<1> SUFFICES ASSUME ~ LoadRejected(<<d>>, {d.name}), Stage(d) = "complete",
                    NEW scope \in Scopes, Preflight(d, scope).status = "passed",
                    NEW i \in IF scope = "full" THEN DOMAIN d.inputs ELSE {d.default}
             PROVE  d.parsed[i] # Issues /\ d.parsed[i] = d.expected[i]
  BY DEF PassedIsExact
<1>1. d.default \in 0 .. Len(d.inputs) /\ Len(d.inputs) \in Nat
  BY Loads, WholePlaces
<1>2. /\ ~ (scope = "default" /\ d.default = 0)
      /\ ~ CompleteCaseRejected(d, scope) /\ SelectedExpected(d, scope) = Baseline(d, scope)
  BY Passed
<1>3. CASE scope = "full"
  <2>1. i \in 1 .. Len(d.inputs)  BY <1>3, WholePlaces
  <2>2. d.parsed[i] = d.expected[i]  BY <1>2, <1>3, <2>1, WholePlaces
  <2>3. ~ (i > Len(d.expected))
    BY <1>2, <1>3, <2>1, WholePlaces DEF CompleteCaseRejected
  <2>4. d.expected[i] # Malformed
    BY <1>2, <1>3, <2>1, WholePlaces DEF CompleteCaseRejected
  <2>5. d.expected[i] \in Records \union {Malformed}  BY <1>1, <2>1, <2>3 DEF IsDataSet
  <2> QED BY <2>2, <2>4, <2>5 DEF IsDataSet
<1>4. CASE scope = "default"
  <2>1. i = d.default /\ d.default \in 1 .. Len(d.inputs)  BY <1>1, <1>2, <1>4
  <2>2. d.parsed[i] = d.expected[i]
    <3>1. SelectedExpected(d, "default")[1] = Baseline(d, "default")[1]  BY <1>2, <1>4
    <3> QED BY <2>1, <3>1, ScopedPlaces
  <2>3. ~ (i > Len(d.expected))
    BY <1>2, <1>4, <2>1, ScopedPlaces DEF CompleteCaseRejected
  <2>4. d.expected[i] # Malformed
    BY <1>2, <1>4, <2>1, ScopedPlaces DEF CompleteCaseRejected
  <2>5. d.expected[i] \in Records \union {Malformed}  BY <1>1, <2>1, <2>3 DEF IsDataSet
  <2> QED BY <2>2, <2>4, <2>5 DEF IsDataSet
<1> QED BY <1>3, <1>4 DEF Scopes

(* A data set that lacks a declared file is pending in both scopes, and     *)
(* neither judged nor failed, as long as the registry loads.                *)
THEOREM UnfinishedIsPending ==
  ASSUME NEW d, {"declared", "present"} \subseteq DOMAIN d, NEW part \in Parts
  PROVE  AssemblyIsPending(d, part)
<1> DEFINE without == [d EXCEPT !.present = @ \ {part}]
<1> SUFFICES ASSUME part \in d.declared, RegistryErrors(d) = {},
                    ~ LoadRejected(<<without>>, {d.name}), NEW scope \in Scopes
             PROVE  Preflight(without, scope).status = "pending"
  BY DEF AssemblyIsPending
<1>1. without.declared = d.declared /\ without.present = d.present \ {part}  OBVIOUS
<1> HIDE DEF without
<1>2. RegistryErrors(without) = {}  BY <1>1 DEF RegistryErrors
<1>3. <<part, 0>> \in MissingFiles(without)  BY <1>1 DEF MissingFiles
<1> QED BY <1>2, <1>3 DEF Preflight, Report

-----------------------------------------------------------------------------
(* Sums of lengths.                                                         *)
Added(seq, n, f) ==
  f = [s \in SUBSET (1 .. n) |-> IF s = {} THEN 0 ELSE f[s \ {Max(s)}] + seq[Max(s)]]

(* A sum is reached length by length.                                       *)
LEMMA SumRuns ==
  ASSUME NEW seq \in Seq(Nat)
  PROVE  \E r : /\ r[0] = 0
                /\ \A k \in 1 .. Len(seq) : r[k] = r[k - 1] + seq[k]
                /\ SumOf(seq) = r[Len(seq)]
<1> DEFINE n == Len(seq)
           step == [p \in (1 .. n) \X Nat |-> p[2] + seq[p[1]]]
           f == CHOOSE g : Added(seq, n, g)
<1>1. n \in Nat /\ DOMAIN seq = 1 .. n /\ \A k \in 1 .. n : seq[k] \in Nat
  OBVIOUS
<1> HIDE DEF n
<1>2. step \in [(1 .. n) \X Nat -> Nat]  BY <1>1
<1>3. PICK g \in [SUBSET (1 .. n) -> Nat] : Folding(step, 0, n, g)
  <2> HIDE DEF step
  <2> QED BY <1>1, <1>2, FoldExists
<1>4. Added(seq, n, g)
  <2>1. ASSUME NEW s \in SUBSET (1 .. n), s # {}
        PROVE  step[<<Max(s), g[s \ {Max(s)}]>>] = g[s \ {Max(s)}] + seq[Max(s)]
    <3>1. Max(s) \in 1 .. n  BY <1>1, <2>1, LargestIsMember
    <3>2. g[s \ {Max(s)}] \in Nat  OBVIOUS
    <3> QED BY <3>1, <3>2
  <2> HIDE DEF step
  <2> QED BY <1>3, <2>1 DEF Folding, Added
<1>5. Added(seq, n, f)  BY <1>4
<1>6. SumOf(seq) = f[1 .. n]
  BY <1>1 DEF SumOf, FoldLeft, MapThenFoldSet, Added
<1> HIDE DEF f
<1> DEFINE r == [k \in 0 .. n |-> f[1 .. k]]
<1>7. r[0] = 0
  <2>1. 1 .. 0 = {} /\ 0 \in 0 .. n  BY <1>1
  <2> QED BY <1>5, <2>1 DEF Added
<1>8. ASSUME NEW k \in 1 .. n PROVE r[k] = r[k - 1] + seq[k]
  <2>1. k \in 0 .. n /\ k - 1 \in 0 .. n  BY <1>1
  <2>2. /\ 1 .. k \in SUBSET (1 .. n) /\ 1 .. k # {}
        /\ Max(1 .. k) = k /\ (1 .. k) \ {k} = 1 .. (k - 1)
    BY <1>1, LastPosition
  <2>3. f[1 .. k] = f[(1 .. k) \ {Max(1 .. k)}] + seq[Max(1 .. k)]
    BY <1>5, <2>2 DEF Added
  <2> QED BY <2>1, <2>2, <2>3
<1>9. n \in 0 .. n /\ SumOf(seq) = r[n]  BY <1>1, <1>6
<1> HIDE DEF r
<1> QED BY <1>7, <1>8, <1>9 DEF n

(* Lengths add up to a length, and to none at all only where there are      *)
(* none, or each is nothing.                                               *)
LEMMA SumIsLength ==
  ASSUME NEW seq \in Seq(Nat)
  PROVE  /\ SumOf(seq) \in Nat
         /\ seq = <<>> => SumOf(seq) = 0
         /\ seq # <<>> /\ (\A k \in 1 .. Len(seq) : seq[k] > 0) => SumOf(seq) > 0
<1> DEFINE n == Len(seq)
<1>1. n \in Nat /\ \A k \in 1 .. n : seq[k] \in Nat  OBVIOUS
<1>2. PICK r : /\ r[0] = 0
               /\ \A k \in 1 .. n : r[k] = r[k - 1] + seq[k]
               /\ SumOf(seq) = r[n]
  BY SumRuns
<1>n. seq = <<>> <=> n = 0  OBVIOUS
<1> HIDE DEF n
<1> DEFINE Holds == {k \in Nat : k <= n => r[k] \in Nat}
<1>3. 0 \in Holds  BY <1>2
<1>4. ASSUME NEW k \in Nat, k \in Holds PROVE k + 1 \in Holds
  <2>1. SUFFICES ASSUME k + 1 <= n PROVE r[k + 1] \in Nat  OBVIOUS
  <2>2. k + 1 \in 1 .. n /\ (k + 1) - 1 = k /\ k <= n  BY <1>1, <2>1
  <2>3. r[k + 1] = r[k] + seq[k + 1]  BY <1>2, <2>2
  <2> QED BY <1>1, <1>4, <2>2, <2>3
<1>5. Nat \subseteq Holds
  <2> HIDE DEF Holds
  <2> QED BY <1>3, <1>4, Induct
<1>6. \A k \in 0 .. n : r[k] \in Nat  BY <1>1, <1>5
<1>7. ASSUME n # 0, \A k \in 1 .. n : seq[k] > 0 PROVE SumOf(seq) > 0
  <2>1. n \in 1 .. n /\ n - 1 \in 0 .. n  BY <1>1, <1>7
  <2>2. SumOf(seq) = r[n - 1] + seq[n] /\ seq[n] > 0  BY <1>2, <1>7, <2>1
  <2>3. r[n - 1] \in Nat /\ seq[n] \in Nat  BY <1>1, <1>6, <2>1
  <2> QED BY <2>2, <2>3
<1>8. SumOf(seq) \in Nat  BY <1>1, <1>2, <1>6
<1>9. n = 0 => SumOf(seq) = 0  BY <1>2
<1> QED BY <1>n, <1>7, <1>8, <1>9 DEF n

(* A stretch of an output's lines is an output.                             *)
LEMMA StretchOfLines ==
  ASSUME NEW T, NEW text \in Seq(T), NEW m \in 1 .. (Len(text) + 1), NEW n \in 0 .. Len(text)
  PROVE  /\ SubSeq(text, m, n) \in Seq(T)
         /\ m > n => SubSeq(text, m, n) = <<>>
         /\ m <= n => SubSeq(text, m, n) # <<>>
<1>1. Len(text) \in Nat /\ m \in Nat /\ n \in Nat  OBVIOUS
<1>2. \A i \in m .. n : text[i] \in T  BY <1>1
<1>3. SubSeq(text, m, n) \in Seq(T)  BY <1>1, <1>2, SubSeqProperties
<1>4. Len(SubSeq(text, m, n)) = IF m <= n THEN n - m + 1 ELSE 0
  BY <1>1, SubSeqProperties
<1>5. m > n => SubSeq(text, m, n) = <<>>  BY <1>1, <1>3, <1>4, EmptySeq
<1>6. m <= n => SubSeq(text, m, n) # <<>>
  <2>1. Len(<<>>) = 0  OBVIOUS
  <2> QED BY <1>1, <1>4, <2>1
<1> QED BY <1>3, <1>5, <1>6

(* The first lines that are chosen fit the budget, and so do the last.      *)
LEMMA LinesFit ==
  ASSUME NEW text \in Seq(Nat), NEW budget \in Nat
  PROVE  /\ HeadLines(text, budget) \in 0 .. Len(text)
         /\ SumOf(SubSeq(text, 1, HeadLines(text, budget))) <= budget
         /\ TailLines(text, budget) \in 0 .. Len(text)
         /\ SumOf(SubSeq(text, Len(text) - TailLines(text, budget) + 1, Len(text)))
              <= budget
<1> DEFINE hs == {k \in 0 .. Len(text) : SumOf(SubSeq(text, 1, k)) <= budget}
           ts == {k \in 0 .. Len(text) :
                    SumOf(SubSeq(text, Len(text) - k + 1, Len(text))) <= budget}
<1>1. Len(text) \in Nat  OBVIOUS
<1>2. SumOf(<<>>) = 0
  <2>1. <<>> \in Seq(Nat)  OBVIOUS
  <2> QED BY <2>1, SumIsLength
<1>3. SubSeq(text, 1, 0) = <<>>
  <2>1. 1 \in 1 .. (Len(text) + 1) /\ 0 \in 0 .. Len(text)  BY <1>1
  <2> QED BY <2>1, StretchOfLines
<1>4. SubSeq(text, Len(text) - 0 + 1, Len(text)) = <<>>
  <2>1. /\ Len(text) - 0 + 1 \in 1 .. (Len(text) + 1) /\ Len(text) \in 0 .. Len(text)
        /\ Len(text) - 0 + 1 > Len(text)
    BY <1>1
  <2> QED BY <2>1, StretchOfLines
<1>5. 0 \in hs /\ 0 \in ts
  <2>1. 0 \in 0 .. Len(text) /\ 0 <= budget  BY <1>1
  <2>2. SumOf(SubSeq(text, 1, 0)) <= budget  BY <1>2, <1>3, <2>1
  <2>3. SumOf(SubSeq(text, Len(text) - 0 + 1, Len(text))) <= budget
    BY <1>2, <1>4, <2>1
  <2>4. 0 \in hs  BY <2>1, <2>2
  <2>5. 0 \in ts  BY <2>1, <2>3, Zenon
  <2> QED BY <2>4, <2>5
<1>6. Max(hs) \in hs
  <2>1. hs \in SUBSET (0 .. Len(text)) /\ hs # {}  BY <1>5
  <2> HIDE DEF hs
  <2> QED BY <1>1, <2>1, LargestCount
<1>7. Max(ts) \in ts
  <2>1. ts \in SUBSET (0 .. Len(text)) /\ ts # {}  BY <1>5
  <2> HIDE DEF ts
  <2> QED BY <1>1, <2>1, LargestCount
<1>8. HeadLines(text, budget) \in hs  BY <1>6 DEF HeadLines
<1>9. TailLines(text, budget) \in ts  BY <1>7 DEF TailLines
<1> QED BY <1>8, <1>9

(* A cut keeps within its budget, leaves something out for the marker to    *)
(* stand for, and shows something where there is room beside the marker.    *)
LEMMA CutIsHonest ==
  ASSUME NEW text \in Seq(Nat), NEW budget \in Nat
  PROVE  LET cut == TruncateOnLineBoundaries(text, budget) IN
           /\ cut = [head |-> cut.head, tail |-> cut.tail, marker |-> cut.marker]
           /\ {cut.head, cut.tail, cut.marker} \subseteq Nat
           /\ Shown(cut) <= budget
           /\ SumOf(text) > budget => cut.head + cut.tail < SumOf(text)
           /\ SumOf(text) <= budget => cut = Whole(text)
           /\ /\ SumOf(text) <= budget \/ budget > Marker
              /\ text # <<>> /\ \A k \in 1 .. Len(text) : text[k] > 0
              => cut.head + cut.tail > 0
<1> DEFINE cut == TruncateOnLineBoundaries(text, budget)
           sum == SumOf(text)
           Lines == text # <<>> /\ \A k \in 1 .. Len(text) : text[k] > 0
<1>1. sum \in Nat /\ (Lines => sum > 0)  BY SumIsLength
<1>2. Marker \in Nat \ {0}  BY FitAssumption
<1>3. CASE sum <= budget
  <2>1. cut = [head |-> sum, tail |-> 0, marker |-> 0] /\ cut = Whole(text)
    BY <1>3 DEF TruncateOnLineBoundaries, Whole
  <2> HIDE DEF cut, sum, Lines
  <2>2. cut.head = sum /\ cut.tail = 0 /\ cut.marker = 0  BY <2>1
  <2>3. Shown(cut) = sum  BY <1>1, <2>2 DEF Shown
  <2>4. cut = [head |-> cut.head, tail |-> cut.tail, marker |-> cut.marker]  BY <2>1, <2>2
  <2> USE DEF cut, sum, Lines
  <2> QED BY <1>1, <1>3, <2>1, <2>2, <2>3, <2>4
<1>4. CASE sum > budget /\ budget <= Marker
  <2>1. cut = [head |-> 0, tail |-> 0, marker |-> budget]
    BY <1>1, <1>4 DEF TruncateOnLineBoundaries
  <2>2. cut.head = 0 /\ cut.tail = 0 /\ cut.marker = budget  BY <2>1
  <2>3. Shown(cut) = budget  BY <2>2 DEF Shown
  <2>4. cut = [head |-> cut.head, tail |-> cut.tail, marker |-> cut.marker]  BY <2>1, <2>2
  <2>5. ~ (sum <= budget \/ budget > Marker)  BY <1>1, <1>2, <1>4
  <2> HIDE DEF cut, sum, Lines
  <2>6. cut.head + cut.tail < sum  BY <1>1, <1>4, <2>2
  <2>7. {cut.head, cut.tail, cut.marker} \subseteq Nat  BY <2>2
  <2>8. Shown(cut) <= budget  BY <2>3
  <2> USE DEF cut, sum, Lines
  <2> QED BY <2>4, <2>5, <2>6, <2>7, <2>8
<1>5. CASE sum > budget /\ budget > Marker
  <2> DEFINE source == budget - Marker
             headBudget == (source * 3) \div 4
             tailBudget == source - headBudget
             heads == HeadLines(text, headBudget)
             rest == SubSeq(text, heads + 1, Len(text))
             tails == TailLines(rest, tailBudget)
             first == SubSeq(text, 1, heads)
             last == SubSeq(rest, Len(rest) - tails + 1, Len(rest))
             front == IF heads = 0 THEN headBudget ELSE SumOf(first)
             back == IF tails = 0 THEN tailBudget ELSE SumOf(last)
  <2>1. cut = [head |-> front, tail |-> back, marker |-> Marker]
    <3>1. ~ (sum <= budget) /\ ~ (budget <= Marker)  BY <1>1, <1>2, <1>5
    <3> QED BY <3>1, Zenon DEF TruncateOnLineBoundaries
  <2>2. source \in Nat /\ source > 0 /\ source + Marker = budget  BY <1>2, <1>5
  <2> HIDE DEF source
  <2>3. headBudget \in Nat /\ headBudget <= source  BY <2>2
  <2> HIDE DEF headBudget
  <2>4. tailBudget \in Nat /\ headBudget + tailBudget = source  BY <2>2, <2>3
  <2> HIDE DEF tailBudget
  <2>5. heads \in 0 .. Len(text) /\ SumOf(first) <= headBudget  BY <2>3, LinesFit
  <2> HIDE DEF heads
  <2>6. Len(text) \in Nat /\ heads + 1 \in 1 .. (Len(text) + 1) /\ Len(text) \in 0 .. Len(text)
    BY <2>5
  <2>7. rest \in Seq(Nat)  BY <2>6, StretchOfLines
  <2>8. first \in Seq(Nat) /\ (heads > 0 => first # <<>>)
    <3>1. 1 \in 1 .. (Len(text) + 1)  BY <2>6
    <3> QED BY <2>5, <3>1, StretchOfLines
  <2>9. Lines => rest \in Seq(Nat \ {0}) /\ first \in Seq(Nat \ {0})
    <3>1. SUFFICES ASSUME Lines PROVE rest \in Seq(Nat \ {0}) /\ first \in Seq(Nat \ {0})
      OBVIOUS
    <3>2. text \in Seq(Nat \ {0})
      <4>1. \A k \in 1 .. Len(text) : text[k] \in Nat \ {0}  BY <3>1
      <4>2. text = [k \in 1 .. Len(text) |-> text[k]]  OBVIOUS
      <4> QED BY <2>6, <4>1, <4>2
    <3>3. 1 \in 1 .. (Len(text) + 1)  BY <2>6
    <3> QED BY <2>5, <2>6, <3>2, <3>3, StretchOfLines
  <2> HIDE DEF rest, first
  <2>10. tails \in 0 .. Len(rest) /\ SumOf(last) <= tailBudget  BY <2>4, <2>7, LinesFit
  <2> HIDE DEF tails
  <2>11. /\ Len(rest) \in Nat /\ Len(rest) - tails + 1 \in 1 .. (Len(rest) + 1)
         /\ Len(rest) \in 0 .. Len(rest)
    BY <2>7, <2>10
  <2>12. last \in Seq(Nat) /\ (tails > 0 => last # <<>>)
    <3>1. tails > 0 => Len(rest) - tails + 1 <= Len(rest)  BY <2>10, <2>11
    <3> QED BY <2>7, <2>11, <3>1, StretchOfLines
  <2>13. Lines => last \in Seq(Nat \ {0})  BY <2>9, <2>11, StretchOfLines
  <2> HIDE DEF last
  <2>14. SumOf(first) \in Nat /\ SumOf(last) \in Nat  BY <2>8, <2>12, SumIsLength
  <2>15. Lines /\ heads > 0 => SumOf(first) > 0
    <3>1. first \in Seq(Nat \ {0}) => \A k \in 1 .. Len(first) : first[k] > 0  OBVIOUS
    <3> QED BY <2>8, <2>9, <3>1, SumIsLength
  <2>16. Lines /\ tails > 0 => SumOf(last) > 0
    <3>1. last \in Seq(Nat \ {0}) => \A k \in 1 .. Len(last) : last[k] > 0  OBVIOUS
    <3> QED BY <2>12, <2>13, <3>1, SumIsLength
  <2>17. front \in Nat /\ front <= headBudget /\ back \in Nat /\ back <= tailBudget
    BY <2>3, <2>4, <2>5, <2>10, <2>14
  <2>18. Lines => front + back > 0
    <3> HIDE DEF Lines
    <3>1. SUFFICES ASSUME Lines PROVE front + back > 0  OBVIOUS
    <3>2. CASE heads > 0
      <4>1. front > 0  BY <2>5, <2>15, <3>1, <3>2
      <4> HIDE DEF front, back
      <4> QED BY <2>17, <4>1
    <3>3. CASE heads = 0
      <4>1. front = headBudget  BY <3>3
      <4>2. CASE tails > 0
        <5>1. back > 0  BY <2>10, <2>16, <3>1, <4>2
        <5> HIDE DEF front, back
        <5> QED BY <2>17, <5>1
      <4>3. CASE tails = 0
        <5>1. back = tailBudget  BY <4>3
        <5> HIDE DEF front, back
        <5> QED BY <2>2, <2>3, <2>4, <4>1, <5>1
      <4> QED BY <2>10, <2>11, <4>2, <4>3
    <3> QED BY <2>5, <2>6, <3>2, <3>3
  <2> HIDE DEF front, back, Lines, cut, sum
  <2>19. cut.head = front /\ cut.tail = back /\ cut.marker = Marker  BY <2>1
  <2>20. cut = [head |-> cut.head, tail |-> cut.tail, marker |-> cut.marker]  BY <2>1, <2>19
  <2>21. Shown(cut) <= budget
    <3>1. Shown(cut) = front + Marker + back  BY <2>19 DEF Shown
    <3> QED BY <1>2, <2>2, <2>3, <2>4, <2>17, <3>1
  <2>22. cut.head + cut.tail < sum
    <3>1. front + back <= source  BY <2>3, <2>4, <2>17
    <3> QED BY <1>1, <1>2, <1>5, <2>2, <2>17, <2>19, <3>1
  <2>23. {cut.head, cut.tail, cut.marker} \subseteq Nat  BY <1>2, <2>17, <2>19
  <2>24. Lines => cut.head + cut.tail > 0  BY <2>18, <2>19
  <2>25. ~ (sum <= budget)  BY <1>1, <1>5
  <2> USE DEF cut, sum, Lines
  <2> QED BY <1>5, <2>20, <2>21, <2>22, <2>23, <2>24, <2>25
<1> QED BY <1>1, <1>2, <1>3, <1>4, <1>5

(* The shares are numbers of characters.                                    *)
LEMMA ShareIsLength ==
  ASSUME NEW total \in Nat, NEW n \in Nat \ {0}, NEW i
  PROVE  Allocation(total, n, i) \in Nat
<1>1. total \div n \in Nat  OBVIOUS
<1> QED BY <1>1 DEF Allocation

(* sample_command_outputs (sampling.py): for every request and every limit, *)
(* a cut output keeps within its share, shows no character twice and leaves *)
(* something out that the marker stands for; one that is not cut is shown   *)
(* as it is.                                                               *)
THEOREM EveryCutIsHonest ==
  ASSUME NEW outputs \in Seq(Seq(Nat)), NEW total \in Nat
  PROVE  CutsAreHonest(outputs, total)
<1> DEFINE sampled == SampleCommandOutputs(outputs, total)
<1>1. ASSUME NEW i \in DOMAIN outputs
      PROVE  LET s == sampled[i] IN
               /\ Shown(s.shown) <= s.allocated
               /\ IF s.truncated THEN s.shown.head + s.shown.tail < SumOf(outputs[i])
                  ELSE s.shown = Whole(outputs[i])
  <2> DEFINE budget == Allocation(total, Len(outputs), i)
             cut == TruncateOnLineBoundaries(outputs[i], budget)
  <2>1. Len(outputs) \in Nat \ {0} /\ outputs[i] \in Seq(Nat)  OBVIOUS
  <2>2. budget \in Nat  BY <2>1, ShareIsLength
  <2>3. sampled[i] = [allocated |-> budget, truncated |-> SumOf(outputs[i]) > budget,
                      shown |-> cut]
    BY DEF SampleCommandOutputs
  <2> HIDE DEF budget, sampled
  <2>4. SumOf(outputs[i]) \in Nat  BY <2>1, SumIsLength
  <2>5. /\ Shown(cut) <= budget
        /\ SumOf(outputs[i]) > budget => cut.head + cut.tail < SumOf(outputs[i])
        /\ SumOf(outputs[i]) <= budget => cut = Whole(outputs[i])
    BY <2>1, <2>2, CutIsHonest
  <2> HIDE DEF cut
  <2>6. /\ sampled[i].allocated = budget /\ sampled[i].shown = cut
        /\ sampled[i].truncated = (SumOf(outputs[i]) > budget)
    BY <2>3
  <2>7. CASE SumOf(outputs[i]) > budget  BY <2>5, <2>6, <2>7
  <2>8. CASE ~ (SumOf(outputs[i]) > budget)
    <3>1. SumOf(outputs[i]) <= budget  BY <2>2, <2>4, <2>8
    <3> QED BY <2>5, <2>6, <2>8, <3>1
  <2> QED BY <2>7, <2>8
<1> HIDE DEF sampled
<1>2. \A i \in DOMAIN outputs :
        LET s == sampled[i] IN
          /\ Shown(s.shown) <= s.allocated
          /\ IF s.truncated THEN s.shown.head + s.shown.tail < SumOf(outputs[i])
             ELSE s.shown = Whole(outputs[i])
  BY <1>1
<1> USE DEF sampled
<1> QED BY <1>2 DEF CutsAreHonest

-----------------------------------------------------------------------------
(* The requests the fit loop is given: outputs that are not empty, in lines *)
(* that are not.                                                           *)
Requests == Seq(Seq(Nat \ {0}) \ {<<>>})

(* What a message of the samples may be asked for, and the fit loop's       *)
(* answers to it.                                                          *)
LEMMA MessageIsLong ==
  ASSUME NEW outputs \in Requests, NEW raw \in Nat
  PROVE  LET sampled == SampleCommandOutputs(outputs, raw) IN
           /\ Serialized(sampled) \in Nat \ {0}
           /\ EstimatedTokens(sampled) \in Nat \ {0}
<1> DEFINE sampled == SampleCommandOutputs(outputs, raw)
           parts == [i \in DOMAIN sampled |-> Escaping * Shown(sampled[i].shown)]
<1>1. Escaping \in Nat /\ Framing \in Nat \ {0}  BY FitAssumption
<1>2. outputs \in Seq(Seq(Nat)) /\ DOMAIN sampled = 1 .. Len(outputs)
  BY DEF Requests, SampleCommandOutputs
<1>3. ASSUME NEW i \in 1 .. Len(outputs) PROVE parts[i] \in Nat
  <2> DEFINE budget == Allocation(raw, Len(outputs), i)
             cut == TruncateOnLineBoundaries(outputs[i], budget)
  <2>1. Len(outputs) \in Nat \ {0} /\ outputs[i] \in Seq(Nat)  BY <1>2
  <2>2. budget \in Nat  BY <2>1, ShareIsLength
  <2>3. sampled[i].shown = cut  BY <1>2 DEF SampleCommandOutputs
  <2> HIDE DEF budget, sampled
  <2>4. {cut.head, cut.tail, cut.marker} \subseteq Nat
    BY <2>1, <2>2, CutIsHonest
  <2> HIDE DEF cut
  <2>5. Shown(cut) \in Nat  BY <2>4 DEF Shown
  <2>6. parts[i] = Escaping * Shown(cut)  BY <1>2, <2>3
  <2> HIDE DEF parts
  <2> QED BY <1>1, <2>5, <2>6
<1>4. parts \in Seq(Nat)
  <2>1. Len(outputs) \in Nat  BY <1>2
  <2>2. parts = [i \in 1 .. Len(outputs) |-> parts[i]]  BY <1>2
  <2> HIDE DEF parts
  <2>3. parts \in [1 .. Len(outputs) -> Nat]  BY <1>3, <2>2
  <2> QED BY <2>1, <2>3
<1>5. SumOf(parts) \in Nat
  <2> HIDE DEF parts
  <2> QED BY <1>4, SumIsLength
<1>6. Serialized(sampled) = Framing + SumOf(parts)  BY DEF Serialized
<1> HIDE DEF parts, sampled
<1>7. Serialized(sampled) \in Nat \ {0}  BY <1>1, <1>5, <1>6
<1>8. EstimatedTokens(sampled) \in Nat \ {0}  BY <1>7 DEF EstimatedTokens
<1> USE DEF sampled
<1> QED BY <1>7, <1>8

(* Every further round has a smaller budget, of at least one character.     *)
LEMMA BudgetsShrink ==
  ASSUME NEW outputs \in Requests, NEW raw \in Nat, raw > 1,
         NEW total \in Nat, NEW maxTokens \in Nat
  PROVE  NextBudgets(raw, SampleCommandOutputs(outputs, raw), total, maxTokens)
           \subseteq 1 .. (raw - 1)
<1> DEFINE sampled == SampleCommandOutputs(outputs, raw)
           scaled(num, den) == (raw * (IF num < den THEN num ELSE den) * 9) \div (den * 10)
           one == scaled(total, Serialized(sampled))
           other == scaled(maxTokens, EstimatedTokens(sampled))
           next == Min({one, other})
<1>1. Serialized(sampled) \in Nat \ {0} /\ EstimatedTokens(sampled) \in Nat \ {0}
  BY MessageIsLong
<1>2. ASSUME NEW num \in Nat, NEW den \in Nat \ {0} PROVE scaled(num, den) \in Int
  <2> DEFINE least == IF num < den THEN num ELSE den
  <2>1. least \in Nat  OBVIOUS
  <2>2. den * 10 \in Nat \ {0}  OBVIOUS
  <2> HIDE DEF least
  <2>3. raw * least \in Int  BY <2>1
  <2>4. raw * least * 9 \in Int  BY <2>3
  <2> DEFINE above == raw * least * 9
             below == den * 10
  <2>5. above \in Int /\ below \in Nat \ {0}  BY <2>2, <2>4
  <2> HIDE DEF above, below
  <2>6. above \div below \in Int  BY <2>5
  <2> QED BY <2>6 DEF above, below, least
<1> HIDE DEF sampled, scaled
<1>3. one \in Int /\ other \in Int  BY <1>1, <1>2
<1> HIDE DEF one, other
<1>4. next \in Int
  <2>1. CASE one <= other
    <3>1. one \in {one, other} /\ \A y \in {one, other} : one <= y  BY <1>3, <2>1
    <3>2. Min({one, other}) \in {one, other}  BY <3>1 DEF Min
    <3> QED BY <1>3, <3>2
  <2>2. CASE other <= one
    <3>1. other \in {one, other} /\ \A y \in {one, other} : other <= y  BY <1>3, <2>2
    <3>2. Min({one, other}) \in {one, other}  BY <3>1 DEF Min
    <3> QED BY <1>3, <3>2
  <2> QED BY <1>3, <2>1, <2>2
<1>5. NextBudgets(raw, sampled, total, maxTokens)
        = {Max({1, Min({raw - 1, b})}) : b \in {next, next - 1}}
  BY DEF NextBudgets, scaled, one, other
<1> HIDE DEF next
<1>6. ASSUME NEW b \in Int PROVE Max({1, Min({raw - 1, b})}) \in 1 .. (raw - 1)
  <2>1. \E x \in {raw - 1, b} : \A y \in {raw - 1, b} : x <= y
    <3>1. raw - 1 <= b \/ b <= raw - 1  OBVIOUS
    <3> QED BY <3>1
  <2>2. /\ Min({raw - 1, b}) \in {raw - 1, b}
        /\ \A y \in {raw - 1, b} : Min({raw - 1, b}) <= y
    BY <2>1 DEF Min
  <2> DEFINE least == Min({raw - 1, b})
  <2>3. least \in Int /\ least <= raw - 1  BY <2>2
  <2> HIDE DEF least
  <2>4. \E x \in {1, least} : \A y \in {1, least} : x >= y
    <3>1. 1 >= least \/ least >= 1  BY <2>3
    <3> QED BY <2>3, <3>1
  <2>5. /\ Max({1, least}) \in {1, least}
        /\ \A y \in {1, least} : Max({1, least}) >= y
    BY <2>4 DEF Max
  <2>6. Max({1, least}) \in 1 .. (raw - 1)  BY <2>3, <2>5
  <2> QED BY <2>6 DEF least
<1>7. {next, next - 1} \subseteq Int  BY <1>4
<1>8. NextBudgets(raw, sampled, total, maxTokens) \subseteq 1 .. (raw - 1)
  BY <1>5, <1>6, <1>7
<1> QED BY <1>8 DEF sampled

(* The answers of the rounds that start with so many left, by what those    *)
(* with one less end in.                                                   *)
Answers(outputs, total, maxTokens, left, later) ==
  LET sampled == [raw \in 1 .. total |-> SampleCommandOutputs(outputs, raw)]
  IN  [raw \in 1 .. total |->
        IF BareMarker(sampled[raw]) THEN {[fits |-> FALSE, raw |-> raw]}
        ELSE IF Fits(sampled[raw], total, maxTokens) THEN {[fits |-> TRUE, raw |-> raw]}
        ELSE IF raw <= 1 THEN {[fits |-> FALSE, raw |-> raw]}
        ELSE IF left = 0 THEN {[fits |-> FALSE, raw |-> 0]}
        ELSE UNION {later[b] : b \in NextBudgets(raw, sampled[raw], total, maxTokens)}]

Ended(outputs, total, maxTokens, rounds, ends) ==
  ends = [left \in 0 .. rounds |->
            Answers(outputs, total, maxTokens, left, ends[left - 1])]

(* The loop has its answers, however many rounds it takes.                  *)
LEMMA RoundsEnd ==
  ASSUME NEW outputs, NEW total, NEW maxTokens, NEW rounds \in Nat
  PROVE  \E ends : Ended(outputs, total, maxTokens, rounds, ends)
<1> DEFINE A(left, later) == Answers(outputs, total, maxTokens, left, later)
           Found(n) == \E ends : ends = [left \in 0 .. n |-> A(left, ends[left - 1])]
           Holds == {n \in Nat : Found(n)}
<1>1. \A x, y : A(0, x) = A(0, y)  BY Zenon DEF Answers
<1> HIDE DEF A
<1>2. Found(0)
  <2> DEFINE e == [left \in 0 .. 0 |-> A(0, {})]
  <2>1. e = [left \in 0 .. 0 |-> A(left, e[left - 1])]
    <3>1. \A left \in 0 .. 0 : left = 0  OBVIOUS
    <3>2. \A left \in 0 .. 0 : A(0, {}) = A(left, e[left - 1])  BY <1>1, <3>1
    <3> QED BY <3>2
  <2> HIDE DEF e
  <2> QED BY <2>1
<1>3. ASSUME NEW n \in Nat, Found(n) PROVE Found(n + 1)
  <2>1. PICK e : e = [left \in 0 .. n |-> A(left, e[left - 1])]  BY <1>3
  <2> DEFINE g == [left \in 0 .. (n + 1) |-> IF left = n + 1 THEN A(n + 1, e[n]) ELSE e[left]]
  <2>2. \A left \in 0 .. n : e[left] = A(left, e[left - 1])  BY <2>1
  <2>3. \A left \in 0 .. n : left \in 0 .. (n + 1) /\ left # n + 1  OBVIOUS
  <2>4. \A left \in 0 .. n : g[left] = e[left]  BY <2>3
  <2>5. g[n + 1] = A(n + 1, e[n])  OBVIOUS
  <2>6. g = [left \in 0 .. (n + 1) |-> g[left]]  OBVIOUS
  <2> HIDE DEF g
  <2>7. ASSUME NEW left \in 0 .. (n + 1) PROVE g[left] = A(left, g[left - 1])
    <3>1. CASE left = n + 1
      <4>1. n \in 0 .. n /\ left - 1 = n  BY <3>1
      <4> QED BY <2>4, <2>5, <3>1, <4>1
    <3>2. CASE left = 0
      <4>1. 0 \in 0 .. n  OBVIOUS
      <4> QED BY <1>1, <2>2, <2>4, <3>2, <4>1
    <3>3. CASE left \in 1 .. n
      <4>1. left \in 0 .. n /\ left - 1 \in 0 .. n  BY <3>3
      <4> QED BY <2>2, <2>4, <4>1
    <3> QED BY <3>1, <3>2, <3>3
  <2>8. g = [left \in 0 .. (n + 1) |-> A(left, g[left - 1])]  BY <2>6, <2>7
  <2> QED BY <2>8
<1> HIDE DEF Found
<1>4. 0 \in Holds /\ \A n \in Nat : n \in Holds => n + 1 \in Holds  BY <1>2, <1>3
<1>5. Nat \subseteq Holds
  <2> HIDE DEF Holds
  <2> QED BY <1>4, Induct
<1>6. Found(rounds)  BY <1>5
<1> QED BY <1>6, Zenon DEF Found, A, Ended

(* What the loop answers is what its rounds do.                             *)
LEMMA FitUnfolds ==
  ASSUME NEW outputs, NEW total, NEW maxTokens, NEW rounds \in Nat
  PROVE  \E ends : /\ Ended(outputs, total, maxTokens, rounds, ends)
                   /\ FitRounds(outputs, total, maxTokens, rounds) = ends[rounds][total]
<1> DEFINE ends == CHOOSE e : Ended(outputs, total, maxTokens, rounds, e)
<1>1. Ended(outputs, total, maxTokens, rounds, ends)  BY RoundsEnd
<1>2. FitRounds(outputs, total, maxTokens, rounds) = ends[rounds][total]
  BY Zenon DEF FitRounds, Ended, Answers
<1> QED BY <1>1, <1>2

(* An answer that may be given: of a budget within the limit, and, where    *)
(* the message is passed on, of samples that fit and are usable.            *)
Good(outputs, total, maxTokens, end) ==
  /\ end.raw \in 1 .. total
  /\ end.fits => /\ ~ BareMarker(SampleCommandOutputs(outputs, end.raw))
                 /\ Fits(SampleCommandOutputs(outputs, end.raw), total, maxTokens)

(* A round's answers are good, once those of the later rounds are.          *)
LEMMA RoundIsGood ==
  ASSUME NEW outputs \in Requests, NEW total \in Nat, NEW maxTokens \in Nat,
         NEW left \in Nat, NEW later, NEW raw \in 1 .. total, raw <= left + 1,
         \A b \in 1 .. (raw - 1) : left > 0 =>
           \A end \in later[b] : Good(outputs, total, maxTokens, end)
  PROVE  \A end \in Answers(outputs, total, maxTokens, left, later)[raw] :
           Good(outputs, total, maxTokens, end)
<1> DEFINE sampled == SampleCommandOutputs(outputs, raw)
           nexts == NextBudgets(raw, sampled, total, maxTokens)
           stop(fits) == [fits |-> fits, raw |-> raw]
           unusable == BareMarker(sampled)
           enough == Fits(sampled, total, maxTokens)
           answered == Answers(outputs, total, maxTokens, left, later)[raw]
<1> SUFFICES \A end \in answered : Good(outputs, total, maxTokens, end)  OBVIOUS
<1>1. raw \in Nat /\ total \in Nat  OBVIOUS
<1>2. answered = IF unusable THEN {stop(FALSE)}
              ELSE IF enough THEN {stop(TRUE)}
              ELSE IF raw <= 1 THEN {stop(FALSE)}
              ELSE IF left = 0 THEN {[fits |-> FALSE, raw |-> 0]}
              ELSE UNION {later[b] : b \in nexts}
  BY Zenon DEF Answers
<1>3. Good(outputs, total, maxTokens, stop(FALSE))  BY DEF Good
<1>4. ~ unusable /\ enough => Good(outputs, total, maxTokens, stop(TRUE))  BY DEF Good
<1>5. raw > 1 => left > 0 /\ nexts \subseteq 1 .. (raw - 1)  BY BudgetsShrink
<1> HIDE DEF unusable, enough, stop, nexts, answered
<1>6. CASE unusable  BY <1>2, <1>3, <1>6
<1>7. CASE ~ unusable /\ enough  BY <1>2, <1>4, <1>7
<1>8. CASE ~ unusable /\ ~ enough /\ raw <= 1  BY <1>2, <1>3, <1>8
<1>9. CASE ~ unusable /\ ~ enough /\ ~ (raw <= 1)
  <2>1. left # 0 /\ left > 0 /\ nexts \subseteq 1 .. (raw - 1)  BY <1>1, <1>5, <1>9
  <2>2. answered = UNION {later[b] : b \in nexts}  BY <1>2, <1>9, <2>1
  <2> QED BY <2>1, <2>2
<1> QED BY <1>6, <1>7, <1>8, <1>9

(* Every answer is good: there are always as many rounds left as it takes.  *)
LEMMA EveryEndIsGood ==
  ASSUME NEW outputs \in Requests, NEW total \in Nat \ {0}, NEW maxTokens \in Nat
  PROVE  \A end \in FitRounds(outputs, total, maxTokens, total) :
           Good(outputs, total, maxTokens, end)
<1>1. PICK ends : /\ Ended(outputs, total, maxTokens, total, ends)
                  /\ FitRounds(outputs, total, maxTokens, total) = ends[total][total]
  BY FitUnfolds
<1> DEFINE A(left, later) == Answers(outputs, total, maxTokens, left, later)
           G(end) == Good(outputs, total, maxTokens, end)
           Sound(n) == \A raw \in 1 .. total : raw <= n + 1 => \A end \in ends[n][raw] : G(end)
           Holds == {n \in Nat : n <= total => Sound(n)}
<1>2. \A n \in 0 .. total : ends[n] = A(n, ends[n - 1])  BY <1>1 DEF Ended
<1>3. ASSUME NEW n \in Nat, NEW later, NEW raw \in 1 .. total, raw <= n + 1,
             \A b \in 1 .. (raw - 1) : n > 0 => \A end \in later[b] : G(end)
      PROVE  \A end \in A(n, later)[raw] : G(end)
  BY <1>3, RoundIsGood
<1> HIDE DEF A, G
<1>4. Sound(0)
  <2>1. ASSUME NEW raw \in 1 .. total, raw <= 0 + 1 PROVE \A end \in ends[0][raw] : G(end)
    <3>1. ends[0] = A(0, ends[0 - 1]) /\ 0 \in Nat  BY <1>2
    <3> DEFINE later == ends[0 - 1]
    <3>2. \A b \in 1 .. (raw - 1) : 0 > 0 => \A end \in later[b] : G(end)  OBVIOUS
    <3> HIDE DEF later
    <3>3. \A end \in A(0, later)[raw] : G(end)  BY <1>3, <2>1, <3>2
    <3> QED BY <3>1, <3>3 DEF later
  <2> QED BY <2>1
<1>5. ASSUME NEW n \in Nat, n + 1 <= total, Sound(n) PROVE Sound(n + 1)
  <2>1. n + 1 \in 0 .. total /\ (n + 1) - 1 = n /\ n + 1 \in Nat  BY <1>5
  <2>2. ends[n + 1] = A(n + 1, ends[n])  BY <1>2, <2>1
  <2>3. ASSUME NEW raw \in 1 .. total, raw <= (n + 1) + 1
        PROVE \A end \in ends[n + 1][raw] : G(end)
    <3>1. \A b \in 1 .. (raw - 1) : b \in 1 .. total /\ b <= n + 1  BY <2>3
    <3>2. \A b \in 1 .. (raw - 1) : \A end \in ends[n][b] : G(end)  BY <1>5, <3>1
    <3>3. \A end \in A(n + 1, ends[n])[raw] : G(end)  BY <1>3, <2>1, <2>3, <3>2
    <3> QED BY <2>2, <3>3
  <2> QED BY <2>3
<1> HIDE DEF Sound
<1>6. 0 \in Holds  BY <1>4
<1>7. ASSUME NEW n \in Nat, n \in Holds PROVE n + 1 \in Holds
  <2>1. CASE n + 1 <= total  BY <1>5, <1>7, <2>1
  <2>2. CASE ~ (n + 1 <= total)  BY <2>2
  <2> QED BY <2>1, <2>2
<1>8. Nat \subseteq Holds
  <2> HIDE DEF Holds
  <2> QED BY <1>6, <1>7, Induct
<1>9. Sound(total)  BY <1>8
<1>10. total \in 1 .. total /\ total <= total + 1  OBVIOUS
<1> QED BY <1>1, <1>9, <1>10 DEF Sound, G

(* The fit loop (workflow.py): for every request and all limits, it ends    *)
(* within as many rounds as the limit has characters, every budget it stops *)
(* at is one, and a message it passes on keeps both limits and shows        *)
(* something of every output.                                              *)
THEOREM TheFitLoopIsSound ==
  ASSUME NEW outputs \in Requests, NEW total \in Nat \ {0}, NEW maxTokens \in Nat
  PROVE  FitIsSound(outputs, total, maxTokens)
<1>1. ASSUME NEW end \in FitRounds(outputs, total, maxTokens, total)
      PROVE  /\ end.raw > 0
             /\ end.fits =>
                  LET sampled == SampleCommandOutputs(outputs, end.raw) IN
                    /\ Serialized(sampled) <= total
                    /\ EstimatedTokens(sampled) <= maxTokens
                    /\ \A i \in DOMAIN outputs :
                         sampled[i].shown.head + sampled[i].shown.tail > 0
  <2> DEFINE sampled == SampleCommandOutputs(outputs, end.raw)
  <2>1. Good(outputs, total, maxTokens, end)  BY EveryEndIsGood
  <2>2. end.raw \in 1 .. total  BY <2>1 DEF Good
  <2>3. end.raw \in Nat /\ end.raw > 0  BY <2>2
  <2>4. ASSUME end.fits
        PROVE  ~ BareMarker(sampled) /\ Fits(sampled, total, maxTokens)
    BY <2>1, <2>4 DEF Good
  <2>5. ASSUME end.fits, NEW i \in DOMAIN outputs
        PROVE  sampled[i].shown.head + sampled[i].shown.tail > 0
    <3> DEFINE budget == Allocation(end.raw, Len(outputs), i)
               text == outputs[i]
               cut == TruncateOnLineBoundaries(text, budget)
    <3>1. /\ Len(outputs) \in Nat \ {0} /\ text \in Seq(Nat \ {0})
          /\ text \in Seq(Nat) /\ text # <<>>
      BY DEF Requests
    <3>2. \A k \in 1 .. Len(text) : text[k] > 0  BY <3>1
    <3>3. budget \in Nat  BY <2>3, <3>1, ShareIsLength
    <3>4. /\ sampled[i] = [allocated |-> budget, truncated |-> SumOf(text) > budget,
                           shown |-> cut]
          /\ DOMAIN sampled = DOMAIN outputs
      BY DEF SampleCommandOutputs
    <3> HIDE DEF budget, sampled
    <3>5. ~ (sampled[i].truncated /\ sampled[i].allocated <= Marker)
      BY <2>4, <2>5, <3>4 DEF BareMarker
    <3> HIDE DEF text
    <3>6. /\ sampled[i].allocated = budget /\ sampled[i].shown = cut
          /\ sampled[i].truncated = (SumOf(text) > budget)
      BY <3>4
    <3>7. SumOf(text) \in Nat /\ Marker \in Nat  BY <3>1, SumIsLength, FitAssumption
    <3>8. SumOf(text) <= budget \/ budget > Marker
      <4>1. CASE SumOf(text) > budget
        <5>1. ~ (budget <= Marker)  BY <3>5, <3>6, <4>1
        <5> QED BY <3>3, <3>7, <5>1
      <4>2. CASE ~ (SumOf(text) > budget)  BY <3>3, <3>7, <4>2
      <4> QED BY <4>1, <4>2
    <3>9. cut.head + cut.tail > 0  BY <3>1, <3>2, <3>3, <3>8, CutIsHonest
    <3> QED BY <3>6, <3>9
  <2> HIDE DEF sampled
  <2>6. end.fits => /\ Serialized(sampled) <= total
                    /\ EstimatedTokens(sampled) <= maxTokens
                    /\ \A i \in DOMAIN outputs :
                         sampled[i].shown.head + sampled[i].shown.tail > 0
    BY <2>4, <2>5 DEF Fits
  <2> USE DEF sampled
  <2> QED BY <2>3, <2>6
<1> QED BY <1>1, Zenon DEF FitIsSound

-----------------------------------------------------------------------------
(* The smaller of two numbers.                                              *)
LEMMA Smaller ==
  ASSUME NEW a \in Int, NEW b \in Int
  PROVE  Min({a, b}) = IF a <= b THEN a ELSE b
<1> DEFINE m == IF a <= b THEN a ELSE b
<1>1. m \in {a, b} /\ \A y \in {a, b} : m <= y  OBVIOUS
<1>2. \A x \in {a, b} : (\A y \in {a, b} : x <= y) => x = m  OBVIOUS
<1>3. Min({a, b}) \in {a, b} /\ \A y \in {a, b} : Min({a, b}) <= y
  <2> HIDE DEF m
  <2> QED BY <1>1 DEF Min
<1> QED BY <1>2, <1>3

\* A list, and what it is after one more event, where c were counted before.
Bounded(rows, c) == Len(rows) = Min({c, EventLimit})
Grown(S, rows, event, c, more) ==
  /\ more \in Seq(S) /\ Bounded(more, c + 1)
  /\ \A j \in 1 .. Len(rows) : more[j] = rows[j]
  /\ c + 1 <= EventLimit => more[c + 1] = event

(* A list holds what was counted, up to its limit, first things first.      *)
LEMMA ListGrows ==
  ASSUME NEW S, NEW rows \in Seq(S), NEW event \in S, NEW c \in Nat, Bounded(rows, c)
  PROVE  Grown(S, rows, event, c, ListedUpTo(rows, event))
<1>1. EventLimit \in Nat \ {0}  BY TracerAssumption
<1>2. Len(rows) = IF c <= EventLimit THEN c ELSE EventLimit  BY <1>1, Smaller DEF Bounded
<1>3. Min({c + 1, EventLimit}) = IF c + 1 <= EventLimit THEN c + 1 ELSE EventLimit
  BY <1>1, Smaller
<1>4. CASE Len(rows) < EventLimit
  <2>1. ListedUpTo(rows, event) = Append(rows, event)  BY <1>4 DEF ListedUpTo
  <2>2. Len(rows) = c /\ c + 1 <= EventLimit  BY <1>1, <1>2, <1>4
  <2> QED BY <1>3, <2>1, <2>2, Extended DEF Bounded, Grown
<1>5. CASE ~ (Len(rows) < EventLimit)
  <2>1. ListedUpTo(rows, event) = rows  BY <1>5 DEF ListedUpTo
  <2>2. Len(rows) = EventLimit /\ ~ (c + 1 <= EventLimit)  BY <1>1, <1>2, <1>5
  <2> QED BY <1>3, <2>1, <2>2 DEF Bounded, Grown
<1> QED BY <1>4, <1>5
-----------------------------------------------------------------------------
(* Activations of the reasoning recovery.                                   *)
RecoveryStates(Policies) ==
  [policy : Policies \union {Unseen}, count : Nat, rounds : Seq(Policies)]

\* The tracer of the recoveries before its first activation.
NoRecovery == [policy |-> Unseen, count |-> 0, rounds |-> <<>>]

\* What the observations stay.
LEMMA RecoveryTyped ==
  ASSUME NEW Policies, NEW r \in RecoveryStates(Policies), NEW event \in Policies
  PROVE  RecoveryObserved(r, event) \in RecoveryStates(Policies)
<1>1. r.rounds \in Seq(Policies) /\ r.count + 1 \in Nat  BY DEF RecoveryStates
<1>2. ListedUpTo(r.rounds, event) \in Seq(Policies)  BY <1>1 DEF ListedUpTo
<1> DEFINE rows == ListedUpTo(r.rounds, event)
<1> HIDE DEF rows
<1>3. RecoveryObserved(r, event) =
        IF r.policy \notin {Unseen, event} THEN r
        ELSE [r EXCEPT !.policy = event, !.count = @ + 1, !.rounds = rows]
  BY DEF RecoveryObserved, rows
<1>4. rows \in Seq(Policies)  BY <1>2 DEF rows
<1> QED BY <1>1, <1>3, <1>4 DEF RecoveryStates

\* The recoveries as the fold counts them, over the places of the events.
Recovered(events, n, f) ==
  f = [s \in SUBSET (1 .. n) |->
         IF s = {} THEN NoRecovery ELSE RecoveryObserved(f[s \ {Max(s)}], events[Max(s)])]

(* The recovery's activations are observed one after the other.             *)
LEMMA RecoveryRuns ==
  ASSUME NEW Policies, NEW events \in Seq(Policies)
  PROVE  \E r : /\ r[0] = NoRecovery
                /\ \A k \in 1 .. Len(events) : r[k] = RecoveryObserved(r[k - 1], events[k])
                /\ Recoveries(events) = r[Len(events)]
<1> DEFINE n == Len(events)
           X == RecoveryStates(Policies)
           step == [p \in (1 .. n) \X X |-> RecoveryObserved(p[2], events[p[1]])]
           f == CHOOSE g : Recovered(events, n, g)
<1>1. n \in Nat /\ DOMAIN events = 1 .. n /\ \A k \in 1 .. n : events[k] \in Policies
  OBVIOUS
<1> HIDE DEF n
<1>2. NoRecovery \in X  BY DEF NoRecovery, RecoveryStates
<1>3. step \in [(1 .. n) \X X -> X]
  <2>1. \A k \in 1 .. n, x \in X : RecoveryObserved(x, events[k]) \in X
    BY <1>1, RecoveryTyped
  <2> HIDE DEF X
  <2> QED BY <2>1
<1>4. PICK g \in [SUBSET (1 .. n) -> X] : Folding(step, NoRecovery, n, g)
  <2> HIDE DEF step, X
  <2> QED BY <1>1, <1>2, <1>3, FoldExists
<1>5. Recovered(events, n, g)
  <2>1. ASSUME NEW s \in SUBSET (1 .. n), s # {}
        PROVE  step[<<Max(s), g[s \ {Max(s)}]>>]
                 = RecoveryObserved(g[s \ {Max(s)}], events[Max(s)])
    <3>1. Max(s) \in 1 .. n  BY <1>1, <2>1, LargestIsMember
    <3>2. g[s \ {Max(s)}] \in X
      <4> HIDE DEF X
      <4> QED OBVIOUS
    <3> HIDE DEF X
    <3> QED BY <3>1, <3>2
  <2> HIDE DEF step, X
  <2> QED BY <1>4, <2>1 DEF Folding, Recovered
<1>6. Recovered(events, n, f)  BY <1>5
<1>7. Recoveries(events) = f[1 .. n]
  BY <1>1 DEF Recoveries, FoldLeft, MapThenFoldSet, Recovered, NoRecovery
<1> HIDE DEF f
<1> DEFINE r == [k \in 0 .. n |-> f[1 .. k]]
<1>8. r[0] = NoRecovery
  <2>1. 1 .. 0 = {} /\ 0 \in 0 .. n  BY <1>1
  <2> QED BY <1>6, <2>1 DEF Recovered
<1>9. ASSUME NEW k \in 1 .. n PROVE r[k] = RecoveryObserved(r[k - 1], events[k])
  <2>1. k \in 0 .. n /\ k - 1 \in 0 .. n  BY <1>1
  <2>2. /\ 1 .. k \in SUBSET (1 .. n) /\ 1 .. k # {}
        /\ Max(1 .. k) = k /\ (1 .. k) \ {k} = 1 .. (k - 1)
    BY <1>1, LastPosition
  <2>3. f[1 .. k] = RecoveryObserved(f[(1 .. k) \ {Max(1 .. k)}], events[Max(1 .. k)])
    BY <1>6, <2>2 DEF Recovered
  <2> QED BY <2>1, <2>2, <2>3
<1>10. n \in 0 .. n /\ Recoveries(events) = r[n]  BY <1>1, <1>7
<1> HIDE DEF r
<1> QED BY <1>8, <1>9, <1>10 DEF n

\* Where a policy was seen, of the first k.
OfPolicy(events, policy, k) == {i \in 1 .. k : events[i] = policy}

\* What is kept after k activations of the recovery.
RecoveryKept(events, k, r) ==
  /\ r.policy = IF k = 0 THEN Unseen ELSE events[1]
  /\ r.count = Cardinality(OfPolicy(events, r.policy, k))
  /\ Bounded(r.rounds, r.count)
  /\ \A j \in 1 .. Len(r.rounds) : r.rounds[j] = r.policy

(* The places seen of a policy are finitely many, and one more if it is     *)
(* seen once more.                                                         *)
LEMMA PlacesGrow ==
  ASSUME NEW k \in Nat, NEW places \in SUBSET (1 .. k)
  PROVE  /\ IsFiniteSet(places) /\ Cardinality(places) \in Nat
         /\ k + 1 \notin places
         /\ IsFiniteSet(places \union {k + 1})
         /\ Cardinality(places \union {k + 1}) = Cardinality(places) + 1
<1>1. IsFiniteSet(1 .. k)  BY FS_Interval
<1>2. IsFiniteSet(places)  BY <1>1, FS_Subset
<1>3. k + 1 \notin places  OBVIOUS
<1> QED BY <1>2, <1>3, FS_CardinalityType, FS_AddElement

(* One more activation: another policy changes nothing, the same one is     *)
(* counted, and listed while there is room.                                *)
LEMMA RecoveryStep ==
  ASSUME NEW Policies, Unseen \notin Policies, NEW events \in Seq(Policies),
         NEW k \in Nat, k + 1 \in 1 .. Len(events), NEW r \in RecoveryStates(Policies),
         RecoveryKept(events, k, r)
  PROVE  RecoveryKept(events, k + 1, RecoveryObserved(r, events[k + 1]))
<1> DEFINE e == events[k + 1]
           rows == ListedUpTo(r.rounds, e)
           after == RecoveryObserved(r, e)
<1> SUFFICES RecoveryKept(events, k + 1, after)  OBVIOUS
<1>1. /\ e \in Policies /\ events[1] \in Policies /\ e # Unseen /\ events[1] # Unseen
      /\ r.policy \in Policies \union {Unseen} /\ r.count \in Nat /\ r.rounds \in Seq(Policies)
  BY DEF RecoveryStates
<1>2. CASE r.policy \notin {Unseen, e}
  <2>1. after = r  BY <1>2 DEF RecoveryObserved
  <2>2. k # 0 /\ k + 1 # 0  BY <1>2 DEF RecoveryKept
  <2>3. OfPolicy(events, r.policy, k + 1) = OfPolicy(events, r.policy, k)
    BY <1>2 DEF OfPolicy
  <2> QED BY <2>1, <2>2, <2>3 DEF RecoveryKept
<1>3. CASE r.policy \in {Unseen, e}
  <2>1. /\ after.policy = e /\ after.count = r.count + 1 /\ after.rounds = rows
    BY <1>3 DEF RecoveryObserved, RecoveryStates
  <2>2. e = events[1] /\ (r.policy = Unseen => k = 0)
    <3>1. CASE k = 0  BY <3>1
    <3>2. CASE k # 0  BY <1>1, <1>3, <3>2 DEF RecoveryKept
    <3> QED BY <3>1, <3>2
  <2>3. OfPolicy(events, e, k + 1) = OfPolicy(events, r.policy, k) \union {k + 1}
    <3>1. CASE r.policy = Unseen
      <4>1. k = 0  BY <2>2, <3>1
      <4> QED BY <4>1 DEF OfPolicy
    <3>2. CASE r.policy = e  BY <3>2 DEF OfPolicy
    <3> QED BY <1>3, <3>1, <3>2
  <2>4. OfPolicy(events, r.policy, k) \in SUBSET (1 .. k)  BY DEF OfPolicy
  <2>5. Cardinality(OfPolicy(events, e, k + 1)) = r.count + 1
    <3>1. r.count = Cardinality(OfPolicy(events, r.policy, k))  BY DEF RecoveryKept
    <3>2. Cardinality(OfPolicy(events, r.policy, k) \union {k + 1}) = r.count + 1
      BY <2>4, <3>1, PlacesGrow
    <3> QED BY <2>3, <3>2
  <2> HIDE DEF e
  <2>6. Grown(Policies, r.rounds, e, r.count, rows)
    <3>1. Bounded(r.rounds, r.count)  BY DEF RecoveryKept
    <3>2. e \in Policies /\ r.count \in Nat /\ r.rounds \in Seq(Policies)  BY <1>1
    <3> QED BY <3>1, <3>2, ListGrows
  <2> HIDE DEF rows
  <2>7. ASSUME NEW j \in 1 .. Len(rows) PROVE rows[j] = e
    <3>1. EventLimit \in Nat  BY TracerAssumption
    <3>2. Len(r.rounds) = IF r.count <= EventLimit THEN r.count ELSE EventLimit
      BY <1>1, <3>1, Smaller DEF RecoveryKept, Bounded
    <3>3. Len(rows) = IF r.count + 1 <= EventLimit THEN r.count + 1 ELSE EventLimit
      BY <1>1, <2>6, <3>1, Smaller DEF Grown, Bounded
    <3>4. Len(rows) \in Nat /\ Len(r.rounds) \in Nat  BY <1>1, <2>6 DEF Grown
    <3>5. CASE j \in 1 .. Len(r.rounds)
      <4>1. rows[j] = r.policy  BY <2>6, <3>5 DEF RecoveryKept, Grown
      <4>2. r.policy = e
        <5>1. ASSUME r.policy = Unseen PROVE FALSE
          <6>1. OfPolicy(events, r.policy, k) = {}  BY <2>2, <5>1 DEF OfPolicy
          <6>2. r.count = 0  BY <6>1, FS_EmptySet DEF RecoveryKept
          <6> QED BY <3>1, <3>2, <3>5, <6>2
        <5> QED BY <1>3, <5>1
      <4> QED BY <4>1, <4>2
    <3>6. CASE j \notin 1 .. Len(r.rounds)
      <4>1. j = r.count + 1 /\ r.count + 1 <= EventLimit
        BY <1>1, <3>1, <3>2, <3>3, <3>4, <3>6
      <4> QED BY <2>6, <4>1 DEF Grown
    <3> QED BY <3>5, <3>6
  <2>8. k + 1 # 0  OBVIOUS
  <2> HIDE DEF after
  <2> QED BY <2>1, <2>2, <2>5, <2>6, <2>7, <2>8 DEF RecoveryKept, Grown
<1> QED BY <1>2, <1>3

(* For any activations of any policies: what is counted and listed is what  *)
(* was seen of the first policy, the list cut off at its limit.             *)
THEOREM RecoveryIsOfOnePolicy ==
  ASSUME NEW Policies, Unseen \notin Policies, NEW events \in Seq(Policies)
  PROVE  RecoveriesAreOfOnePolicy(events)
<1> DEFINE n == Len(events)
           R == Recoveries(events)
<1>1. n \in Nat /\ DOMAIN events = 1 .. n /\ (events = <<>> <=> n = 0)  OBVIOUS
<1>2. PICK r : /\ r[0] = NoRecovery
               /\ \A k \in 1 .. n : r[k] = RecoveryObserved(r[k - 1], events[k])
               /\ R = r[n]
  BY RecoveryRuns
<1> DEFINE Holds == {k \in Nat : k <= n => /\ r[k] \in RecoveryStates(Policies)
                                           /\ RecoveryKept(events, k, r[k])}
<1>3. 0 \in Holds
  <2>1. NoRecovery \in RecoveryStates(Policies)  BY DEF NoRecovery, RecoveryStates
  <2>2. OfPolicy(events, Unseen, 0) = {}  BY DEF OfPolicy
  <2>3. Min({0, EventLimit}) = 0  BY TracerAssumption, Smaller
  <2>4. Len(<<>>) = 0 /\ 1 .. 0 = {}  OBVIOUS
  <2>5. RecoveryKept(events, 0, NoRecovery)
    BY <2>2, <2>3, <2>4, FS_EmptySet DEF RecoveryKept, Bounded, NoRecovery
  <2> QED BY <1>2, <2>1, <2>5
<1>4. ASSUME NEW k \in Nat, k \in Holds PROVE k + 1 \in Holds
  <2>1. SUFFICES ASSUME k + 1 <= n
                 PROVE  /\ r[k + 1] \in RecoveryStates(Policies)
                        /\ RecoveryKept(events, k + 1, r[k + 1])
    OBVIOUS
  <2>2. k + 1 \in 1 .. n /\ (k + 1) - 1 = k /\ k <= n  BY <1>1, <2>1
  <2>3. r[k] \in RecoveryStates(Policies) /\ RecoveryKept(events, k, r[k])
    BY <1>4, <2>2
  <2>4. r[k + 1] = RecoveryObserved(r[k], events[k + 1])  BY <1>2, <2>2
  <2>5. events[k + 1] \in Policies  BY <2>2
  <2> QED BY <2>2, <2>3, <2>4, <2>5, RecoveryTyped, RecoveryStep
<1>5. Nat \subseteq Holds
  <2> HIDE DEF Holds
  <2> QED BY <1>3, <1>4, Induct
<1>6. R \in RecoveryStates(Policies) /\ RecoveryKept(events, n, R)  BY <1>1, <1>2, <1>5
<1> HIDE DEF R
<1>7. {i \in DOMAIN events : events[i] = R.policy} = OfPolicy(events, R.policy, n)
  BY <1>1 DEF OfPolicy
<1>8. R.rounds = [j \in 1 .. Min({R.count, EventLimit}) |-> R.policy]
  <2>1. R.rounds \in Seq(Policies)  BY <1>6 DEF RecoveryStates
  <2>2. R.rounds = [j \in 1 .. Len(R.rounds) |-> R.rounds[j]]  BY <2>1
  <2> QED BY <1>6, <2>2 DEF RecoveryKept, Bounded
<1> QED BY <1>1, <1>6, <1>7, <1>8 DEF RecoveriesAreOfOnePolicy, RecoveryKept, R
-----------------------------------------------------------------------------
\* What a round tracer can hold, and what it starts with.
RoundTracers(Told, Values) ==
  [recording : BOOLEAN, facts : Values \union {Unseen}, rows : Seq(Told)]

NoRounds(recording) == [recording |-> recording, facts |-> Unseen, rows |-> <<>>]

\* Events with the fields the round tracer looks at.
AreTold(Told, Values) ==
  \A e \in Told : /\ e.sensitive \in BOOLEAN /\ e.value \in Values

(* What an event changes of the facts and of the rows.                      *)
LEMMA RoundShape ==
  ASSUME NEW Told, NEW Values, AreTold(Told, Values), NEW event \in Told,
         NEW r \in RoundTracers(Told, Values)
  PROVE  LET after == RoundObserved(r, event) IN
           /\ after \in RoundTracers(Told, Values)
           /\ after.facts = IF event.name = "facts" /\ ~ event.sensitive
                              THEN event.value ELSE r.facts
           /\ \/ after.rows = r.rows
              \/ ~ event.sensitive /\ after.rows = Append(r.rows, event)
<1> DEFINE after == RoundObserved(r, event)
           refused == \/ event.sensitive
                      \/ event.name = "forced"
                           /\ (event.phase # "schema" \/ ~ event.versioned)
           facts == IF event.name = "facts" THEN event.value ELSE r.facts
           told == [r EXCEPT !.facts = facts]
<1>1. /\ r.facts \in Values \union {Unseen} /\ r.rows \in Seq(Told)
      /\ event.value \in Values /\ Append(r.rows, event) \in Seq(Told)
  BY DEF RoundTracers, AreTold
<1>2. refused => after = r  BY DEF RoundObserved
<1>3. ~ refused => \/ after = told
                   \/ after = [told EXCEPT !.rows = Append(@, event)]
  <2>1. CASE event.name = "facts"  BY <2>1 DEF RoundObserved
  <2>2. CASE event.name # "facts"
    <3>1. told = r  BY <2>2 DEF RoundTracers
    <3> QED BY <2>2, <3>1 DEF RoundObserved
  <2> QED BY <2>1, <2>2
<1>4. /\ event.sensitive => refused
      /\ refused => event.sensitive \/ event.name # "facts"
  OBVIOUS
<1>5. facts \in Values \union {Unseen}  BY <1>1
<1>6. /\ told \in RoundTracers(Told, Values) /\ told.facts = facts /\ told.rows = r.rows
      /\ [told EXCEPT !.rows = Append(@, event)] \in RoundTracers(Told, Values)
      /\ [told EXCEPT !.rows = Append(@, event)].facts = facts
      /\ [told EXCEPT !.rows = Append(@, event)].rows = Append(r.rows, event)
  <2> HIDE DEF facts
  <2> QED BY <1>1, <1>5 DEF RoundTracers
<1> HIDE DEF after, refused, told
<1>7. CASE refused
  <2>1. event.sensitive \/ event.name # "facts"  BY <1>4, <1>7
  <2> QED BY <1>2, <1>7, <2>1 DEF after
<1>8. CASE ~ refused
  <2>1. ~ event.sensitive  BY <1>4, <1>8
  <2>2. after.facts = facts /\ after \in RoundTracers(Told, Values)
    BY <1>3, <1>6, <1>8
  <2>3. after.rows = r.rows \/ after.rows = Append(r.rows, event)
    BY <1>3, <1>6, <1>8
  <2> QED BY <2>1, <2>2, <2>3 DEF after
<1> QED BY <1>7, <1>8

\* The rounds as the fold takes them, over the places of the events.
Rounded(events, recording, n, f) ==
  f = [s \in SUBSET (1 .. n) |->
         IF s = {} THEN NoRounds(recording)
         ELSE RoundObserved(f[s \ {Max(s)}], events[Max(s)])]

(* The round tracer takes its events one after the other.                   *)
LEMMA RoundRuns ==
  ASSUME NEW Told, NEW Values, AreTold(Told, Values), NEW events \in Seq(Told),
         NEW recording \in BOOLEAN
  PROVE  \E r : /\ r[0] = NoRounds(recording)
                /\ \A k \in 1 .. Len(events) : r[k] = RoundObserved(r[k - 1], events[k])
                /\ Rounds(events, recording) = r[Len(events)]
<1> DEFINE n == Len(events)
           X == RoundTracers(Told, Values)
           step == [p \in (1 .. n) \X X |-> RoundObserved(p[2], events[p[1]])]
           f == CHOOSE g : Rounded(events, recording, n, g)
<1>1. n \in Nat /\ DOMAIN events = 1 .. n /\ \A k \in 1 .. n : events[k] \in Told
  OBVIOUS
<1> HIDE DEF n
<1>2. NoRounds(recording) \in X  BY DEF NoRounds, RoundTracers
<1>3. step \in [(1 .. n) \X X -> X]
  <2>1. \A k \in 1 .. n, x \in X : RoundObserved(x, events[k]) \in X
    BY <1>1, RoundShape
  <2> HIDE DEF X
  <2> QED BY <2>1
<1>4. PICK g \in [SUBSET (1 .. n) -> X] : Folding(step, NoRounds(recording), n, g)
  <2> HIDE DEF step, X
  <2> QED BY <1>1, <1>2, <1>3, FoldExists
<1>5. Rounded(events, recording, n, g)
  <2>1. ASSUME NEW s \in SUBSET (1 .. n), s # {}
        PROVE  step[<<Max(s), g[s \ {Max(s)}]>>]
                 = RoundObserved(g[s \ {Max(s)}], events[Max(s)])
    <3>1. Max(s) \in 1 .. n  BY <1>1, <2>1, LargestIsMember
    <3>2. g[s \ {Max(s)}] \in X
      <4> HIDE DEF X
      <4> QED OBVIOUS
    <3> HIDE DEF X
    <3> QED BY <3>1, <3>2
  <2> HIDE DEF step, X
  <2> QED BY <1>4, <2>1 DEF Folding, Rounded
<1>6. Rounded(events, recording, n, f)  BY <1>5
<1>7. Rounds(events, recording) = f[1 .. n]
  BY <1>1 DEF Rounds, FoldLeft, MapThenFoldSet, Rounded, NoRounds
<1> HIDE DEF f
<1> DEFINE r == [k \in 0 .. n |-> f[1 .. k]]
<1>8. r[0] = NoRounds(recording)
  <2>1. 1 .. 0 = {} /\ 0 \in 0 .. n  BY <1>1
  <2> QED BY <1>6, <2>1 DEF Rounded
<1>9. ASSUME NEW k \in 1 .. n PROVE r[k] = RoundObserved(r[k - 1], events[k])
  <2>1. k \in 0 .. n /\ k - 1 \in 0 .. n  BY <1>1
  <2>2. /\ 1 .. k \in SUBSET (1 .. n) /\ 1 .. k # {}
        /\ Max(1 .. k) = k /\ (1 .. k) \ {k} = 1 .. (k - 1)
    BY <1>1, LastPosition
  <2>3. f[1 .. k] = RoundObserved(f[(1 .. k) \ {Max(1 .. k)}], events[Max(1 .. k)])
    BY <1>6, <2>2 DEF Rounded
  <2> QED BY <2>1, <2>2, <2>3
<1>10. n \in 0 .. n /\ Rounds(events, recording) = r[n]  BY <1>1, <1>7
<1> HIDE DEF r
<1> QED BY <1>8, <1>9, <1>10 DEF n

\* Where facts were told, of the first k events.
FactsTold(events, k) ==
  {i \in 1 .. k : events[i].name = "facts" /\ ~ events[i].sensitive}

\* What is kept after k events: the last facts told openly, and open rows only.
RoundsKept(events, k, r) ==
  /\ r.facts = IF FactsTold(events, k) = {} THEN Unseen
               ELSE events[Max(FactsTold(events, k))].value
  /\ \A i \in 1 .. Len(r.rows) : ~ r.rows[i].sensitive

(* One more event: its facts replace those before it, or none do.           *)
LEMMA RoundStep ==
  ASSUME NEW Told, NEW Values, AreTold(Told, Values), NEW events \in Seq(Told),
         NEW k \in Nat, k + 1 \in 1 .. Len(events), NEW r \in RoundTracers(Told, Values),
         RoundsKept(events, k, r)
  PROVE  RoundsKept(events, k + 1, RoundObserved(r, events[k + 1]))
<1> DEFINE e == events[k + 1]
           after == RoundObserved(r, e)
<1> SUFFICES RoundsKept(events, k + 1, after)  OBVIOUS
<1>1. e \in Told /\ r.rows \in Seq(Told)  BY DEF RoundTracers
<1> HIDE DEF e
<1>2. /\ after.facts = IF e.name = "facts" /\ ~ e.sensitive THEN e.value ELSE r.facts
      /\ \/ after.rows = r.rows
         \/ ~ e.sensitive /\ after.rows = Append(r.rows, e)
  BY <1>1, RoundShape
<1> HIDE DEF after
<1>3. after.facts = IF FactsTold(events, k + 1) = {} THEN Unseen
                    ELSE events[Max(FactsTold(events, k + 1))].value
  <2>1. CASE e.name = "facts" /\ ~ e.sensitive
    <3>1. k + 1 \in FactsTold(events, k + 1)  BY <2>1 DEF FactsTold, e
    <3>2. \A y \in FactsTold(events, k + 1) : y \in Int /\ k + 1 >= y  BY DEF FactsTold
    <3>3. Max(FactsTold(events, k + 1)) = k + 1
      <4>1. \A x \in FactsTold(events, k + 1) :
              (\A y \in FactsTold(events, k + 1) : x >= y) => x = k + 1
        BY <3>1, <3>2
      <4>2. /\ Max(FactsTold(events, k + 1)) \in FactsTold(events, k + 1)
            /\ \A y \in FactsTold(events, k + 1) : Max(FactsTold(events, k + 1)) >= y
        BY <3>1, <3>2 DEF Max
      <4> QED BY <4>1, <4>2
    <3> QED BY <1>2, <2>1, <3>1, <3>3 DEF e
  <2>2. CASE ~ (e.name = "facts" /\ ~ e.sensitive)
    <3>1. FactsTold(events, k + 1) = FactsTold(events, k)  BY <2>2 DEF FactsTold, e
    <3> QED BY <1>2, <2>2, <3>1 DEF RoundsKept
  <2> QED BY <2>1, <2>2
<1>4. ASSUME NEW i \in 1 .. Len(after.rows) PROVE ~ after.rows[i].sensitive
  <2>1. CASE after.rows = r.rows  BY <1>4, <2>1 DEF RoundsKept
  <2>2. CASE ~ e.sensitive /\ after.rows = Append(r.rows, e)
    <3>1. /\ Len(after.rows) = Len(r.rows) + 1 /\ Len(r.rows) \in Nat
          /\ \A j \in 1 .. Len(r.rows) : after.rows[j] = r.rows[j]
          /\ after.rows[Len(r.rows) + 1] = e
      BY <1>1, <2>2, Extended
    <3>2. CASE i \in 1 .. Len(r.rows)  BY <3>1, <3>2 DEF RoundsKept
    <3>3. CASE i = Len(r.rows) + 1  BY <2>2, <3>1, <3>3
    <3> QED BY <3>1, <3>2, <3>3
  <2> QED BY <1>2, <2>1, <2>2
<1> QED BY <1>3, <1>4 DEF RoundsKept

(* For any events: the facts a trial keeps are the last it was told,        *)
(* whether or not rows are recorded, and no row is of a sensitive event.    *)
THEOREM FactsAreTheLastTold ==
  ASSUME NEW Told, NEW Values, AreTold(Told, Values), NEW events \in Seq(Told),
         NEW recording \in BOOLEAN
  PROVE  FactsOutliveRows(events, recording)
<1> DEFINE n == Len(events)
           R == Rounds(events, recording)
<1>1. n \in Nat /\ DOMAIN events = 1 .. n  OBVIOUS
<1>2. PICK r : /\ r[0] = NoRounds(recording)
               /\ \A k \in 1 .. n : r[k] = RoundObserved(r[k - 1], events[k])
               /\ R = r[n]
  BY RoundRuns
<1> DEFINE Holds == {k \in Nat : k <= n => /\ r[k] \in RoundTracers(Told, Values)
                                           /\ RoundsKept(events, k, r[k])}
<1>3. 0 \in Holds
  <2>1. NoRounds(recording) \in RoundTracers(Told, Values)
    BY DEF NoRounds, RoundTracers
  <2>2. FactsTold(events, 0) = {} /\ 1 .. Len(<<>>) = {}  BY DEF FactsTold
  <2>3. RoundsKept(events, 0, NoRounds(recording))
    BY <2>2 DEF RoundsKept, NoRounds
  <2> QED BY <1>2, <2>1, <2>3
<1>4. ASSUME NEW k \in Nat, k \in Holds PROVE k + 1 \in Holds
  <2>1. SUFFICES ASSUME k + 1 <= n
                 PROVE  /\ r[k + 1] \in RoundTracers(Told, Values)
                        /\ RoundsKept(events, k + 1, r[k + 1])
    OBVIOUS
  <2>2. k + 1 \in 1 .. n /\ (k + 1) - 1 = k /\ k <= n  BY <1>1, <2>1
  <2>3. r[k] \in RoundTracers(Told, Values) /\ RoundsKept(events, k, r[k])
    BY <1>4, <2>2
  <2>4. r[k + 1] = RoundObserved(r[k], events[k + 1])  BY <1>2, <2>2
  <2>5. events[k + 1] \in Told  BY <2>2
  <2> QED BY <2>2, <2>3, <2>4, <2>5, RoundShape, RoundStep
<1>5. Nat \subseteq Holds
  <2> HIDE DEF Holds
  <2> QED BY <1>3, <1>4, Induct
<1>6. R \in RoundTracers(Told, Values) /\ RoundsKept(events, n, R)  BY <1>1, <1>2, <1>5
<1> HIDE DEF R
<1>7. {i \in DOMAIN events : events[i].name = "facts" /\ ~ events[i].sensitive}
        = FactsTold(events, n)
  BY <1>1 DEF FactsTold
<1>8. DOMAIN R.rows = 1 .. Len(R.rows)  BY <1>6 DEF RoundTracers
<1> QED BY <1>6, <1>7, <1>8 DEF FactsOutliveRows, RoundsKept, R
-----------------------------------------------------------------------------
\* The selection as the fold makes it, over the places of the registry.
Picked(registry, asked, n, f) ==
  f = [s \in SUBSET (1 .. n) |->
         IF s = {} THEN <<>>
         ELSE IF Chosen(registry[Max(s)], asked)
           THEN Append(f[s \ {Max(s)}], registry[Max(s)])
           ELSE f[s \ {Max(s)}]]

(* A selection takes the data sets of the registry one after the other.     *)
LEMMA SelectionRuns ==
  ASSUME NEW D, NEW registry \in Seq(D), NEW asked
  PROVE  \E r : /\ r[0] = <<>>
                /\ \A k \in 1 .. Len(registry) :
                     r[k] = IF Chosen(registry[k], asked)
                              THEN Append(r[k - 1], registry[k]) ELSE r[k - 1]
                /\ ChosenOf(registry, asked) = r[Len(registry)]
<1> DEFINE n == Len(registry)
           X == Seq(D)
           step == [p \in (1 .. n) \X X |->
                      IF Chosen(registry[p[1]], asked) THEN Append(p[2], registry[p[1]])
                      ELSE p[2]]
           f == CHOOSE g : Picked(registry, asked, n, g)
<1>1. n \in Nat /\ DOMAIN registry = 1 .. n /\ \A k \in 1 .. n : registry[k] \in D
  OBVIOUS
<1> HIDE DEF n
<1>2. <<>> \in X  OBVIOUS
<1>3. step \in [(1 .. n) \X X -> X]
  <2>1. \A k \in 1 .. n, x \in X : Append(x, registry[k]) \in X  BY <1>1
  <2> HIDE DEF X
  <2> QED BY <2>1
<1>4. PICK g \in [SUBSET (1 .. n) -> X] : Folding(step, <<>>, n, g)
  <2> HIDE DEF step, X
  <2> QED BY <1>1, <1>2, <1>3, FoldExists
<1>5. Picked(registry, asked, n, g)
  <2>1. ASSUME NEW s \in SUBSET (1 .. n), s # {}
        PROVE  step[<<Max(s), g[s \ {Max(s)}]>>]
                 = IF Chosen(registry[Max(s)], asked)
                     THEN Append(g[s \ {Max(s)}], registry[Max(s)])
                     ELSE g[s \ {Max(s)}]
    <3>1. Max(s) \in 1 .. n  BY <1>1, <2>1, LargestIsMember
    <3>2. g[s \ {Max(s)}] \in X
      <4> HIDE DEF X
      <4> QED OBVIOUS
    <3> HIDE DEF X
    <3> QED BY <3>1, <3>2
  <2> HIDE DEF step, X
  <2> QED BY <1>4, <2>1 DEF Folding, Picked
<1>6. Picked(registry, asked, n, f)  BY <1>5
<1>7. ChosenOf(registry, asked) = f[1 .. n]
  BY <1>1 DEF ChosenOf, FoldLeft, MapThenFoldSet, Picked
<1> HIDE DEF f
<1> DEFINE r == [k \in 0 .. n |-> f[1 .. k]]
<1>8. r[0] = <<>>
  <2>1. 1 .. 0 = {} /\ 0 \in 0 .. n  BY <1>1
  <2> QED BY <1>6, <2>1 DEF Picked
<1>9. ASSUME NEW k \in 1 .. n
      PROVE  r[k] = IF Chosen(registry[k], asked) THEN Append(r[k - 1], registry[k])
                    ELSE r[k - 1]
  <2>1. k \in 0 .. n /\ k - 1 \in 0 .. n  BY <1>1
  <2>2. /\ 1 .. k \in SUBSET (1 .. n) /\ 1 .. k # {}
        /\ Max(1 .. k) = k /\ (1 .. k) \ {k} = 1 .. (k - 1)
    BY <1>1, LastPosition
  <2>3. f[1 .. k] = IF Chosen(registry[k], asked)
                      THEN Append(f[1 .. (k - 1)], registry[k]) ELSE f[1 .. (k - 1)]
    BY <1>6, <2>2 DEF Picked
  <2> QED BY <2>1, <2>3
<1>10. n \in 0 .. n /\ ChosenOf(registry, asked) = r[n]  BY <1>1, <1>7
<1> HIDE DEF r
<1> QED BY <1>8, <1>9, <1>10 DEF n

\* Where in the first k of the registry the data sets of a selection stand.
StandsAt(registry, asked, k, chosen, at) ==
  /\ at \in [1 .. Len(chosen) -> 1 .. k]
  /\ \A j \in 1 .. Len(chosen) : chosen[j] = registry[at[j]]
  /\ \A i, j \in 1 .. Len(chosen) : i < j => at[i] < at[j]
  /\ \A i \in 1 .. k : Chosen(registry[i], asked) <=> \E j \in 1 .. Len(chosen) : at[j] = i

(* One more data set: it is selected, behind those before it, or it is not. *)
LEMMA SelectionStep ==
  ASSUME NEW D, NEW registry \in Seq(D), NEW asked, NEW k \in Nat, NEW chosen \in Seq(D),
         k + 1 \in 1 .. Len(registry), NEW at, StandsAt(registry, asked, k, chosen, at),
         NEW more, more = IF Chosen(registry[k + 1], asked)
                            THEN Append(chosen, registry[k + 1]) ELSE chosen
  PROVE  more \in Seq(D) /\ \E to : StandsAt(registry, asked, k + 1, more, to)
<1> DEFINE m == Len(chosen)
<1>1. m \in Nat /\ registry[k + 1] \in D  OBVIOUS
<1>2. CASE Chosen(registry[k + 1], asked)
  <2> DEFINE to == [j \in 1 .. (m + 1) |-> IF j = m + 1 THEN k + 1 ELSE at[j]]
  <2>1. /\ more \in Seq(D) /\ Len(more) = m + 1
        /\ \A j \in 1 .. m : more[j] = chosen[j]
        /\ more[m + 1] = registry[k + 1]
    BY <1>1, <1>2, Extended
  <2>2. /\ \A j \in 1 .. m : j \in 1 .. (m + 1) /\ j # m + 1 /\ to[j] = at[j] /\ at[j] \in 1 .. k
        /\ to[m + 1] = k + 1
        /\ m + 1 \in 1 .. (m + 1)
        /\ \A j \in 1 .. (m + 1) : j = m + 1 \/ j \in 1 .. m
    <3>1. /\ \A j \in 1 .. m : j \in 1 .. (m + 1) /\ j # m + 1
          /\ m + 1 \in 1 .. (m + 1)
          /\ \A j \in 1 .. (m + 1) : j = m + 1 \/ j \in 1 .. m
      BY <1>1
    <3>2. \A j \in 1 .. m : at[j] \in 1 .. k  BY DEF StandsAt
    <3> HIDE DEF m
    <3> QED BY <3>1, <3>2
  <2>3. to \in [1 .. (m + 1) -> 1 .. (k + 1)]
    <3>1. \A j \in 1 .. m : at[j] \in 1 .. (k + 1)
      <4>1. \A j \in 1 .. m : at[j] \in 1 .. k  BY <2>2
      <4>2. \A x \in 1 .. k : x \in 1 .. (k + 1)  OBVIOUS
      <4> QED BY <4>1, <4>2
    <3>2. k + 1 \in 1 .. (k + 1)  OBVIOUS
    <3> QED BY <2>2, <3>1, <3>2
  <2> HIDE DEF to
  <2>4. \A j \in 1 .. (m + 1) : more[j] = registry[to[j]]
    BY <2>1, <2>2 DEF StandsAt
  <2>5. ASSUME NEW i \in 1 .. (m + 1), NEW j \in 1 .. (m + 1), i < j PROVE to[i] < to[j]
    <3>1. i \in 1 .. m  BY <1>1, <2>5
    <3>2. CASE j = m + 1
      <4>1. at[i] \in 1 .. k /\ to[i] = at[i] /\ to[j] = k + 1  BY <2>2, <3>1, <3>2
      <4> QED BY <4>1
    <3>3. CASE j \in 1 .. m
      <4>1. at[i] < at[j]  BY <2>5, <3>1, <3>3 DEF StandsAt
      <4> QED BY <2>2, <3>1, <3>3, <4>1
    <3> QED BY <2>2, <3>2, <3>3
  <2>6. ASSUME NEW i \in 1 .. (k + 1)
        PROVE  Chosen(registry[i], asked) <=> \E j \in 1 .. (m + 1) : to[j] = i
    <3>1. CASE i = k + 1  BY <1>2, <2>2, <3>1
    <3>2. CASE i # k + 1
      <4>1. i \in 1 .. k  BY <3>2
      <4>2. (\E j \in 1 .. (m + 1) : to[j] = i) <=> (\E j \in 1 .. m : at[j] = i)
        BY <2>2, <3>2
      <4> QED BY <4>1, <4>2 DEF StandsAt
    <3> QED BY <3>1, <3>2
  <2> HIDE DEF m
  <2>7. StandsAt(registry, asked, k + 1, more, to)
    BY <2>1, <2>3, <2>4, <2>5, <2>6 DEF StandsAt
  <2> QED BY <2>1, <2>7
<1>3. CASE ~ Chosen(registry[k + 1], asked)
  <2>1. more = chosen  BY <1>3
  <2>2. at \in [1 .. m -> 1 .. k]  BY DEF StandsAt
  <2>3. at \in [1 .. m -> 1 .. (k + 1)]
    <3>1. \A j \in 1 .. m : at[j] \in 1 .. (k + 1)  BY <2>2
    <3> HIDE DEF m
    <3> QED BY <2>2, <3>1
  <2>4. ASSUME NEW i \in 1 .. (k + 1)
        PROVE  Chosen(registry[i], asked) <=> \E j \in 1 .. m : at[j] = i
    <3>1. CASE i = k + 1
      <4>1. \A j \in 1 .. m : at[j] # i
        <5>1. \A j \in 1 .. m : at[j] \in 1 .. k  BY <2>2
        <5> QED BY <3>1, <5>1
      <4> QED BY <1>3, <3>1, <4>1
    <3>2. CASE i # k + 1
      <4>1. i \in 1 .. k  BY <3>2
      <4> QED BY <4>1 DEF StandsAt
    <3> QED BY <3>1, <3>2
  <2>5. StandsAt(registry, asked, k + 1, chosen, at)  BY <2>3, <2>4 DEF StandsAt
  <2> QED BY <2>1, <2>5
<1> QED BY <1>2, <1>3

\* What a selection is.
LEMMA SelectionStands ==
  ASSUME NEW D, NEW registry \in Seq(D), NEW asked
  PROVE  /\ ChosenOf(registry, asked) \in Seq(D)
         /\ \E at : StandsAt(registry, asked, Len(registry), ChosenOf(registry, asked), at)
<1> DEFINE n == Len(registry)
<1>1. n \in Nat  OBVIOUS
<1>2. PICK r : /\ r[0] = <<>>
               /\ \A k \in 1 .. n :
                    r[k] = IF Chosen(registry[k], asked)
                             THEN Append(r[k - 1], registry[k]) ELSE r[k - 1]
               /\ ChosenOf(registry, asked) = r[n]
  BY SelectionRuns
<1> HIDE DEF n
<1> DEFINE Stands(k) == r[k] \in Seq(D) /\ \E at : StandsAt(registry, asked, k, r[k], at)
           Holds == {k \in Nat : k <= n => Stands(k)}
<1>3. Stands(0)
  <2>1. StandsAt(registry, asked, 0, <<>>, <<>>)
    <3>1. Len(<<>>) = 0 /\ 1 .. 0 = {} /\ <<>> \in [{} -> {}]  OBVIOUS
    <3> QED BY <3>1 DEF StandsAt
  <2>2. <<>> \in Seq(D)  OBVIOUS
  <2> QED BY <1>2, <2>1, <2>2
<1>4. ASSUME NEW k \in Nat, Stands(k), k + 1 <= n PROVE Stands(k + 1)
  <2>1. k + 1 \in 1 .. n /\ (k + 1) - 1 = k  BY <1>1, <1>4
  <2>2. r[k + 1] = IF Chosen(registry[k + 1], asked)
                     THEN Append(r[k], registry[k + 1]) ELSE r[k]
    BY <1>2, <2>1
  <2>3. PICK at : StandsAt(registry, asked, k, r[k], at)  BY <1>4
  <2>4. r[k] \in Seq(D)  BY <1>4
  <2> QED BY <2>1, <2>2, <2>3, <2>4, SelectionStep DEF n
<1> HIDE DEF Stands
<1>5. 0 \in Holds  BY <1>3
<1>6. ASSUME NEW k \in Nat, k \in Holds PROVE k + 1 \in Holds
  <2>1. SUFFICES ASSUME k + 1 <= n PROVE Stands(k + 1)  OBVIOUS
  <2>2. k <= n  BY <1>1, <2>1
  <2> QED BY <1>4, <1>6, <2>1, <2>2
<1>7. Nat \subseteq Holds
  <2> HIDE DEF Holds
  <2> QED BY <1>5, <1>6, Induct
<1>8. Stands(n)  BY <1>1, <1>7
<1> QED BY <1>2, <1>8 DEF Stands, n

(* For a registry of any size that loads and any filters: a selection holds *)
(* just the data sets that answer every filter, in the registry's order     *)
(* (evaluation.py, select_dataset_entries).                                *)
THEOREM FiltersIntersect ==
  ASSUME NEW D, NEW registry \in Seq(D), NEW asked, NEW directories,
         ~ LoadRejected(registry, directories)
  PROVE  SelectionIsTheIntersection(registry, asked)
<1> DEFINE n == Len(registry)
           names == IF asked.names = {} THEN {registry[i].name : i \in DOMAIN registry}
                    ELSE asked.names
           ids == IF asked.ids = {} THEN {registry[i].id : i \in DOMAIN registry}
                  ELSE asked.ids
           selected == Select(registry, asked)
           chosen == selected.datasets
           places == [k \in DOMAIN chosen |->
                        CHOOSE i \in DOMAIN registry : registry[i] = chosen[k]]
           Answered(i) == /\ registry[i].name \in names
                         /\ registry[i].id \in ids
                         /\ \A tag \in asked.tags : tag \in registry[i].tags
<1> SUFFICES ASSUME ~ selected.refused
             PROVE  /\ ToSet(places) = {i \in DOMAIN registry : Answered(i)}
                    /\ \A k, l \in DOMAIN places : k < l => places[k] < places[l]
  BY Zenon DEF SelectionIsTheIntersection
<1>1. n \in Nat /\ DOMAIN registry = 1 .. n  OBVIOUS
<1>c. chosen = ChosenOf(registry, asked)  BY DEF Select
<1> HIDE DEF selected, chosen
<1>2. chosen \in Seq(D)  BY <1>c, SelectionStands
<1>3. PICK at : StandsAt(registry, asked, n, chosen, at)  BY <1>c, SelectionStands
<1> DEFINE m == Len(chosen)
<1>4. m \in Nat /\ DOMAIN chosen = 1 .. m  BY <1>2
<1>5. ASSUME NEW i \in DOMAIN registry, NEW j \in DOMAIN registry, registry[i] = registry[j]
      PROVE  i = j
  <2> DEFINE named == [x \in DOMAIN registry |-> registry[x].name]
  <2>1. IsInjective(named)  BY DEF LoadRejected
  <2>2. named[i] = named[j]  BY <1>5
  <2> HIDE DEF named
  <2>3. i \in DOMAIN named /\ j \in DOMAIN named  BY DEF named
  <2> QED BY <2>1, <2>2, <2>3 DEF IsInjective
<1>6. ASSUME NEW k \in 1 .. m PROVE places[k] = at[k] /\ at[k] \in 1 .. n
  <2>1. at[k] \in 1 .. n /\ chosen[k] = registry[at[k]]  BY <1>3 DEF StandsAt
  <2>2. \A i \in DOMAIN registry : registry[i] = chosen[k] => i = at[k]
    BY <1>1, <1>5, <2>1
  <2>3. at[k] \in DOMAIN registry  BY <1>1, <2>1
  <2> QED BY <1>4, <2>1, <2>2, <2>3
<1>7. ASSUME NEW i \in DOMAIN registry PROVE Chosen(registry[i], asked) <=> Answered(i)
  <2>1. registry[i].name \in {registry[x].name : x \in DOMAIN registry}  OBVIOUS
  <2>2. registry[i].id \in {registry[x].id : x \in DOMAIN registry}  OBVIOUS
  <2> QED BY <2>1, <2>2 DEF Chosen
<1>8. DOMAIN places = 1 .. m  BY <1>4
<1> HIDE DEF places, Answered, m
<1>9. ToSet(places) = {i \in DOMAIN registry : Answered(i)}
  <2>1. ASSUME NEW i \in ToSet(places) PROVE i \in DOMAIN registry /\ Answered(i)
    <3>1. PICK k \in 1 .. m : i = places[k]  BY <1>8 DEF ToSet
    <3>2. i = at[k] /\ i \in 1 .. n  BY <1>6, <3>1
    <3>3. Chosen(registry[i], asked)  BY <1>3, <3>1, <3>2 DEF StandsAt, m
    <3> QED BY <1>1, <1>7, <3>2, <3>3
  <2>2. ASSUME NEW i \in DOMAIN registry, Answered(i) PROVE i \in ToSet(places)
    <3>1. PICK k \in 1 .. m : at[k] = i  BY <1>1, <1>3, <1>7, <2>2 DEF StandsAt, m
    <3> QED BY <1>6, <1>8, <3>1 DEF ToSet
  <2> QED BY <2>1, <2>2
<1>10. ASSUME NEW k \in DOMAIN places, NEW l \in DOMAIN places, k < l
       PROVE  places[k] < places[l]
  <2>1. at[k] < at[l]  BY <1>3, <1>8, <1>10 DEF StandsAt, m
  <2> QED BY <1>6, <1>8, <2>1
<1> QED BY <1>9, <1>10
-----------------------------------------------------------------------------
(* Weights added up: whichever place is taken out first.                    *)
LEMMA SumOfAny ==
  ASSUME NEW n \in Nat, NEW w \in [1 .. n -> Nat]
  PROVE  \E h \in [SUBSET (1 .. n) -> Nat] :
           /\ h[{}] = 0
           /\ \A s \in SUBSET (1 .. n) : \A x \in s : h[s] = w[x] + h[s \ {x}]
<1> DEFINE step == [p \in (1 .. n) \X Nat |-> p[2] + w[p[1]]]
<1>1. step \in [(1 .. n) \X Nat -> Nat]  OBVIOUS
<1>2. PICK h \in [SUBSET (1 .. n) -> Nat] : Folding(step, 0, n, h)
  <2> HIDE DEF step
  <2> QED BY <1>1, FoldExists
<1>3. h[{}] = 0
  <2> HIDE DEF step
  <2> QED BY <1>2 DEF Folding
<1>4. ASSUME NEW s \in SUBSET (1 .. n), s # {}
      PROVE  /\ Max(s) \in s /\ \A y \in s : Max(s) >= y
             /\ h[s] = h[s \ {Max(s)}] + w[Max(s)]
  <2>1. Max(s) \in s  BY <1>4, LargestIsMember
  <2>2. h[s] = step[<<Max(s), h[s \ {Max(s)}]>>]
    <3> HIDE DEF step
    <3> QED BY <1>2, <1>4 DEF Folding
  <2>3. h[s \ {Max(s)}] \in Nat  OBVIOUS
  <2>4. \A y \in s : Max(s) >= y
    <3> DEFINE T == {n - y : y \in s}
    <3>0. \A y \in s : y \in Int /\ n - y \in Nat  OBVIOUS
    <3>1. T \in SUBSET Nat /\ T # {}  BY <1>4, <3>0
    <3>2. PICK z \in T : \A y \in T : z <= y  BY <3>1, LeastNat
    <3>3. PICK x \in s : z = n - x  OBVIOUS
    <3>4. \A y \in s : n - y \in T  OBVIOUS
    <3>5. ASSUME NEW y \in s PROVE x >= y
      <4>1. n - x <= n - y  BY <3>2, <3>3, <3>4
      <4> QED BY <3>0, <4>1
    <3> QED BY <3>5 DEF Max
  <2> QED BY <2>1, <2>2, <2>3, <2>4
<1> HIDE DEF step
<1> DEFINE Within(m) == \A s \in SUBSET (1 .. n) : s \subseteq 1 .. m =>
                          \A x \in s : h[s] = w[x] + h[s \ {x}]
           Holds == {m \in Nat : Within(m)}
<1>5. Within(0)
  <2>1. 1 .. 0 = {}  OBVIOUS
  <2> QED BY <2>1
<1>6. ASSUME NEW m \in Nat, Within(m) PROVE Within(m + 1)
  <2> SUFFICES ASSUME NEW s \in SUBSET (1 .. n), s \subseteq 1 .. (m + 1), NEW x \in s
               PROVE  h[s] = w[x] + h[s \ {x}]
    OBVIOUS
  <2> DEFINE M == Max(s)
  <2>1. M \in s /\ (\A y \in s : M >= y) /\ h[s] = h[s \ {M}] + w[M]  BY <1>4
  <2> HIDE DEF M
  <2>2. CASE x = M
    <3>1. h[s \ {x}] \in Nat /\ w[x] \in Nat  OBVIOUS
    <3> QED BY <2>1, <2>2, <3>1
  <2>3. CASE x # M
    <3>1. ASSUME NEW y \in s \ {M} PROVE y \in 1 .. m
      <4>1. y \in 1 .. (m + 1) /\ M \in 1 .. (m + 1) /\ M >= y /\ y # M  BY <2>1
      <4> QED BY <4>1
    <3>2. s \ {M} \in SUBSET (1 .. n) /\ s \ {M} \subseteq 1 .. m /\ x \in s \ {M}
      BY <2>3, <3>1
    <3>3. h[s \ {M}] = w[x] + h[(s \ {M}) \ {x}]  BY <1>6, <3>2
    <3>4. M \in s \ {x} /\ s \ {x} \in SUBSET (1 .. n) /\ s \ {x} # {}  BY <2>1, <2>3
    <3>5. Max(s \ {x}) = M
      <4>1. \A z \in s \ {x} : (\A y \in s \ {x} : z >= y) => z = M
        <5>1. ASSUME NEW z \in s \ {x}, \A y \in s \ {x} : z >= y PROVE z = M
          <6>1. z >= M /\ M >= z /\ z \in Int /\ M \in Int  BY <2>1, <3>4, <5>1
          <6> QED BY <6>1
        <5> QED BY <5>1
      <4> QED BY <1>4, <3>4, <4>1
    <3>6. h[s \ {x}] = h[(s \ {x}) \ {M}] + w[M]  BY <1>4, <3>4, <3>5
    <3>7. (s \ {x}) \ {M} = (s \ {M}) \ {x}  OBVIOUS
    <3>8. /\ h[(s \ {M}) \ {x}] \in Nat /\ w[x] \in Nat /\ w[M] \in Nat  BY <2>1
    <3> DEFINE rest == h[(s \ {M}) \ {x}]
    <3>9. h[s \ {x}] = rest + w[M]  BY <3>6, <3>7
    <3>10. h[s] = (w[x] + rest) + w[M]  BY <2>1, <3>3
    <3>11. rest \in Nat  BY <3>8
    <3> HIDE DEF rest
    <3>12. (w[x] + rest) + w[M] = w[x] + (rest + w[M])  BY <3>8, <3>11
    <3> QED BY <3>9, <3>10, <3>12
  <2> QED BY <2>2, <2>3
<1> HIDE DEF Within
<1>7. 0 \in Holds /\ \A m \in Nat : m \in Holds => m + 1 \in Holds  BY <1>5, <1>6
<1>8. Nat \subseteq Holds
  <2> HIDE DEF Holds
  <2> QED BY <1>7, Induct
<1>9. Within(n)  BY <1>8
<1> QED BY <1>3, <1>9 DEF Within

\* Numbers added up by the fold, over the places in S.
Totals(w, S, f) ==
  f = [s \in SUBSET S |->
         IF s = {} THEN 0
         ELSE w[CHOOSE x \in s : TRUE] + f[s \ {CHOOSE x \in s : TRUE}]]

(* The numbers at some places: none at no place, and one more with one      *)
(* place more (SumOver is a fold over a set).                              *)
LEMMA SumsAddUp ==
  ASSUME NEW n \in Nat, NEW w \in [1 .. n -> Nat]
  PROVE  /\ SumOver(w, {}) = 0
         /\ \A s \in SUBSET (1 .. n) : \A x \in 1 .. n :
              /\ SumOver(w, s) \in Nat
              /\ x \notin s => SumOver(w, s \union {x}) = SumOver(w, s) + w[x]
<1>2. PICK h \in [SUBSET (1 .. n) -> Nat] :
           /\ h[{}] = 0
           /\ \A s \in SUBSET (1 .. n) : \A x \in s : h[s] = w[x] + h[s \ {x}]
  BY SumOfAny
<1>3. ASSUME NEW S \in SUBSET (1 .. n) PROVE SumOver(w, S) = h[S]
  <2> DEFINE f == CHOOSE g : Totals(w, S, g)
             g0 == [s \in SUBSET S |-> h[s]]
  <2>1. Totals(w, S, g0)
    <3>1. ASSUME NEW s \in SUBSET S, s # {}
          PROVE  LET c == CHOOSE x \in s : TRUE
                 IN  h[s] = w[c] + g0[s \ {c}]
      <4> DEFINE c == CHOOSE x \in s : TRUE
      <4>1. c \in s  BY <3>1
      <4> HIDE DEF c
      <4>2. h[s] = w[c] + h[s \ {c}] /\ s \ {c} \in SUBSET S /\ c \in 1 .. n
        BY <1>2, <4>1
      <4>3. g0[s \ {c}] = h[s \ {c}]  BY <4>2
      <4> USE DEF c
      <4> QED BY <4>2, <4>3
    <3>2. ASSUME NEW s \in SUBSET S
          PROVE  g0[s] = IF s = {} THEN 0
                         ELSE w[CHOOSE x \in s : TRUE]
                                + g0[s \ {CHOOSE x \in s : TRUE}]
      BY <1>2, <3>1
    <3>3. g0 = [s \in SUBSET S |-> g0[s]]  OBVIOUS
    <3> HIDE DEF g0
    <3> QED BY <3>2, <3>3 DEF Totals
  <2>2. Totals(w, S, f)
    <3> HIDE DEF g0
    <3> QED BY <2>1
  <2>3. SumOver(w, S) = f[S]
    BY DEF SumOver, MapThenSumSet, MapThenFoldSet, Totals
  <2> HIDE DEF f
  <2>4. IsFiniteSet(S)
    <3>1. IsFiniteSet(1 .. n)  BY FS_Interval
    <3> QED BY <3>1, FS_Subset
  <2> DEFINE Same(m) == \A s \in SUBSET S : Cardinality(s) = m => f[s] = h[s]
             Holds == {m \in Nat : Same(m)}
  <2>5. Same(0)
    <3>1. \A s \in SUBSET S : Cardinality(s) = 0 => s = {}  BY <2>4, FS_Subset, FS_EmptySet
    <3>2. f[{}] = 0  BY <2>2 DEF Totals
    <3> QED BY <1>2, <3>1, <3>2
  <2>6. ASSUME NEW m \in Nat, Same(m) PROVE Same(m + 1)
    <3> SUFFICES ASSUME NEW s \in SUBSET S, Cardinality(s) = m + 1 PROVE f[s] = h[s]
      OBVIOUS
    <3> DEFINE c == CHOOSE x \in s : TRUE
    <3>0. m + 1 # 0  OBVIOUS
    <3>1. IsFiniteSet(s) /\ s # {}
      <4>1. IsFiniteSet(s)  BY <2>4, FS_Subset
      <4>2. s # {}  BY <3>0, FS_EmptySet
      <4> QED BY <4>1, <4>2
    <3>2. c \in s  BY <3>1
    <3>3. f[s] = w[c] + f[s \ {c}]  BY <2>2, <3>1 DEF Totals
    <3> HIDE DEF c
    <3>4. s \ {c} \in SUBSET S /\ Cardinality(s \ {c}) = m
      <4>1. Cardinality(s \ {c}) = Cardinality(s) - 1  BY <3>1, <3>2, FS_RemoveElement
      <4>2. (m + 1) - 1 = m  OBVIOUS
      <4>3. s \ {c} \in SUBSET S  OBVIOUS
      <4> QED BY <4>1, <4>2, <4>3
    <3>5. f[s \ {c}] = h[s \ {c}]  BY <2>6, <3>4
    <3>6. h[s] = w[c] + h[s \ {c}]  BY <1>2, <3>2
    <3> QED BY <3>3, <3>5, <3>6
  <2> HIDE DEF Same
  <2>7. 0 \in Holds /\ \A m \in Nat : m \in Holds => m + 1 \in Holds  BY <2>5, <2>6
  <2>8. Nat \subseteq Holds
    <3> HIDE DEF Holds
    <3> QED BY <2>7, Induct
  <2>9. Cardinality(S) \in Nat /\ S \in SUBSET S  BY <2>4, FS_CardinalityType
  <2> QED BY <2>3, <2>8, <2>9 DEF Same
<1>4. SumOver(w, {}) = 0  BY <1>2, <1>3
<1>5. ASSUME NEW s \in SUBSET (1 .. n), NEW x \in 1 .. n
      PROVE  /\ SumOver(w, s) \in Nat
             /\ x \notin s =>
                  SumOver(w, s \union {x}) = SumOver(w, s) + w[x]
  <2>1. s \union {x} \in SUBSET (1 .. n) /\ (x \notin s => (s \union {x}) \ {x} = s)
    OBVIOUS
  <2>2. h[s \union {x}] = w[x] + h[(s \union {x}) \ {x}]  BY <1>2, <2>1
  <2>3. h[s] \in Nat /\ w[x] \in Nat   OBVIOUS
  <2>4. SumOver(w, s) = h[s] /\ SumOver(w, s \union {x}) = h[s \union {x}]
    BY <1>3, <2>1
  <2>5. ASSUME x \notin s
        PROVE  SumOver(w, s \union {x}) = SumOver(w, s) + w[x]
    <3>1. h[s \union {x}] = w[x] + h[s]  BY <2>1, <2>2, <2>5
    <3> QED BY <2>3, <2>4, <3>1
  <2> QED BY <2>3, <2>4, <2>5
<1> QED BY <1>4, <1>5

\* Events that say how many calls were lost.
Count(events) == \A i \in DOMAIN events : events[i].calls \in Nat

(* The calls lost at some places are added up so.                           *)
LEMMA CallsAddUp ==
  ASSUME NEW Told, NEW events \in Seq(Told), Count(events)
  PROVE  /\ CallsAt(events, {}) = 0
         /\ \A s \in SUBSET (1 .. Len(events)) : \A x \in 1 .. Len(events) :
              /\ CallsAt(events, s) \in Nat
              /\ x \notin s =>
                   CallsAt(events, s \union {x}) = CallsAt(events, s) + events[x].calls
<1> DEFINE n == Len(events)
           w == [i \in DOMAIN events |-> events[i].calls]
<1>1. /\ n \in Nat /\ w \in [1 .. n -> Nat]
      /\ \A x \in 1 .. n : w[x] = events[x].calls
  BY DEF Count
<1>2. \A s : CallsAt(events, s) = SumOver(w, s)  BY DEF CallsAt
<1> HIDE DEF n, w
<1>3. /\ SumOver(w, {}) = 0
      /\ \A s \in SUBSET (1 .. n) : \A x \in 1 .. n :
           /\ SumOver(w, s) \in Nat
           /\ x \notin s => SumOver(w, s \union {x}) = SumOver(w, s) + w[x]
  BY <1>1, SumsAddUp
<1>4. CallsAt(events, {}) = 0  BY <1>2, <1>3
<1>5. ASSUME NEW s \in SUBSET (1 .. n), NEW x \in 1 .. n
      PROVE  /\ CallsAt(events, s) \in Nat
             /\ x \notin s =>
                  CallsAt(events, s \union {x}) = CallsAt(events, s) + events[x].calls
  <2>1. CallsAt(events, s) = SumOver(w, s)  BY <1>2
  <2>2. CallsAt(events, s \union {x}) = SumOver(w, s \union {x})  BY <1>2
  <2>3. SumOver(w, s) \in Nat  BY <1>3
  <2>4. x \notin s => SumOver(w, s \union {x}) = SumOver(w, s) + w[x]  BY <1>3
  <2> QED BY <1>1, <2>1, <2>2, <2>3, <2>4
<1> QED BY <1>4, <1>5 DEF n
-----------------------------------------------------------------------------
(* The guards whose activations are listed, and their events.               *)
Guards == DOMAIN NoActivations.rows

\* Events of a guard that activated, with the calls it speaks of.
AreActivations(Told) ==
  \A e \in Told : e.kind \in Guards /\ e.wellFormed \in BOOLEAN /\ e.calls \in Nat

\* What a tracer of the activations can hold.
Activated(Told) == [truncated : Nat, forced : Nat, rows : [Guards -> Seq(Told)]]

(* What an event changes of the counts and the lists.                       *)
LEMMA ActivationShape ==
  ASSUME NEW Told, AreActivations(Told), NEW event \in Told, NEW a \in Activated(Told)
  PROVE  LET after == ActivationObserved(a, event) IN
           /\ after \in Activated(Told)
           /\ ~ event.wellFormed => after = a
           /\ event.wellFormed =>
                /\ after.truncated = IF event.kind = "truncated"
                                       THEN a.truncated + event.calls ELSE a.truncated
                /\ after.forced = IF event.kind = "forced" THEN a.forced + 1 ELSE a.forced
                /\ \A kind \in Guards :
                     after.rows[kind] = IF kind = event.kind
                                          THEN ListedUpTo(a.rows[kind], event)
                                          ELSE a.rows[kind]
<1> DEFINE after == ActivationObserved(a, event)
           row == ListedUpTo(a.rows[event.kind], event)
           t == a.truncated + (IF event.kind = "truncated" THEN event.calls ELSE 0)
           f == a.forced + (IF event.kind = "forced" THEN 1 ELSE 0)
           rows == [a.rows EXCEPT ![event.kind] = row]
<1>1. /\ event.kind \in Guards /\ event.calls \in Nat
      /\ a.rows \in [Guards -> Seq(Told)] /\ a.truncated \in Nat /\ a.forced \in Nat
  BY DEF AreActivations, Activated
<1>2. a.rows[event.kind] \in Seq(Told)  BY <1>1
<1>3. row \in Seq(Told)  BY <1>2 DEF ListedUpTo
<1>4. t \in Nat /\ f \in Nat  BY <1>1
<1>5. t = IF event.kind = "truncated" THEN a.truncated + event.calls ELSE a.truncated
  BY <1>1
<1>6. f = IF event.kind = "forced" THEN a.forced + 1 ELSE a.forced
  BY <1>1
<1>7. event.wellFormed => after = [a EXCEPT !.truncated = t, !.forced = f, !.rows = rows]
  BY <1>1 DEF ActivationObserved, Activated
<1>8. ~ event.wellFormed => after = a  BY DEF ActivationObserved
<1> HIDE DEF after, row, t, f
<1>9. rows \in [Guards -> Seq(Told)]  BY <1>1, <1>3
<1>10. \A kind \in Guards : rows[kind] = IF kind = event.kind THEN row ELSE a.rows[kind]
  BY <1>1
<1> HIDE DEF rows
<1>11. event.wellFormed => /\ after \in Activated(Told)
                           /\ after.truncated = t /\ after.forced = f /\ after.rows = rows
  BY <1>4, <1>7, <1>9 DEF Activated
<1>12. after \in Activated(Told)  BY <1>8, <1>11
<1> QED BY <1>5, <1>6, <1>8, <1>10, <1>11, <1>12 DEF after, row

\* The activations as the fold observes them, over the places of the events.
Activates(events, n, f) ==
  f = [s \in SUBSET (1 .. n) |->
         IF s = {} THEN NoActivations ELSE ActivationObserved(f[s \ {Max(s)}], events[Max(s)])]

\* Nothing is counted or listed at first.
LEMMA NothingActivated ==
  ASSUME NEW Told
  PROVE  /\ NoActivations \in Activated(Told)
         /\ NoActivations.truncated = 0 /\ NoActivations.forced = 0
         /\ \A kind \in Guards : NoActivations.rows[kind] = <<>>
BY DEF NoActivations, Activated, Guards

(* The guards' activations are observed one after the other.                *)
LEMMA ActivationRuns ==
  ASSUME NEW Told, AreActivations(Told), NEW events \in Seq(Told)
  PROVE  \E r : /\ r[0] = NoActivations
                /\ \A k \in 1 .. Len(events) : r[k] = ActivationObserved(r[k - 1], events[k])
                /\ Activations(events) = r[Len(events)]
<1> DEFINE n == Len(events)
           X == Activated(Told)
           step == [p \in (1 .. n) \X X |-> ActivationObserved(p[2], events[p[1]])]
           f == CHOOSE g : Activates(events, n, g)
<1>1. n \in Nat /\ DOMAIN events = 1 .. n /\ \A k \in 1 .. n : events[k] \in Told
  OBVIOUS
<1> HIDE DEF n
<1>2. NoActivations \in X  BY NothingActivated
<1>3. step \in [(1 .. n) \X X -> X]
  <2>1. \A k \in 1 .. n, x \in X : ActivationObserved(x, events[k]) \in X
    BY <1>1, ActivationShape
  <2> HIDE DEF X
  <2> QED BY <2>1
<1>4. PICK g \in [SUBSET (1 .. n) -> X] : Folding(step, NoActivations, n, g)
  <2> HIDE DEF step, X
  <2> QED BY <1>1, <1>2, <1>3, FoldExists
<1>5. Activates(events, n, g)
  <2>1. ASSUME NEW s \in SUBSET (1 .. n), s # {}
        PROVE  step[<<Max(s), g[s \ {Max(s)}]>>]
                 = ActivationObserved(g[s \ {Max(s)}], events[Max(s)])
    <3>1. Max(s) \in 1 .. n  BY <1>1, <2>1, LargestIsMember
    <3>2. g[s \ {Max(s)}] \in X
      <4> HIDE DEF X
      <4> QED OBVIOUS
    <3> HIDE DEF X
    <3> QED BY <3>1, <3>2
  <2> HIDE DEF step, X
  <2> QED BY <1>4, <2>1 DEF Folding, Activates
<1>6. Activates(events, n, f)  BY <1>5
<1>7. Activations(events) = f[1 .. n]
  BY <1>1 DEF Activations, FoldLeft, MapThenFoldSet, Activates
<1> HIDE DEF f
<1> DEFINE r == [k \in 0 .. n |-> f[1 .. k]]
<1>8. r[0] = NoActivations
  <2>1. 1 .. 0 = {} /\ 0 \in 0 .. n  BY <1>1
  <2> QED BY <1>6, <2>1 DEF Activates
<1>9. ASSUME NEW k \in 1 .. n PROVE r[k] = ActivationObserved(r[k - 1], events[k])
  <2>1. k \in 0 .. n /\ k - 1 \in 0 .. n  BY <1>1
  <2>2. /\ 1 .. k \in SUBSET (1 .. n) /\ 1 .. k # {}
        /\ Max(1 .. k) = k /\ (1 .. k) \ {k} = 1 .. (k - 1)
    BY <1>1, LastPosition
  <2>3. f[1 .. k] = ActivationObserved(f[(1 .. k) \ {Max(1 .. k)}], events[Max(1 .. k)])
    BY <1>6, <2>2 DEF Activates
  <2> QED BY <2>1, <2>2, <2>3
<1>10. n \in 0 .. n /\ Activations(events) = r[n]  BY <1>1, <1>7
<1> HIDE DEF r
<1> QED BY <1>8, <1>9, <1>10 DEF n

(* The rank of a place does not change with places after it, and that of    *)
(* the last is their number.                                               *)
LEMMA Ranks ==
  ASSUME NEW k \in Nat, NEW places \in SUBSET (1 .. k)
  PROVE  /\ \A i \in places : /\ UpTo(places, i) \in 1 .. Cardinality(places)
                              /\ UpTo(places \union {k + 1}, i) = UpTo(places, i)
         /\ UpTo(places \union {k + 1}, k + 1) = Cardinality(places) + 1
<1>1. IsFiniteSet(places) /\ Cardinality(places \union {k + 1}) = Cardinality(places) + 1
  BY PlacesGrow
<1>2. ASSUME NEW i \in places
      PROVE  /\ UpTo(places, i) \in 1 .. Cardinality(places)
             /\ UpTo(places \union {k + 1}, i) = UpTo(places, i)
  <2> DEFINE before == {j \in places : j <= i}
  <2>1. {j \in places \union {k + 1} : j <= i} = before
    <3>1. i \in 1 .. k  OBVIOUS
    <3> QED BY <3>1
  <2>2. before \in SUBSET places /\ i \in before
    <3>1. i \in 1 .. k  OBVIOUS
    <3>2. i <= i  BY <3>1
    <3> QED BY <3>2
  <2> HIDE DEF before
  <2>3. IsFiniteSet(before) /\ Cardinality(before) <= Cardinality(places)
    BY <1>1, <2>2, FS_Subset
  <2>4. Cardinality(before) \in Nat /\ Cardinality(places) \in Nat
    BY <1>1, <2>3, FS_CardinalityType
  <2>5. Cardinality(before) # 0  BY <2>2, <2>3, FS_EmptySet
  <2>6. Cardinality(before) \in 1 .. Cardinality(places)  BY <2>3, <2>4, <2>5
  <2> QED BY <2>1, <2>6 DEF UpTo, before
<1>3. {j \in places \union {k + 1} : j <= k + 1} = places \union {k + 1}
  <2>1. \A j \in 1 .. k : j <= k + 1  OBVIOUS
  <2>2. k + 1 <= k + 1  OBVIOUS
  <2> QED BY <2>1, <2>2
<1> QED BY <1>1, <1>2, <1>3 DEF UpTo

\* The activations of a guard among the first k events.
RealOf(kind, events, k) ==
  {i \in 1 .. k : events[i].kind = kind /\ events[i].wellFormed}

\* A list is of the events at the first of the places, by their order.
ListsFirst(events, places, rows) ==
  /\ Bounded(rows, Cardinality(places))
  /\ \A i \in places : UpTo(places, i) <= EventLimit => rows[UpTo(places, i)] = events[i]

\* What is kept after k activations: the calls of all, the first of each guard.
ActivationsKept(events, k, a) ==
  /\ \A kind \in Guards : ListsFirst(events, RealOf(kind, events, k), a.rows[kind])
  /\ a.forced = Cardinality(RealOf("forced", events, k))
  /\ a.truncated = CallsAt(events, RealOf("truncated", events, k))

(* A list that holds the first of some places holds, after one more event,  *)
(* the first of one place more.                                            *)
LEMMA ListsOneMore ==
  ASSUME NEW Told, NEW events \in Seq(Told), NEW k \in Nat, k + 1 \in 1 .. Len(events),
         NEW places \in SUBSET (1 .. k), NEW rows \in Seq(Told),
         ListsFirst(events, places, rows)
  PROVE  ListsFirst(events, places \union {k + 1}, ListedUpTo(rows, events[k + 1]))
<1> DEFINE e == events[k + 1]
           c == Cardinality(places)
           more == ListedUpTo(rows, e)
           after == places \union {k + 1}
<1>1. e \in Told /\ c \in Nat /\ Cardinality(after) = c + 1
  <2>1. e \in Told  OBVIOUS
  <2> QED BY <2>1, PlacesGrow
<1>2. Grown(Told, rows, e, c, more)
  <2>1. Bounded(rows, c)  BY DEF ListsFirst
  <2> HIDE DEF e, c
  <2> QED BY <1>1, <2>1, ListGrows
<1>3. ASSUME NEW i \in after, UpTo(after, i) <= EventLimit
      PROVE  more[UpTo(after, i)] = events[i]
  <2>1. CASE i \in places
    <3>1. UpTo(after, i) = UpTo(places, i) /\ UpTo(places, i) \in 1 .. c  BY <2>1, Ranks
    <3>2. rows[UpTo(places, i)] = events[i]  BY <1>3, <2>1, <3>1 DEF ListsFirst
    <3>3. EventLimit \in Nat  BY TracerAssumption
    <3>4. Len(rows) = IF c <= EventLimit THEN c ELSE EventLimit
      <4>1. Len(rows) = Min({c, EventLimit})  BY DEF ListsFirst, Bounded
      <4> HIDE DEF c
      <4> QED BY <1>1, <3>3, <4>1, Smaller
    <3>5. UpTo(places, i) \in 1 .. Len(rows)
      <4> HIDE DEF c, after
      <4> QED BY <1>1, <1>3, <3>1, <3>3, <3>4
    <3> QED BY <1>2, <3>1, <3>2, <3>5 DEF Grown
  <2>2. CASE i = k + 1
    <3>1. UpTo(after, i) = c + 1  BY <2>2, Ranks
    <3> HIDE DEF c, after, more
    <3> QED BY <1>2, <1>3, <2>2, <3>1 DEF Grown
  <2> QED BY <2>1, <2>2
<1>4. Bounded(more, Cardinality(after))  BY <1>1, <1>2 DEF Grown
<1> HIDE DEF more, after
<1>5. ListsFirst(events, after, more)  BY <1>3, <1>4 DEF ListsFirst
<1> QED BY <1>5 DEF more, after

(* One more activation: its calls are added, and it is listed under its     *)
(* guard while there is room.                                              *)
LEMMA ActivationStep ==
  ASSUME NEW Told, AreActivations(Told), NEW events \in Seq(Told),
         NEW k \in Nat, k + 1 \in 1 .. Len(events), NEW a \in Activated(Told),
         ActivationsKept(events, k, a)
  PROVE  ActivationsKept(events, k + 1, ActivationObserved(a, events[k + 1]))
<1> DEFINE e == events[k + 1]
           after == ActivationObserved(a, e)
<1> SUFFICES ActivationsKept(events, k + 1, after)  OBVIOUS
<1>1. e \in Told /\ e.kind \in Guards /\ e.wellFormed \in BOOLEAN /\ e.calls \in Nat
  BY DEF AreActivations
<1>2. \A kind : RealOf(kind, events, k) \in SUBSET (1 .. k)  BY DEF RealOf
<1>3. ASSUME NEW kind
      PROVE  RealOf(kind, events, k + 1) =
               IF e.wellFormed /\ e.kind = kind THEN RealOf(kind, events, k) \union {k + 1}
               ELSE RealOf(kind, events, k)
  BY DEF RealOf
<1>4. Count(events)
  <2>1. \A i \in DOMAIN events : events[i] \in Told  OBVIOUS
  <2> QED BY <2>1 DEF Count, AreActivations
<1>s. /\ ~ e.wellFormed => after = a
      /\ e.wellFormed =>
           /\ after.truncated = IF e.kind = "truncated"
                                  THEN a.truncated + e.calls ELSE a.truncated
           /\ after.forced = IF e.kind = "forced" THEN a.forced + 1 ELSE a.forced
           /\ \A kind \in Guards :
                after.rows[kind] = IF kind = e.kind THEN ListedUpTo(a.rows[kind], e)
                                   ELSE a.rows[kind]
  <2> HIDE DEF e
  <2> QED BY <1>1, ActivationShape
<1> HIDE DEF after
<1>5. CASE ~ e.wellFormed
  <2>1. \A kind : RealOf(kind, events, k + 1) = RealOf(kind, events, k)  BY <1>3, <1>5
  <2> QED BY <1>s, <1>5, <2>1 DEF ActivationsKept
<1>6. CASE e.wellFormed
  <2>1. ASSUME NEW kind \in Guards
        PROVE  ListsFirst(events, RealOf(kind, events, k + 1), after.rows[kind])
    <3>1. ListsFirst(events, RealOf(kind, events, k), a.rows[kind])  BY DEF ActivationsKept
    <3>2. CASE kind = e.kind
      <4>1. a.rows[kind] \in Seq(Told)  BY DEF Activated
      <4>2. ListsFirst(events, RealOf(kind, events, k) \union {k + 1},
                       ListedUpTo(a.rows[kind], e))
        BY <1>2, <3>1, <4>1, ListsOneMore
      <4> QED BY <1>3, <1>s, <1>6, <3>2, <4>2
    <3>3. CASE kind # e.kind  BY <1>3, <1>s, <1>6, <3>1, <3>3
    <3> QED BY <3>2, <3>3
  <2>2. after.forced = Cardinality(RealOf("forced", events, k + 1))
    <3>1. a.forced = Cardinality(RealOf("forced", events, k))  BY DEF ActivationsKept
    <3>2. CASE e.kind = "forced"
      <4>1. Cardinality(RealOf("forced", events, k) \union {k + 1}) = a.forced + 1
        BY <1>2, <3>1, PlacesGrow
      <4> QED BY <1>3, <1>s, <1>6, <3>2, <4>1
    <3>3. CASE e.kind # "forced"  BY <1>3, <1>s, <1>6, <3>1, <3>3
    <3> QED BY <3>2, <3>3
  <2>3. after.truncated = CallsAt(events, RealOf("truncated", events, k + 1))
    <3>1. a.truncated = CallsAt(events, RealOf("truncated", events, k))
      BY DEF ActivationsKept
    <3>2. CASE e.kind = "truncated"
      <4> DEFINE places == RealOf("truncated", events, k)
      <4>1. /\ k \in Nat /\ k < Len(events) /\ Len(events) \in Nat
            /\ k + 1 \in 1 .. Len(events)
        OBVIOUS
      <4>2. places \in SUBSET (1 .. Len(events)) /\ k + 1 \notin places
        <5>1. places \in SUBSET (1 .. k)  BY <1>2
        <5> HIDE DEF places
        <5>2. \A i \in 1 .. k : i \in 1 .. Len(events) /\ i # k + 1  BY <4>1
        <5> QED BY <5>1, <5>2
      <4> HIDE DEF places
      <4>3. CallsAt(events, places \union {k + 1}) = CallsAt(events, places) + e.calls
        BY <1>4, <4>1, <4>2, CallsAddUp
      <4>4. after.truncated = a.truncated + e.calls  BY <1>s, <1>6, <3>2
      <4>5. RealOf("truncated", events, k + 1) = places \union {k + 1}
        BY <1>3, <1>6, <3>2 DEF places
      <4> QED BY <3>1, <4>3, <4>4, <4>5 DEF places
    <3>3. CASE e.kind # "truncated"  BY <1>3, <1>s, <1>6, <3>1, <3>3
    <3> QED BY <3>2, <3>3
  <2> QED BY <2>1, <2>2, <2>3 DEF ActivationsKept
<1> QED BY <1>1, <1>5, <1>6

(* For any events of the guards: the counts are of all well-formed ones,    *)
(* whatever the lists leave out, and the lists hold the first of each, up   *)
(* to the limit.                                                           *)
THEOREM ActivationsAreCounted ==
  ASSUME NEW Told, AreActivations(Told), NEW events \in Seq(Told)
  PROVE  ActivationsAreReported(events)
<1> DEFINE n == Len(events)
           A == Activations(events)
<1>1. n \in Nat /\ DOMAIN events = 1 .. n  OBVIOUS
<1>2. PICK r : /\ r[0] = NoActivations
               /\ \A k \in 1 .. n : r[k] = ActivationObserved(r[k - 1], events[k])
               /\ A = r[n]
  BY ActivationRuns
<1>c. Count(events)
  <2>1. \A i \in DOMAIN events : events[i] \in Told  OBVIOUS
  <2> QED BY <2>1 DEF Count, AreActivations
<1> DEFINE Holds == {k \in Nat : k <= n => /\ r[k] \in Activated(Told)
                                           /\ ActivationsKept(events, k, r[k])}
<1>3. 0 \in Holds
  <2>1. \A kind : RealOf(kind, events, 0) = {}  BY DEF RealOf
  <2>2. CallsAt(events, {}) = 0 /\ Cardinality({}) = 0  BY <1>c, CallsAddUp, FS_EmptySet
  <2>3. Bounded(<<>>, 0)
    <3>1. Min({0, EventLimit}) = 0  BY TracerAssumption, Smaller
    <3>2. Len(<<>>) = 0  OBVIOUS
    <3> QED BY <3>1, <3>2 DEF Bounded
  <2>4. ListsFirst(events, {}, <<>>)  BY <2>2, <2>3 DEF ListsFirst
  <2>5. ActivationsKept(events, 0, NoActivations)
    BY <2>1, <2>2, <2>4, NothingActivated DEF ActivationsKept
  <2> QED BY <1>2, <2>5, NothingActivated
<1>4. ASSUME NEW k \in Nat, k \in Holds PROVE k + 1 \in Holds
  <2>1. SUFFICES ASSUME k + 1 <= n
                 PROVE  /\ r[k + 1] \in Activated(Told)
                        /\ ActivationsKept(events, k + 1, r[k + 1])
    OBVIOUS
  <2>2. k + 1 \in 1 .. n /\ (k + 1) - 1 = k /\ k <= n  BY <1>1, <2>1
  <2>3. r[k] \in Activated(Told) /\ ActivationsKept(events, k, r[k])
    BY <1>4, <2>2
  <2>4. r[k + 1] = ActivationObserved(r[k], events[k + 1])  BY <1>2, <2>2
  <2>5. events[k + 1] \in Told  BY <2>2
  <2> QED BY <2>2, <2>3, <2>4, <2>5, ActivationShape, ActivationStep
<1>5. Nat \subseteq Holds
  <2> HIDE DEF Holds
  <2> QED BY <1>3, <1>4, Induct
<1>6. A \in Activated(Told) /\ ActivationsKept(events, n, A)  BY <1>1, <1>2, <1>5
<1> HIDE DEF A
<1> SUFFICES ASSUME NEW kind \in Guards
             PROVE  LET fact == ActivationFacts(A)[kind]
                        real == ActivationsOf(kind, events)
                    IN  /\ Len(fact.events) = Min({Cardinality(real), EventLimit})
                        /\ \A i \in real : UpTo(real, i) <= EventLimit =>
                                             fact.events[UpTo(real, i)] = events[i]
                        /\ fact.status = "observed" <=> real # {}
                        /\ kind = "forced" => fact.count = Cardinality(real)
                        /\ kind = "truncated" => fact.count = CallsAt(events, real)
  BY DEF ActivationsAreReported, Guards, A
<1> DEFINE fact == ActivationFacts(A)[kind]
           real == ActivationsOf(kind, events)
           rows == A.rows[kind]
<1>7. real = RealOf(kind, events, n)  BY <1>1 DEF ActivationsOf, RealOf
<1>8. rows \in Seq(Told) /\ DOMAIN A.rows = Guards  BY <1>6 DEF Activated
<1>9. ListsFirst(events, real, rows)  BY <1>6, <1>7 DEF ActivationsKept
<1>10. /\ fact.events = rows
       /\ fact.status = IF rows # <<>> THEN "observed" ELSE "unavailable"
       /\ kind = "truncated" => fact.count = A.truncated
       /\ kind = "forced" => fact.count = A.forced
  BY <1>8 DEF ActivationFacts
<1>11. IsFiniteSet(real) /\ Cardinality(real) \in Nat
  <2>1. real \in SUBSET (1 .. n)  BY <1>7 DEF RealOf
  <2> HIDE DEF real
  <2> QED BY <1>1, <2>1, PlacesGrow
<1>12. kind = "forced" => A.forced = Cardinality(real)  BY <1>6, <1>7 DEF ActivationsKept
<1>13. kind = "truncated" => A.truncated = CallsAt(events, real)
  BY <1>6, <1>7 DEF ActivationsKept
<1> HIDE DEF fact, real, rows
<1>14. rows # <<>> <=> real # {}
  <2>1. EventLimit \in Nat \ {0}  BY TracerAssumption
  <2>2. Len(rows) = Min({Cardinality(real), EventLimit})  BY <1>9 DEF ListsFirst, Bounded
  <2>3. Len(rows) = IF Cardinality(real) <= EventLimit THEN Cardinality(real) ELSE EventLimit
    BY <1>11, <2>1, <2>2, Smaller
  <2>4. Len(rows) = 0 <=> Cardinality(real) = 0  BY <1>11, <2>1, <2>3
  <2>5. rows = <<>> <=> Len(rows) = 0  BY <1>8
  <2>6. Cardinality(real) = 0 <=> real = {}  BY <1>11, FS_EmptySet
  <2> QED BY <2>4, <2>5, <2>6
<1>15. /\ Len(fact.events) = Min({Cardinality(real), EventLimit})
       /\ \A i \in real : UpTo(real, i) <= EventLimit =>
                            fact.events[UpTo(real, i)] = events[i]
  BY <1>9, <1>10 DEF ListsFirst, Bounded
<1>16. fact.status = "observed" <=> real # {}
  <2>1. "observed" # "unavailable"  OBVIOUS
  <2>2. CASE rows # <<>>  BY <1>10, <1>14, <2>2
  <2>3. CASE rows = <<>>  BY <1>10, <1>14, <2>1, <2>3
  <2> QED BY <2>2, <2>3
<1>17. /\ kind = "forced" => fact.count = Cardinality(real)
       /\ kind = "truncated" => fact.count = CallsAt(events, real)
  BY <1>10, <1>12, <1>13
<1> USE DEF fact, real
<1> QED BY <1>15, <1>16, <1>17, Zenon
-----------------------------------------------------------------------------
\* What the program can be given: a phase's outputs with the limits of a request; the
\* calls and the events of a trial; a data set, and a registry that has loaded.
FitInputs == [outputs : Requests, total : Nat \ {0}, maxTokens : Nat]

RoundInputs(Told) == [events : Seq(Told), recording : BOOLEAN]

IsSelection(input, DataSets) ==
  /\ input.registry \in Seq(DataSets)
  /\ \E directories : ~ LoadRejected(input.registry, directories)

(* For every request: what sampling shows of an output is its own, within   *)
(* its share and no character twice, the fit loop ends, and what it passes  *)
(* on keeps both limits (sampling.py, workflow.py).                        *)
THEOREM EveryInputIsFitted ==
  ASSUME job.kind = "fit" => job.input \in FitInputs
  PROVE  InputsAreFitted
<1> SUFFICES ASSUME NEW outputs \in Requests, NEW total \in Nat \ {0}, NEW maxTokens \in Nat
             PROVE  CutsAreHonest(outputs, total) /\ FitIsSound(outputs, total, maxTokens)
  BY DEF InputsAreFitted, FitInputs
<1>1. outputs \in Seq(Seq(Nat)) /\ total \in Nat  BY DEF Requests
<1> QED BY <1>1, EveryCutIsHonest, TheFitLoopIsSound

(* For every phase and every sequence of events: what a trial is scored by  *)
(* is what its session froze, submissions are observed once, recoveries are *)
(* of one policy, activations are counted beyond the lists, and facts are   *)
(* kept whether or not rows are (run_test_sets.py, _SchemaTracer).          *)
THEOREM EveryTrialIsTraced ==
  ASSUME NEW Schemas, UnseenIsApart(Schemas),
         NEW Policies, Unseen \notin Policies,
         NEW Firings, AreActivations(Firings),
         NEW Told, NEW Values, AreTold(Told, Values),
         job.kind = "calls" => job.input \in Seq(Calls(Schemas)),
         job.kind = "recoveries" => job.input \in Seq(Policies),
         job.kind = "activations" => job.input \in Seq(Firings),
         job.kind = "rounds" => job.input \in RoundInputs(Told)
  PROVE  TrialsAreTraced
<1>1. job.kind = "calls" => /\ FrozenSchemaIsTheSessions(job.input)
                            /\ FallbackIsTheFrozenPlans(job.input)
                            /\ SubmissionsAreObservedOnce(job.input)
  BY TrialKnowsItsSession
<1>2. job.kind = "recoveries" => RecoveriesAreOfOnePolicy(job.input)
  BY RecoveryIsOfOnePolicy
<1>3. job.kind = "activations" => ActivationsAreReported(job.input)
  BY ActivationsAreCounted
<1>4. job.kind = "rounds" => FactsOutliveRows(job.input.events, job.input.recording)
  <2>1. ASSUME job.kind = "rounds"
        PROVE  job.input.events \in Seq(Told) /\ job.input.recording \in BOOLEAN
    BY <2>1 DEF RoundInputs
  <2> QED BY <2>1, FactsAreTheLastTold
<1> QED BY <1>1, <1>2, <1>3, <1>4 DEF TrialsAreTraced

(* For every data set and every registry that loads: a set that lacks a     *)
(* file is pending, a complete one passes by the records of its own inputs, *)
(* in the default scope wherever in the full one, and filters intersect     *)
(* (evaluation.py).                                                        *)
THEOREM EveryDataSetIsJudged ==
  ASSUME NEW Records, NEW DataSets,
         job.kind = "dataset" => /\ IsDataSet(job.input, Records)
                                 /\ {"declared", "present"} \subseteq DOMAIN job.input,
         job.kind = "selection" => IsSelection(job.input, DataSets)
  PROVE  DataSetsAreJudged
<1>1. job.kind = "dataset" =>
        /\ FullImpliesDefault(job.input)
        /\ PassedIsExact(job.input)
        /\ \A part \in Parts : AssemblyIsPending(job.input, part)
  <2> SUFFICES ASSUME NEW d, IsDataSet(d, Records),
                      {"declared", "present"} \subseteq DOMAIN d
               PROVE  /\ FullImpliesDefault(d) /\ PassedIsExact(d)
                      /\ \A part \in Parts : AssemblyIsPending(d, part)
    OBVIOUS
  <2>1. FullImpliesDefault(d)  BY DefaultIsTheCheaperScope
  <2>2. PassedIsExact(d)  BY PassedRecordsAreExact
  <2>3. \A part \in Parts : AssemblyIsPending(d, part)  BY UnfinishedIsPending
  <2> QED BY <2>1, <2>2, <2>3
<1>2. job.kind = "selection" =>
        SelectionIsTheIntersection(job.input.registry, job.input.asked)
  BY FiltersIntersect DEF IsSelection
<1> QED BY <1>1, <1>2 DEF DataSetsAreJudged
-----------------------------------------------------------------------------
\* A trial of any values and codes.  A success has a record of each input (the validation
\* refuses another number), anything else has none (GenerationResult, _run_ttp_trial).
Statuses == {"raised", "failed", "success"}
IsTrial(trial, Values, Codes) ==
  /\ trial.result.status \in Statuses
  /\ trial.result.records \in Seq(Values) /\ trial.result.codes \in Seq(Codes)
  /\ trial.expected \in Seq(Values)
  /\ trial.again.valid \in BOOLEAN
  /\ trial.again.records \in Seq(Values) /\ trial.again.issues \in Seq(Codes)
  /\ trial.again.schemaIssues \in Seq(Codes)
  /\ trial.result.status = "success" => Len(trial.result.records) = Len(trial.expected)
  /\ trial.result.status # "success" => trial.result.records = <<>>

\* What the second parse of a trial has to give.
Reproduced(trial) ==
  /\ trial.again.schemaIssues = <<>>
  /\ trial.again.valid
  /\ trial.again.records = trial.result.records

(* A verdict is of a success, of what it gives again, and of what is        *)
(* expected.                                                               *)
LEMMA VerdictMeans ==
  ASSUME NEW Values, NEW Codes, NEW trial, IsTrial(trial, Values, Codes)
  PROVE  LET score == VerdictOf(trial)
             success == trial.result.status = "success"
         IN  /\ score.candidatePass = One(/\ success /\ Reproduced(trial)
                                          /\ trial.result.records = trial.expected)
             /\ score.independentAcceptance = One(success /\ Reproduced(trial))
             /\ score.recordsExactMatch =
                  One(/\ trial.result.status # "raised"
                      /\ trial.result.records = trial.expected)
             /\ score.recordCountMatch =
                  One(/\ trial.result.status # "raised"
                      /\ Len(trial.result.records) = Len(trial.expected))
<1> DEFINE acceptance == AcceptanceOf(trial)
           success == trial.result.status = "success"
<1>1. acceptance.valid <=> /\ success /\ Reproduced(trial)
                           /\ Len(trial.again.records) = Len(trial.expected)
  BY DEF AcceptanceOf, IndependentAcceptance, Rejected, Reproduced, IsTrial
<1>2. success /\ Reproduced(trial) => Len(trial.again.records) = Len(trial.expected)
  BY DEF Reproduced, IsTrial
<1>3. acceptance.valid <=> success /\ Reproduced(trial)  BY <1>1, <1>2
<1>4. success => trial.result.status # "raised"  OBVIOUS
<1> HIDE DEF acceptance
<1>5. VerdictOf(trial) = TemplateVerdict(trial.result, acceptance, trial.expected)
  BY DEF VerdictOf, acceptance
<1> QED BY <1>3, <1>4, <1>5 DEF TemplateVerdict, One

(* What is blamed, by what a trial returned and its score.                  *)
LEMMA BlameMeans ==
  ASSUME NEW Values, NEW Codes, NEW trial, IsTrial(trial, Values, Codes), NEW score,
         score.candidatePass = 1 => trial.result.status = "success"
  PROVE  LET category == FactsOf(trial, score).category
             success == trial.result.status = "success"
         IN  /\ category = "none" <=> score.candidatePass = 1
             /\ success /\ score.candidatePass # 1 =>
                  category = IF score.independentAcceptance # 1 THEN "acceptance"
                             ELSE IF score.recordsExactMatch # 1 THEN "records"
                             ELSE "schema_contract"
             /\ ~ success => category \in {"runner", "schema", "ttp", "model", "generation"}
<1> DEFINE codes == IF trial.result.status = "raised" THEN <<>>
                    ELSE IssueCodes(trial.result, AcceptanceOf(trial))
<1>1. FactsOf(trial, score).category = FailureCategory(trial.result, codes, score)
  BY DEF FactsOf, SafeTrialFacts
<1> HIDE DEF codes
<1>2. trial.result.status \in Statuses  BY DEF IsTrial
<1>3. CASE trial.result.status = "raised"
  BY <1>1, <1>3 DEF FailureCategory
<1>4. CASE trial.result.status = "failed"
  BY <1>1, <1>4 DEF FailureCategory
<1>5. CASE trial.result.status = "success"
  <2>1. CASE score.candidatePass = 1  BY <1>1, <1>5, <2>1 DEF FailureCategory
  <2>2. CASE score.candidatePass # 1  BY <1>1, <1>5, <2>2 DEF FailureCategory
  <2> QED BY <1>5, <2>1, <2>2
<1> QED BY <1>2, <1>3, <1>4, <1>5 DEF Statuses

(* For any trial: it passes exactly if it is a success whose template, run  *)
(* again, gives every input the record expected of it, and what it is       *)
(* blamed on is the first that went wrong (evaluation.py).                 *)
THEOREM PassesAreEarned ==
  ASSUME NEW Values, NEW Codes, NEW trial, IsTrial(trial, Values, Codes)
  PROVE  PassIsEarned(trial, VerdictOf(trial), FactsOf(trial, VerdictOf(trial)).category)
<1> DEFINE score == VerdictOf(trial)
           category == FactsOf(trial, score).category
           success == trial.result.status = "success"
           right == trial.result.records = trial.expected
           reproduced == Reproduced(trial)
<1>1. /\ score.candidatePass = 1 <=> success /\ reproduced /\ right
      /\ score.independentAcceptance = 1 <=> success /\ reproduced
      /\ score.recordsExactMatch = 1 <=> trial.result.status # "raised" /\ right
  BY VerdictMeans DEF One
<1> HIDE DEF score
<1>2. /\ category = "none" <=> score.candidatePass = 1
      /\ success /\ score.candidatePass # 1 =>
           category = IF score.independentAcceptance # 1 THEN "acceptance"
                      ELSE IF score.recordsExactMatch # 1 THEN "records"
                      ELSE "schema_contract"
      /\ ~ success => category \in {"runner", "schema", "ttp", "model", "generation"}
  BY <1>1, BlameMeans
<1> HIDE DEF category
<1>3. success => trial.result.status # "raised"  OBVIOUS
<1>4. /\ category = "acceptance" <=> success /\ ~ reproduced
      /\ category = "records" <=> success /\ reproduced /\ ~ right
      /\ category # "schema_contract"
  BY <1>1, <1>2, <1>3
<1>5. score.candidatePass = 1 <=>
        success /\ reproduced /\ trial.again.records = trial.expected
  BY <1>1 DEF Reproduced
<1> QED BY <1>2, <1>4, <1>5 DEF PassIsEarned, Reproduced, score, category
-----------------------------------------------------------------------------
(* A set of the places of a sequence is all of them just when it is as many.*)
LEMMA AllPlaces ==
  ASSUME NEW n \in Nat, NEW places \in SUBSET (1 .. n)
  PROVE  /\ Cardinality(places) \in Nat /\ Cardinality(places) <= n
         /\ Cardinality(places) = n <=> places = 1 .. n
<1>1. IsFiniteSet(1 .. n) /\ Cardinality(1 .. n) = n  BY FS_Interval
<1>2. IsFiniteSet(places) /\ Cardinality(places) <= n
      /\ (Cardinality(places) = n => places = 1 .. n)
  BY <1>1, FS_Subset
<1> QED BY <1>1, <1>2, FS_CardinalityType

\* The inputs whose records are exact.
ExactInputs(trial) ==
  {i \in DOMAIN trial.expected : ExactAt(trial.result.records, trial.expected, i)}

(* How many inputs are exact: all of them just where all records are, none  *)
(* without records.                                                        *)
LEMMA InputsCounted ==
  ASSUME NEW Values, NEW Codes, NEW trial, IsTrial(trial, Values, Codes)
  PROVE  LET score == VerdictOf(trial)
             n == Len(trial.expected)
         IN  /\ score.inputCount = n /\ n \in Nat
             /\ score.inputExactCount \in Nat /\ score.inputExactCount <= n
             /\ score.inputExactRate = Fraction(score.inputExactCount, n)
             /\ trial.result.records = trial.expected <=>
                  /\ Len(trial.result.records) = n
                  /\ score.inputExactCount = n
             /\ trial.result.status # "success" => score.inputExactCount = 0
<1> DEFINE score == VerdictOf(trial)
           actual == trial.result.records
           expected == trial.expected
           n == Len(expected)
           places == ExactInputs(trial)
<1>1. /\ score.inputCount = n /\ score.inputExactCount = Cardinality(places)
      /\ score.inputExactRate = Fraction(Cardinality(places), n)
  BY DEF VerdictOf, TemplateVerdict, ExactInputs
<1> HIDE DEF score
<1>2. actual \in Seq(Values) /\ expected \in Seq(Values) /\ n \in Nat
  BY DEF IsTrial
<1>3. places \in SUBSET (1 .. n)  BY <1>2 DEF ExactInputs
<1>4. /\ Cardinality(places) \in Nat /\ Cardinality(places) <= n
      /\ Cardinality(places) = n <=> places = 1 .. n
  BY <1>2, <1>3, AllPlaces
<1>5. actual = expected <=> Len(actual) = n /\ places = 1 .. n
  <2>1. ASSUME actual = expected PROVE places = 1 .. n
    BY <1>2, <2>1 DEF ExactInputs, ExactAt, PresentAt
  <2>2. ASSUME Len(actual) = n, places = 1 .. n PROVE actual = expected
    <3>1. \A i \in 1 .. n : actual[i] = expected[i]
      BY <1>2, <2>2 DEF ExactInputs, ExactAt
    <3> QED BY <1>2, <2>2, <3>1
  <2> QED BY <2>1, <2>2
<1>6. ASSUME trial.result.status # "success" PROVE Cardinality(places) = 0
  <2>1. actual = <<>>  BY <1>6 DEF IsTrial
  <2>2. Len(actual) = 0  BY <2>1
  <2>3. places = {}  BY <1>2, <2>2 DEF ExactInputs, ExactAt, PresentAt
  <2> QED BY <2>3, FS_EmptySet
<1> HIDE DEF places
<1> QED BY <1>1, <1>2, <1>4, <1>5, <1>6 DEF score

(* For any trial: its records are exact as a whole just where there are as  *)
(* many as expected and each of them is (evaluation.py).                   *)
THEOREM EveryInputCounts ==
  ASSUME NEW Values, NEW Codes, NEW trial, IsTrial(trial, Values, Codes)
  PROVE  InputsAddUp(VerdictOf(trial))
<1> DEFINE score == VerdictOf(trial)
<1>1. /\ score.recordsExactMatch = 1 <=>
           trial.result.status # "raised" /\ trial.result.records = trial.expected
      /\ score.recordCountMatch = 1 <=>
           /\ trial.result.status # "raised"
           /\ Len(trial.result.records) = Len(trial.expected)
  BY VerdictMeans DEF One
<1>2. /\ score.inputCount = Len(trial.expected)
      /\ trial.result.records = trial.expected <=>
           /\ Len(trial.result.records) = Len(trial.expected)
           /\ score.inputExactCount = Len(trial.expected)
  BY InputsCounted
<1> HIDE DEF score
<1>3. InputsAddUp(score)  BY <1>1, <1>2 DEF InputsAddUp
<1> QED BY <1>3 DEF score
-----------------------------------------------------------------------------
\* The codes gathered so far and one more, which is taken up if it is new.
TakenUp(codes, c) == IF c \in ToSet(codes) THEN codes ELSE Append(codes, c)

\* The codes as the fold gathers them, over the places of those that are new.
Gathers(first, more, n, f) ==
  f = [s \in SUBSET (1 .. n) |->
         IF s = {} THEN first ELSE TakenUp(f[s \ {Max(s)}], more[Max(s)])]

(* The codes of the acceptance are taken up one after the other.            *)
LEMMA CodesRun ==
  ASSUME NEW Codes, NEW result, NEW acceptance,
         result.codes \in Seq(Codes), acceptance.codes \in Seq(Codes)
  PROVE  \E r : /\ r[0] = result.codes
                /\ \A k \in 1 .. Len(acceptance.codes) :
                     /\ r[k - 1] \in Seq(Codes)
                     /\ r[k] = TakenUp(r[k - 1], acceptance.codes[k])
                /\ IssueCodes(result, acceptance) = r[Len(acceptance.codes)]
                /\ IssueCodes(result, acceptance) \in Seq(Codes)
<1> DEFINE first == result.codes
           more == acceptance.codes
           n == Len(more)
           X == Seq(Codes)
           step == [p \in (1 .. n) \X X |-> TakenUp(p[2], more[p[1]])]
           f == CHOOSE g : Gathers(first, more, n, g)
<1>1. n \in Nat /\ DOMAIN more = 1 .. n /\ \A k \in 1 .. n : more[k] \in Codes
  OBVIOUS
<1>2. first \in X  OBVIOUS
<1>c. IssueCodes(result, acceptance) =
        FoldLeft(LAMBDA codes, c : TakenUp(codes, c), first, more)
  BY DEF IssueCodes, TakenUp
<1> HIDE DEF n, first, more
<1>3. step \in [(1 .. n) \X X -> X]
  <2>1. \A k \in 1 .. n, x \in X : TakenUp(x, more[k]) \in X
    BY <1>1 DEF TakenUp
  <2> HIDE DEF X
  <2> QED BY <2>1
<1>4. PICK g \in [SUBSET (1 .. n) -> X] : Folding(step, first, n, g)
  <2> HIDE DEF step, X
  <2> QED BY <1>1, <1>2, <1>3, FoldExists
<1>5. Gathers(first, more, n, g)
  <2>1. ASSUME NEW s \in SUBSET (1 .. n), s # {}
        PROVE  step[<<Max(s), g[s \ {Max(s)}]>>]
                 = TakenUp(g[s \ {Max(s)}], more[Max(s)])
    <3>1. Max(s) \in 1 .. n  BY <1>1, <2>1, LargestIsMember
    <3>2. g[s \ {Max(s)}] \in X
      <4> HIDE DEF X
      <4> QED OBVIOUS
    <3> HIDE DEF X
    <3> QED BY <3>1, <3>2
  <2> HIDE DEF step, X
  <2> QED BY <1>4, <2>1 DEF Folding, Gathers
<1>6. Gathers(first, more, n, f)  BY <1>5
<1>7. IssueCodes(result, acceptance) = f[1 .. n]
  BY <1>1, <1>c DEF FoldLeft, MapThenFoldSet, Gathers
<1> HIDE DEF f
<1> DEFINE r == [k \in 0 .. n |-> f[1 .. k]]
           Typed == {k \in Nat : k <= n => r[k] \in X}
<1>8. r[0] = first
  <2>1. 1 .. 0 = {} /\ 0 \in 0 .. n  BY <1>1
  <2> QED BY <1>6, <2>1 DEF Gathers
<1>9. ASSUME NEW k \in 1 .. n PROVE r[k] = TakenUp(r[k - 1], more[k])
  <2>1. k \in 0 .. n /\ k - 1 \in 0 .. n  BY <1>1
  <2>2. /\ 1 .. k \in SUBSET (1 .. n) /\ 1 .. k # {}
        /\ Max(1 .. k) = k /\ (1 .. k) \ {k} = 1 .. (k - 1)
    BY <1>1, LastPosition
  <2>3. f[1 .. k] = TakenUp(f[(1 .. k) \ {Max(1 .. k)}], more[Max(1 .. k)])
    BY <1>6, <2>2 DEF Gathers
  <2> QED BY <2>1, <2>2, <2>3
<1>10. n \in 0 .. n /\ IssueCodes(result, acceptance) = r[n]  BY <1>1, <1>7
<1> HIDE DEF r
<1>11. 0 \in Typed  BY <1>2, <1>8
<1>12. ASSUME NEW k \in Nat, k \in Typed PROVE k + 1 \in Typed
  <2> SUFFICES ASSUME k + 1 <= n PROVE r[k + 1] \in X  OBVIOUS
  <2>1. k + 1 \in 1 .. n /\ (k + 1) - 1 = k /\ k <= n  BY <1>1
  <2>2. r[k + 1] = TakenUp(r[k], more[k + 1])  BY <1>9, <2>1
  <2>3. r[k] \in X /\ more[k + 1] \in Codes  BY <1>1, <1>12, <2>1
  <2> QED BY <2>2, <2>3 DEF TakenUp
<1>13. Nat \subseteq Typed
  <2> HIDE DEF Typed
  <2> QED BY <1>11, <1>12, Induct
<1>14. \A k \in 0 .. n : r[k] \in X  BY <1>1, <1>13
<1>15. /\ r[0] = first
       /\ \A k \in 1 .. n : r[k - 1] \in X /\ r[k] = TakenUp(r[k - 1], more[k])
       /\ IssueCodes(result, acceptance) = r[n] /\ IssueCodes(result, acceptance) \in X
  BY <1>1, <1>8, <1>9, <1>10, <1>14
<1> QED BY <1>15 DEF n, first, more

(* Nothing is taken up twice.                                               *)
LEMMA CodesStayApart ==
  ASSUME NEW Codes, NEW codes \in Seq(Codes), NEW c \in Codes, IsInjective(codes)
  PROVE  IsInjective(TakenUp(codes, c))
<1>1. CASE c \in ToSet(codes)  BY <1>1 DEF TakenUp
<1>2. CASE c \notin ToSet(codes)
  <2> DEFINE more == Append(codes, c)
             n == Len(codes)
  <2>1. /\ n \in Nat /\ DOMAIN codes = 1 .. n /\ DOMAIN more = 1 .. (n + 1)
        /\ \A i \in 1 .. n : more[i] = codes[i]
        /\ more[n + 1] = c
    OBVIOUS
  <2>2. \A i \in 1 .. n : codes[i] # c  BY <1>2, <2>1 DEF ToSet
  <2> HIDE DEF more, n
  <2>3. ASSUME NEW a \in 1 .. (n + 1), NEW b \in 1 .. (n + 1), more[a] = more[b]
        PROVE  a = b
    <3>1. CASE a \in 1 .. n /\ b \in 1 .. n  BY <2>1, <2>3, <3>1 DEF IsInjective
    <3>2. CASE a = n + 1 \/ b = n + 1  BY <2>1, <2>2, <2>3, <3>2
    <3> QED BY <2>1, <3>1, <3>2
  <2>4. IsInjective(more)  BY <2>1, <2>3 DEF IsInjective
  <2> QED BY <1>2, <2>4 DEF TakenUp, more
<1> QED BY <1>1, <1>2

(* A sequence without repetitions has as many elements as places.           *)
LEMMA ApartAreCounted ==
  ASSUME NEW S, NEW s \in Seq(S), IsInjective(s)
  PROVE  Len(s) = Cardinality(ToSet(s))
<1> DEFINE n == Len(s)
<1>1. n \in Nat /\ s \in [1 .. n -> S] /\ DOMAIN s = 1 .. n  OBVIOUS
<1>2. IsFiniteSet(1 .. n) /\ Cardinality(1 .. n) = n  BY <1>1, FS_Interval
<1>3. s \in [1 .. n -> ToSet(s)] /\ \A t \in ToSet(s) : \E i \in 1 .. n : s[i] = t
  BY <1>1 DEF ToSet
<1>4. s \in Surjection(1 .. n, ToSet(s))  BY <1>3 DEF Surjection
<1>5. s \in Injection(1 .. n, ToSet(s))  BY <1>1, <1>3 DEF IsInjective, Injection
<1> HIDE DEF n
<1>6. Cardinality(ToSet(s)) = n  BY <1>2, <1>4, <1>5, FS_Surjection
<1> QED BY <1>6 DEF n

(* For any trial: the domain a failure is blamed on is one its codes are    *)
(* counted under, and an acceptance that repeats an issue does not count it *)
(* again (evaluation.py, safe_trial_facts).                                *)
THEOREM BlamesAreCounted ==
  ASSUME NEW Values, NEW Codes, NEW trial, IsTrial(trial, Values, Codes), NEW score
  PROVE  BlameIsCounted(trial, FactsOf(trial, score))
<1> DEFINE acceptance == AcceptanceOf(trial)
           all == IssueCodes(trial.result, acceptance)
           codes == IF trial.result.status = "raised" THEN <<>> ELSE all
           facts == FactsOf(trial, score)
<1>1. /\ facts.category = FailureCategory(trial.result, codes, score)
      /\ facts.taxonomy = IssueTaxonomy(codes)
  BY DEF FactsOf, SafeTrialFacts
<1>2. trial.result.codes \in Seq(Codes) /\ acceptance.codes \in Seq(Codes)
  BY DEF IsTrial, AcceptanceOf, IndependentAcceptance, Rejected
<1> HIDE DEF acceptance
<1>3. PICK r : /\ r[0] = trial.result.codes
               /\ \A k \in 1 .. Len(acceptance.codes) :
                    /\ r[k - 1] \in Seq(Codes)
                    /\ r[k] = TakenUp(r[k - 1], acceptance.codes[k])
               /\ all = r[Len(acceptance.codes)]
               /\ all \in Seq(Codes)
  BY <1>2, CodesRun
<1> HIDE DEF all, facts
<1>4. codes \in Seq(Codes)  BY <1>3
<1>5. ASSUME facts.category \in {"schema", "ttp", "model"}
      PROVE  facts.category \in DOMAIN facts.taxonomy.domains
  <2>1. BlamedOn(facts.category, codes)
    BY <1>1, <1>5 DEF FailureCategory
  <2>2. PICK c \in ToSet(codes) : c.first = facts.category  BY <2>1 DEF BlamedOn
  <2>3. IssueDomain(c) = facts.category  BY <1>5, <2>2 DEF IssueDomain, Domains
  <2>4. DOMAIN IssueTaxonomy(codes).domains = {IssueDomain(codes[i]) : i \in DOMAIN codes}
    BY DEF IssueTaxonomy
  <2> HIDE DEF codes
  <2>5. \E i \in DOMAIN codes : codes[i] = c  BY DEF ToSet
  <2> QED BY <1>1, <2>3, <2>4, <2>5
<1>6. ASSUME IsInjective(trial.result.codes)
      PROVE  IsInjective(all)
  <2> DEFINE m == Len(acceptance.codes)
             Holds == {k \in Nat : k <= m => IsInjective(r[k])}
  <2>0. m \in Nat /\ \A k \in 1 .. m : acceptance.codes[k] \in Codes  BY <1>2
  <2> HIDE DEF m
  <2>1. 0 \in Holds  BY <1>3, <1>6
  <2>2. ASSUME NEW k \in Nat, k \in Holds PROVE k + 1 \in Holds
    <3> SUFFICES ASSUME k + 1 <= m PROVE IsInjective(r[k + 1])  OBVIOUS
    <3>1. k + 1 \in 1 .. m /\ (k + 1) - 1 = k /\ k <= m  BY <2>0
    <3>2. r[k] \in Seq(Codes) /\ r[k + 1] = TakenUp(r[k], acceptance.codes[k + 1])
      BY <1>3, <3>1 DEF m
    <3>3. IsInjective(r[k]) /\ acceptance.codes[k + 1] \in Codes  BY <2>0, <2>2, <3>1
    <3> QED BY <3>2, <3>3, CodesStayApart
  <2>3. Nat \subseteq Holds
    <3> HIDE DEF Holds
    <3> QED BY <2>1, <2>2, Induct
  <2>4. IsInjective(r[m])  BY <2>0, <2>3
  <2> QED BY <1>3, <2>4 DEF m
<1>7. ASSUME IsInjective(trial.result.codes)
      PROVE  facts.taxonomy.total = facts.taxonomy.unique
  <2>1. IsInjective(<<>>)  BY DEF IsInjective
  <2>2. IsInjective(codes)  BY <1>6, <1>7, <2>1
  <2> HIDE DEF codes
  <2>3. Len(codes) = Cardinality(ToSet(codes))  BY <1>4, <2>2, ApartAreCounted
  <2> QED BY <1>1, <2>3 DEF IssueTaxonomy
<1>8. BlameIsCounted(trial, facts)  BY <1>5, <1>7 DEF BlameIsCounted
<1> QED BY <1>8 DEF facts
-----------------------------------------------------------------------------
\* A contract has one node of each path.
IsContract(nodes, Paths, Types) ==
  /\ nodes \in SUBSET [path : Paths, type : Types, required : BOOLEAN]
  /\ IsFiniteSet(nodes)
  /\ \A n, m \in nodes : n.path = m.path => n = m

(* A mark tells the nodes of a contract apart.                              *)
LEMMA MarksTellApart ==
  ASSUME NEW n, NEW m, NEW mark \in Marks, MarkOf(n, mark) = MarkOf(m, mark)
  PROVE  mark # "whole" => n.path = m.path /\ (mark # "path" => n[mark] = m[mark])
BY DEF Marks, MarkOf

(* So there are as many of a mark as there are nodes.                       *)
LEMMA MarksAreAsMany ==
  ASSUME NEW Paths, NEW Types, NEW nodes, IsContract(nodes, Paths, Types), NEW mark \in Marks
  PROVE  /\ IsFiniteSet(MarksOf(nodes, mark))
         /\ Cardinality(MarksOf(nodes, mark)) = Cardinality(nodes)
         /\ \A n, m \in nodes : MarkOf(n, mark) = MarkOf(m, mark) => n = m
<1> DEFINE f == [n \in nodes |-> MarkOf(n, mark)]
<1>1. ASSUME NEW n \in nodes, NEW m \in nodes, MarkOf(n, mark) = MarkOf(m, mark)
      PROVE  n = m
  <2>1. CASE mark = "whole"  BY <1>1, <2>1 DEF MarkOf
  <2>2. CASE mark # "whole"
    <3>1. n.path = m.path  BY <1>1, <2>2, MarksTellApart
    <3> QED BY <3>1 DEF IsContract
  <2> QED BY <2>1, <2>2
<1>2. f \in [nodes -> MarksOf(nodes, mark)]
      /\ \A t \in MarksOf(nodes, mark) : \E n \in nodes : f[n] = t
  BY DEF MarksOf
<1>3. f \in Injection(nodes, MarksOf(nodes, mark))
  BY <1>1, <1>2 DEF Injection, IsInjective
<1>4. f \in Surjection(nodes, MarksOf(nodes, mark))  BY <1>2 DEF Surjection
<1>5. IsFiniteSet(nodes)  BY DEF IsContract
<1> HIDE DEF f
<1> QED BY <1>1, <1>3, <1>4, <1>5, FS_Surjection

(* The score of two finite sets is full just where they are one.            *)
LEMMA FullMeansSame ==
  ASSUME NEW one, NEW two, IsFiniteSet(one), IsFiniteSet(two), two # {}
  PROVE  Equal(PrecisionRecallF1(Cardinality(one \intersect two), Cardinality(one),
                                 Cardinality(two)).f1, <<1, 1>>)
           <=> one = two
<1> DEFINE o == Cardinality(one \intersect two)
           a == Cardinality(one)
           e == Cardinality(two)
<1>1. o \in Nat /\ a \in Nat /\ e \in Nat /\ e # 0
  BY FS_CardinalityType, FS_Intersection, FS_EmptySet
<1>2. /\ o <= a /\ o <= e
      /\ o = a => one \intersect two = one
      /\ o = e => one \intersect two = two
  <2>1. one \intersect two \in SUBSET one /\ one \intersect two \in SUBSET two  OBVIOUS
  <2> QED BY <2>1, FS_Subset
<1>3. one = two => o = a /\ o = e
  <2>1. ASSUME one = two PROVE one \intersect two = one  BY <2>1
  <2> QED BY <2>1
<1> HIDE DEF o, a, e
<1>4. a + e # 0  BY <1>1
<1>5. PrecisionRecallF1(o, a, e).f1 = <<2 * o, a + e>>
  BY <1>4 DEF PrecisionRecallF1, Fraction
<1>6. Equal(<<2 * o, a + e>>, <<1, 1>>) <=> 2 * o = a + e  BY <1>1 DEF Equal
<1>7. 2 * o = a + e <=> o = a /\ o = e  BY <1>1, <1>2
<1>8. o = a /\ o = e <=> one = two
  <2>1. ASSUME o = a, o = e PROVE one = two  BY <1>2, <2>1
  <2> QED BY <1>3, <2>1
<1>9. Equal(PrecisionRecallF1(o, a, e).f1, <<1, 1>>) <=> one = two
  BY <1>5, <1>6, <1>7, <1>8
<1> QED BY <1>9 DEF o, a, e

(* The fraction of one number of which no more match than of another.       *)
LEMMA RecallOfMore ==
  ASSUME NEW o \in Nat, NEW p \in Nat, NEW a \in Nat, NEW b \in Nat,
         NEW e \in Nat \ {0}, o <= p
  PROVE  LET r == PrecisionRecallF1(o, a, e).recall
             q == PrecisionRecallF1(p, b, e).recall
         IN  r[1] * q[2] <= q[1] * r[2]
<1>1. /\ PrecisionRecallF1(o, a, e).recall = <<o, e>>
      /\ PrecisionRecallF1(p, b, e).recall = <<p, e>>
  BY DEF PrecisionRecallF1, Fraction
<1>2. o * e <= p * e
  <2>1. p - o \in Nat  OBVIOUS
  <2>2. (p - o) * e \in Nat  BY <2>1
  <2>3. (p - o) * e = p * e - o * e  OBVIOUS
  <2>4. p * e \in Nat /\ o * e \in Nat  OBVIOUS
  <2> HIDE <2>1
  <2> QED BY <2>2, <2>3, <2>4
<1> QED BY <1>1, <1>2

(* For any trial and any contracts: a candidate passes that would without   *)
(* one and meets it, only the rest of what would is blamed on the contract, *)
(* and a contract is met just where its scores are full (evaluation.py,     *)
(* score_executor_output).                                                 *)
THEOREM ContractsAreScored ==
  ASSUME NEW Values, NEW Codes, NEW trial, IsTrial(trial, Values, Codes),
         NEW Paths, NEW Types, NEW actual, NEW expected,
         IsContract(actual, Paths, Types), IsContract(expected, Paths, Types),
         expected # {}
  PROVE  ContractTrialIsScored(trial, VerdictOf(trial),
           ScoreExecutorOutput(trial.result, AcceptanceOf(trial), trial.expected,
                               actual, expected))
<1> DEFINE template == VerdictOf(trial)
           contract == ScoreContract(actual, expected)
           score == ScoreExecutorOutput(trial.result, AcceptanceOf(trial), trial.expected,
                                        actual, expected)
           verdict == score.verdict
           category == FactsOf(trial, verdict).category
           passes == template.candidatePass = 1
<1>1. /\ score.contract = contract
      /\ verdict = [template EXCEPT !.candidatePass =
                      One(/\ template.candidatePass = 1
                          /\ template.recordCountMatch = 1
                          /\ contract.match)]
  BY DEF ScoreExecutorOutput, VerdictOf
<1>2. /\ passes <=> /\ trial.result.status = "success" /\ Reproduced(trial)
                    /\ trial.result.records = trial.expected
      /\ template.recordCountMatch = 1 <=>
           /\ trial.result.status # "raised"
           /\ Len(trial.result.records) = Len(trial.expected)
      /\ template.independentAcceptance = 1 <=>
           trial.result.status = "success" /\ Reproduced(trial)
      /\ template.recordsExactMatch = 1 <=>
           /\ trial.result.status # "raised"
           /\ trial.result.records = trial.expected
  BY VerdictMeans DEF One
<1>3. /\ verdict.candidatePass = 1 <=> passes /\ contract.match
      /\ verdict.independentAcceptance = template.independentAcceptance
      /\ verdict.recordsExactMatch = template.recordsExactMatch
  <2>1. passes => template.recordCountMatch = 1  BY <1>2
  <2>2. /\ verdict.candidatePass = One(/\ template.candidatePass = 1
                                       /\ template.recordCountMatch = 1
                                       /\ contract.match)
        /\ verdict.independentAcceptance = template.independentAcceptance
        /\ verdict.recordsExactMatch = template.recordsExactMatch
    <3>1. "candidatePass" \in DOMAIN template
      BY DEF VerdictOf, TemplateVerdict
    <3> HIDE DEF template, contract, verdict
    <3> QED BY <1>1, <3>1
  <2> QED BY <2>1, <2>2 DEF One
<1> HIDE DEF template
<1>4. category = "schema_contract" <=> passes /\ ~ contract.match
  <2>1. verdict.candidatePass = 1 => trial.result.status = "success"  BY <1>2, <1>3
  <2> HIDE DEF contract, verdict, score
  <2>2. /\ category = "none" <=> verdict.candidatePass = 1
        /\ trial.result.status = "success" /\ verdict.candidatePass # 1 =>
             category = IF verdict.independentAcceptance # 1 THEN "acceptance"
                        ELSE IF verdict.recordsExactMatch # 1 THEN "records"
                        ELSE "schema_contract"
        /\ trial.result.status # "success" =>
             category \in {"runner", "schema", "ttp", "model", "generation"}
    BY <2>1, BlameMeans
  <2> HIDE DEF category
  <2>3. trial.result.status = "success" => trial.result.status # "raised"  OBVIOUS
  <2> QED BY <1>2, <1>3, <2>2, <2>3
<1> DEFINE full(part) == Equal(part.f1, <<1, 1>>)
           atMost(r, q) == r[1] * q[2] <= q[1] * r[2]
<1>5. ASSUME NEW mark \in Marks
      PROVE  full(contract.by[mark]) <=> MarksOf(actual, mark) = MarksOf(expected, mark)
  <2>1. contract.by[mark] =
          PrecisionRecallF1(
            Cardinality(MarksOf(actual, mark) \intersect MarksOf(expected, mark)),
            Cardinality(MarksOf(actual, mark)), Cardinality(MarksOf(expected, mark)))
    BY DEF ScoreContract
  <2>2. /\ IsFiniteSet(MarksOf(actual, mark)) /\ IsFiniteSet(MarksOf(expected, mark))
        /\ MarksOf(expected, mark) # {}
    BY MarksAreAsMany DEF MarksOf
  <2> QED BY <2>1, <2>2, FullMeansSame
<1>6. contract.match <=> actual = expected  BY DEF ScoreContract
<1>7. MarksOf(actual, "whole") = MarksOf(expected, "whole") => actual = expected
  <2> SUFFICES ASSUME MarksOf(actual, "whole") = MarksOf(expected, "whole")
               PROVE  actual = expected
    OBVIOUS
  <2>1. \A n : n \in actual <=> <<n>> \in MarksOf(actual, "whole")
    BY DEF MarksOf, MarkOf
  <2>2. \A n : n \in expected <=> <<n>> \in MarksOf(expected, "whole")
    BY DEF MarksOf, MarkOf
  <2> QED BY <2>1, <2>2
<1>8. /\ MarksOf(actual, "type") = MarksOf(expected, "type")
      /\ MarksOf(actual, "required") = MarksOf(expected, "required")
      => actual = expected
  <2> SUFFICES ASSUME MarksOf(actual, "type") = MarksOf(expected, "type"),
                      MarksOf(actual, "required") = MarksOf(expected, "required")
               PROVE  actual = expected
    OBVIOUS
  <2>1. ASSUME NEW A, NEW E, IsContract(A, Paths, Types), IsContract(E, Paths, Types),
               MarksOf(A, "type") = MarksOf(E, "type"),
               MarksOf(A, "required") = MarksOf(E, "required"), NEW n \in A
        PROVE  n \in E
    <3>1. PICK m \in E : MarkOf(m, "type") = MarkOf(n, "type")
      BY <2>1 DEF MarksOf
    <3>2. PICK l \in E : MarkOf(l, "required") = MarkOf(n, "required")
      BY <2>1 DEF MarksOf
    <3>3. m.path = n.path /\ m.type = n.type  BY <3>1, MarksTellApart DEF Marks
    <3>4. l.path = n.path /\ l.required = n.required  BY <3>2, MarksTellApart DEF Marks
    <3>5. m = l  BY <2>1, <3>3, <3>4 DEF IsContract
    <3>6. /\ n \in [path : Paths, type : Types, required : BOOLEAN]
          /\ m \in [path : Paths, type : Types, required : BOOLEAN]
      BY <2>1 DEF IsContract
    <3>7. n = m  BY <3>3, <3>4, <3>5, <3>6
    <3> QED BY <3>7
  <2>2. actual \subseteq expected  BY <2>1
  <2>3. expected \subseteq actual  BY <2>1
  <2> QED BY <2>2, <2>3
<1>9. {"whole", "type", "required"} \subseteq Marks  BY DEF Marks
<1>10. ASSUME NEW mark \in Marks
       PROVE  atMost(contract.by["whole"].recall, contract.by[mark].recall)
  <2> DEFINE matches(m) == MarksOf(actual, m) \intersect MarksOf(expected, m)
             o(m) == Cardinality(matches(m))
             f == [n \in actual \intersect expected |-> MarkOf(n, mark)]
             g == [n \in actual \intersect expected |-> MarkOf(n, "whole")]
  <2>0. "whole" \in Marks  BY DEF Marks
  <2>1. \A m \in Marks :
          contract.by[m] = PrecisionRecallF1(o(m), Cardinality(MarksOf(actual, m)),
                                             Cardinality(MarksOf(expected, m)))
    BY DEF ScoreContract
  <2>2. \A m \in Marks :
          /\ IsFiniteSet(MarksOf(actual, m)) /\ IsFiniteSet(MarksOf(expected, m))
          /\ Cardinality(MarksOf(actual, m)) = Cardinality(actual)
          /\ Cardinality(MarksOf(expected, m)) = Cardinality(expected)
    BY MarksAreAsMany
  <2>3. \A m \in Marks : IsFiniteSet(matches(m))  BY <2>2, FS_Intersection
  <2>4. IsFiniteSet(actual \intersect expected)
    BY FS_Intersection DEF IsContract
  <2>5. f \in Injection(actual \intersect expected, matches(mark))
    <3>1. \A n, m \in actual : MarkOf(n, mark) = MarkOf(m, mark) => n = m
      BY MarksAreAsMany
    <3> QED BY <3>1 DEF Injection, IsInjective, MarksOf
  <2>6. g \in Surjection(actual \intersect expected, matches("whole"))
    BY DEF Surjection, MarksOf, MarkOf
  <2> HIDE DEF f, g, matches
  <2>7. Cardinality(actual \intersect expected) <= o(mark)
    BY <2>3, <2>5, FS_Injection
  <2>8. o("whole") <= Cardinality(actual \intersect expected)
    BY <2>4, <2>6, FS_Surjection
  <2>9. /\ Cardinality(actual \intersect expected) \in Nat
        /\ o("whole") \in Nat /\ o(mark) \in Nat
        /\ Cardinality(actual) \in Nat /\ Cardinality(expected) \in Nat \ {0}
    <3>1. IsFiniteSet(actual) /\ IsFiniteSet(expected)  BY DEF IsContract
    <3> QED BY <2>0, <2>3, <2>4, <3>1, FS_CardinalityType, FS_EmptySet
  <2> HIDE DEF o, contract
  <2>10. o("whole") <= o(mark)  BY <2>7, <2>8, <2>9
  <2> DEFINE e == Cardinality(expected)
  <2>11. /\ contract.by["whole"] = PrecisionRecallF1(o("whole"), Cardinality(actual), e)
         /\ contract.by[mark] = PrecisionRecallF1(o(mark), Cardinality(actual), e)
    BY <2>0, <2>1, <2>2
  <2> HIDE DEF e
  <2>12. /\ e \in Nat \ {0}
         /\ o("whole") \in Nat /\ o(mark) \in Nat
    BY <2>9 DEF e
  <2> QED BY <2>9, <2>10, <2>11, <2>12, RecallOfMore
<1> HIDE DEF contract, verdict, full, atMost
<1>11. /\ contract.match <=> full(contract.by["whole"])
       /\ contract.match <=> full(contract.by["type"]) /\ full(contract.by["required"])
  BY <1>5, <1>6, <1>7, <1>8, <1>9
<1> HIDE DEF category, passes, score
<1>12. ContractIsScored(passes, score, category)
  <2>1. score.verdict.candidatePass = 1 <=> passes /\ contract.match  BY <1>3 DEF verdict
  <2>2. score.contract = contract  BY <1>1
  <2> USE DEF full, atMost
  <2> QED BY <1>4, <1>10, <1>11, <2>1, <2>2 DEF ContractIsScored
<1> QED BY <1>12 DEF ContractTrialIsScored, category, passes, verdict, template, score
-----------------------------------------------------------------------------
(* A sum is no more than another if it is so at every place.                *)
LEMMA SumsCompare ==
  ASSUME NEW n \in Nat, NEW v \in [1 .. n -> Nat], NEW w \in [1 .. n -> Nat],
         NEW S \in SUBSET (1 .. n), NEW T \in SUBSET (1 .. n),
         \A i \in S : (i \in T /\ v[i] <= w[i]) \/ v[i] = 0
  PROVE  SumOver(v, S) <= SumOver(w, T)
<1> DEFINE Holds == {k \in Nat : k <= n => SumOver(v, S \intersect (1 .. k))
                                             <= SumOver(w, T \intersect (1 .. k))}
<1>1. /\ SumOver(v, {}) = 0 /\ SumOver(w, {}) = 0
      /\ \A s \in SUBSET (1 .. n) : \A x \in 1 .. n :
           /\ SumOver(v, s) \in Nat /\ SumOver(w, s) \in Nat
           /\ x \notin s => /\ SumOver(v, s \union {x}) = SumOver(v, s) + v[x]
                            /\ SumOver(w, s \union {x}) = SumOver(w, s) + w[x]
  BY SumsAddUp
<1>2. 0 \in Holds
  <2>1. S \intersect (1 .. 0) = {} /\ T \intersect (1 .. 0) = {}  OBVIOUS
  <2> QED BY <1>1, <2>1
<1>3. ASSUME NEW k \in Nat, k \in Holds PROVE k + 1 \in Holds
  <2> SUFFICES ASSUME k + 1 <= n
               PROVE  SumOver(v, S \intersect (1 .. (k + 1)))
                        <= SumOver(w, T \intersect (1 .. (k + 1)))
    OBVIOUS
  <2> DEFINE s == S \intersect (1 .. k)
             t == T \intersect (1 .. k)
             x == k + 1
             more == S \intersect (1 .. x)
             most == T \intersect (1 .. x)
  <2>1. /\ x \in 1 .. n /\ k <= n
        /\ s \in SUBSET (1 .. n) /\ t \in SUBSET (1 .. n) /\ x \notin s /\ x \notin t
    OBVIOUS
  <2>a. /\ more = IF x \in S THEN s \union {x} ELSE s
        /\ most = IF x \in T THEN t \union {x} ELSE t
    OBVIOUS
  <2>2. SumOver(v, s) <= SumOver(w, t)  BY <1>3, <2>1
  <2> HIDE DEF s, t, more, most
  <2>3. /\ SumOver(v, s) \in Nat /\ SumOver(w, t) \in Nat
        /\ SumOver(v, s \union {x}) = SumOver(v, s) + v[x]
        /\ SumOver(w, t \union {x}) = SumOver(w, t) + w[x]
    BY <1>1, <2>1
  <2> HIDE DEF x
  <2>4. /\ v[x] \in Nat /\ w[x] \in Nat
        /\ x \in S => (x \in T /\ v[x] <= w[x]) \/ v[x] = 0
    BY <2>1
  <2>5. SumOver(v, more) = SumOver(v, s) + (IF x \in S THEN v[x] ELSE 0)
    BY <2>a, <2>3
  <2>6. SumOver(w, most) = SumOver(w, t) + (IF x \in T THEN w[x] ELSE 0)
    BY <2>a, <2>3
  <2>7. SumOver(v, more) <= SumOver(w, most)
    BY <2>2, <2>3, <2>4, <2>5, <2>6
  <2> QED BY <2>7 DEF x, more, most
<1>4. Nat \subseteq Holds
  <2> HIDE DEF Holds
  <2> QED BY <1>2, <1>3, Induct
<1> DEFINE all == S \intersect (1 .. n)
           whole == T \intersect (1 .. n)
<1>5. all = S /\ whole = T  OBVIOUS
<1>6. SumOver(v, all) <= SumOver(w, whole)  BY <1>4
<1> HIDE DEF all, whole
<1> QED BY <1>5, <1>6

(* The sum of ones is how many there are.                                   *)
LEMMA OnesAreCounted ==
  ASSUME NEW n \in Nat, NEW w \in [1 .. n -> {0, 1}]
  PROVE  SumOver(w, 1 .. n) = Cardinality({i \in 1 .. n : w[i] = 1})
<1> DEFINE ones(k) == {i \in 1 .. k : w[i] = 1}
           Holds == {k \in Nat : k <= n => SumOver(w, 1 .. k) = Cardinality(ones(k))}
<1>0. w \in [1 .. n -> Nat]  OBVIOUS
<1>1. /\ SumOver(w, {}) = 0
      /\ \A s \in SUBSET (1 .. n) : \A x \in 1 .. n :
           /\ SumOver(w, s) \in Nat
           /\ x \notin s => SumOver(w, s \union {x}) = SumOver(w, s) + w[x]
  BY <1>0, SumsAddUp
<1>2. 0 \in Holds
  <2>1. 1 .. 0 = {} /\ ones(0) = {}  OBVIOUS
  <2> HIDE DEF ones
  <2> QED BY <1>1, <2>1, FS_EmptySet
<1>3. ASSUME NEW k \in Nat, k \in Holds PROVE k + 1 \in Holds
  <2> SUFFICES ASSUME k + 1 <= n PROVE SumOver(w, 1 .. (k + 1)) = Cardinality(ones(k + 1))
    OBVIOUS
  <2>1. /\ k + 1 \in 1 .. n /\ k <= n
        /\ 1 .. k \in SUBSET (1 .. n) /\ k + 1 \notin 1 .. k
        /\ 1 .. (k + 1) = (1 .. k) \union {k + 1}
    OBVIOUS
  <2>2. SumOver(w, 1 .. k) = Cardinality(ones(k))  BY <1>3, <2>1
  <2>3. SumOver(w, 1 .. (k + 1)) = SumOver(w, 1 .. k) + w[k + 1]  BY <1>1, <2>1
  <2>4. IsFiniteSet(ones(k))
    <3>1. IsFiniteSet(1 .. k)  BY FS_Interval
    <3>2. ones(k) \in SUBSET (1 .. k)  OBVIOUS
    <3> QED BY <3>1, <3>2, FS_Subset
  <2>5. /\ k + 1 \notin ones(k)
        /\ ones(k + 1) = IF w[k + 1] = 1 THEN ones(k) \union {k + 1} ELSE ones(k)
    BY <2>1
  <2> HIDE DEF ones
  <2>6. Cardinality(ones(k) \union {k + 1}) = Cardinality(ones(k)) + 1
        /\ Cardinality(ones(k)) \in Nat
    BY <2>4, <2>5, FS_AddElement, FS_CardinalityType
  <2>7. w[k + 1] \in {0, 1}  BY <2>1
  <2>8. CASE w[k + 1] = 1  BY <2>2, <2>3, <2>5, <2>6, <2>8
  <2>9. CASE w[k + 1] = 0  BY <2>2, <2>3, <2>5, <2>6, <2>9
  <2> QED BY <2>7, <2>8, <2>9
<1>4. Nat \subseteq Holds
  <2> HIDE DEF Holds
  <2> QED BY <1>2, <1>3, Induct
<1> QED BY <1>4

(* The sum of one number at n places.                                       *)
LEMMA EqualsAddUp ==
  ASSUME NEW n \in Nat, NEW d \in Nat, NEW w \in [1 .. n -> Nat], \A i \in 1 .. n : w[i] = d
  PROVE  SumOver(w, 1 .. n) = n * d
<1> DEFINE Holds == {k \in Nat : k <= n => SumOver(w, 1 .. k) = k * d}
<1>1. /\ SumOver(w, {}) = 0
      /\ \A s \in SUBSET (1 .. n) : \A x \in 1 .. n :
           /\ SumOver(w, s) \in Nat
           /\ x \notin s => SumOver(w, s \union {x}) = SumOver(w, s) + w[x]
  BY SumsAddUp
<1>2. 0 \in Holds
  <2>1. 1 .. 0 = {} /\ 0 * d = 0  OBVIOUS
  <2> QED BY <1>1, <2>1
<1>3. ASSUME NEW k \in Nat, k \in Holds PROVE k + 1 \in Holds
  <2> SUFFICES ASSUME k + 1 <= n PROVE SumOver(w, 1 .. (k + 1)) = (k + 1) * d
    OBVIOUS
  <2>1. /\ k + 1 \in 1 .. n /\ k <= n
        /\ 1 .. k \in SUBSET (1 .. n) /\ k + 1 \notin 1 .. k
        /\ 1 .. (k + 1) = (1 .. k) \union {k + 1}
    OBVIOUS
  <2>2. SumOver(w, 1 .. k) = k * d  BY <1>3, <2>1
  <2>3. SumOver(w, 1 .. (k + 1)) = SumOver(w, 1 .. k) + w[k + 1]  BY <1>1, <2>1
  <2>4. w[k + 1] = d  BY <2>1
  <2>5. (k + 1) * d = k * d + d  OBVIOUS
  <2> QED BY <2>2, <2>3, <2>4, <2>5
<1>4. Nat \subseteq Holds
  <2> HIDE DEF Holds
  <2> QED BY <1>2, <1>3, Induct
<1> QED BY <1>4
-----------------------------------------------------------------------------
\* The fractions as the fold adds them up.
Averages(rates, n, f) ==
  f = [s \in SUBSET (1 .. n) |->
         IF s = {} THEN <<0, 1>> ELSE Plus(f[s \ {Max(s)}], rates[Max(s)])]

(* A mean adds one fraction after the other, and divides the sum.           *)
LEMMA MeanRuns ==
  ASSUME NEW n \in Nat, NEW rates \in [1 .. n -> Int \X Int], Len(rates) = n
  PROVE  \E r : /\ r[0] = <<0, 1>>
                /\ \A k \in 1 .. n : r[k] = Plus(r[k - 1], rates[k])
                /\ Mean(rates) = Fraction(r[n][1], r[n][2] * n)
<1> DEFINE X == Int \X Int
           step == [p \in (1 .. n) \X X |-> Plus(p[2], rates[p[1]])]
           f == CHOOSE g : Averages(rates, n, g)
<1>1. <<0, 1>> \in X  OBVIOUS
<1>2. step \in [(1 .. n) \X X -> X]
  <2>1. \A k \in 1 .. n, x \in X : Plus(x, rates[k]) \in X
    BY DEF Plus
  <2> HIDE DEF X
  <2> QED BY <2>1
<1>3. PICK g \in [SUBSET (1 .. n) -> X] : Folding(step, <<0, 1>>, n, g)
  <2> HIDE DEF step, X
  <2> QED BY <1>1, <1>2, FoldExists
<1>4. Averages(rates, n, g)
  <2>1. ASSUME NEW s \in SUBSET (1 .. n), s # {}
        PROVE  step[<<Max(s), g[s \ {Max(s)}]>>] = Plus(g[s \ {Max(s)}], rates[Max(s)])
    <3>1. Max(s) \in 1 .. n  BY <2>1, LargestIsMember
    <3>2. g[s \ {Max(s)}] \in X
      <4> HIDE DEF X
      <4> QED OBVIOUS
    <3> HIDE DEF X
    <3> QED BY <3>1, <3>2
  <2> HIDE DEF step, X
  <2> QED BY <1>3, <2>1 DEF Folding, Averages
<1>5. Averages(rates, n, f)  BY <1>4
<1>6. Mean(rates) = Fraction(f[1 .. n][1], f[1 .. n][2] * n)
  <2>1. DOMAIN rates = 1 .. n  OBVIOUS
  <2>2. FoldLeft(Plus, <<0, 1>>, rates) = f[1 .. n]
    BY <2>1 DEF FoldLeft, MapThenFoldSet, Averages
  <2> HIDE DEF f
  <2> QED BY <2>2 DEF Mean
<1> HIDE DEF f
<1> DEFINE r == [k \in 0 .. n |-> f[1 .. k]]
<1>7. r[0] = <<0, 1>>
  <2>1. 1 .. 0 = {} /\ 0 \in 0 .. n  OBVIOUS
  <2> QED BY <1>5, <2>1 DEF Averages
<1>8. ASSUME NEW k \in 1 .. n PROVE r[k] = Plus(r[k - 1], rates[k])
  <2>1. k \in 0 .. n /\ k - 1 \in 0 .. n  OBVIOUS
  <2>2. /\ 1 .. k \in SUBSET (1 .. n) /\ 1 .. k # {}
        /\ Max(1 .. k) = k /\ (1 .. k) \ {k} = 1 .. (k - 1)
    BY LastPosition
  <2>3. f[1 .. k] = Plus(f[(1 .. k) \ {Max(1 .. k)}], rates[Max(1 .. k)])
    BY <1>5, <2>2 DEF Averages
  <2> QED BY <2>1, <2>2, <2>3
<1>9. n \in 0 .. n /\ r[n] = f[1 .. n]  OBVIOUS
<1> HIDE DEF r
<1> QED BY <1>6, <1>7, <1>8, <1>9

\* That a fraction is a sum of numerators over a denominator.
IsOver(r, sum, denominator) ==
  /\ r \in Nat \X (Nat \ {0})
  /\ r[1] * denominator = sum * r[2]

(* One more fraction of that denominator adds its numerator.                *)
LEMMA OneMoreFraction ==
  ASSUME NEW D \in Nat \ {0}, NEW r, NEW t \in Nat, IsOver(r, t, D), NEW e \in Nat
  PROVE  IsOver(Plus(r, <<e, D>>), t + e, D)
<1>1. PICK a \in Nat, b \in Nat \ {0} : r = <<a, b>> /\ a * D = t * b
  BY DEF IsOver
<1>2. Plus(r, <<e, D>>) = <<a * D + e * b, b * D>>  BY <1>1 DEF Plus
<1>3. a * D \in Nat /\ e * b \in Nat /\ b * D \in Nat /\ t * b \in Nat  BY <1>1
<1>4. b * D # 0  BY <1>1
<1>5. (a * D + e * b) * D = (t * b + e * b) * D  BY <1>1
<1>6. t * b + e * b = (t + e) * b  BY <1>1
<1>7. ((t + e) * b) * D = (t + e) * (b * D)  BY <1>1
<1>8. (t * b + e * b) * D = ((t + e) * b) * D  BY ONLY <1>6
<1>9. (a * D + e * b) * D = (t + e) * (b * D)  BY ONLY <1>5, <1>7, <1>8
<1> DEFINE p == a * D + e * b
           q == b * D
<1>10. p \in Nat /\ q \in Nat \ {0}  BY <1>3, <1>4
<1>11. Plus(r, <<e, D>>) = <<p, q>> /\ p * D = (t + e) * q  BY <1>2, <1>9
<1> HIDE DEF p, q
<1> QED BY <1>10, <1>11 DEF IsOver

(* Over places of one size, pooled and averaged fractions are equal.        *)
LEMMA PooledIsAveraged ==
  ASSUME NEW n \in Nat, NEW d \in Nat, NEW e \in [1 .. n -> Nat],
         \A i \in 1 .. n : e[i] <= d,
         NEW rates \in [1 .. n -> Int \X Int], Len(rates) = n,
         \A i \in 1 .. n : rates[i] = Fraction(e[i], d)
  PROVE  Equal(Fraction(SumOver(e, 1 .. n), n * d), Mean(rates))
<1> DEFINE D == IF d = 0 THEN 1 ELSE d
           T(k) == SumOver(e, 1 .. k)
<1>1. PICK r : /\ r[0] = <<0, 1>>
               /\ \A k \in 1 .. n : r[k] = Plus(r[k - 1], rates[k])
               /\ Mean(rates) = Fraction(r[n][1], r[n][2] * n)
  BY MeanRuns
<1>2. \A i \in 1 .. n : rates[i] = <<e[i], D>> /\ (d = 0 => e[i] = 0)
  BY DEF Fraction
<1>3. D \in Nat \ {0} /\ (d # 0 => D = d)  OBVIOUS
<1> HIDE DEF D
<1>4. /\ T(0) = 0
      /\ \A k \in 0 .. n : T(k) \in Nat
      /\ \A k \in 1 .. n : T(k) = T(k - 1) + e[k]
  <2>1. /\ SumOver(e, {}) = 0
        /\ \A s \in SUBSET (1 .. n) : \A x \in 1 .. n :
             /\ SumOver(e, s) \in Nat
             /\ x \notin s => SumOver(e, s \union {x}) = SumOver(e, s) + e[x]
    BY SumsAddUp
  <2>2. T(0) = 0
    <3>1. 1 .. 0 = {}  OBVIOUS
    <3> QED BY <2>1, <3>1
  <2>3. ASSUME NEW k \in 1 .. n PROVE T(k) = T(k - 1) + e[k] /\ T(k) \in Nat
    <3> DEFINE s == 1 .. (k - 1)
    <3>1. s \in SUBSET (1 .. n) /\ k \notin s  OBVIOUS
    <3>2. 1 .. k = s \union {k} /\ 1 .. k \in SUBSET (1 .. n)  OBVIOUS
    <3>3. SumOver(e, s \union {k}) = SumOver(e, s) + e[k]  BY <2>1, <3>1
    <3>4. SumOver(e, 1 .. k) = SumOver(e, s) + e[k]  BY <3>2, <3>3
    <3>5. SumOver(e, 1 .. k) \in Nat  BY <2>1, <3>2
    <3> QED BY <3>4, <3>5
  <2> HIDE DEF T
  <2>4. \A k \in 0 .. n : k = 0 \/ k \in 1 .. n  OBVIOUS
  <2> QED BY <2>2, <2>3, <2>4
<1> HIDE DEF T
<1> DEFINE Holds == {k \in Nat : k <= n => IsOver(r[k], T(k), D)}
<1>5. 0 \in Holds
  <2>1. IsOver(<<0, 1>>, 0, D)  BY <1>3 DEF IsOver
  <2> QED BY <1>1, <1>4, <2>1
<1>6. ASSUME NEW k \in Nat, k \in Holds PROVE k + 1 \in Holds
  <2> SUFFICES ASSUME k + 1 <= n PROVE IsOver(r[k + 1], T(k + 1), D)
    OBVIOUS
  <2>1. k + 1 \in 1 .. n /\ (k + 1) - 1 = k /\ k <= n /\ k \in 0 .. n  OBVIOUS
  <2>2. IsOver(r[k], T(k), D)  BY <1>6, <2>1
  <2>3. r[k + 1] = Plus(r[k], rates[k + 1])  BY <1>1, <2>1
  <2>4. rates[k + 1] = <<e[k + 1], D>> /\ e[k + 1] \in Nat  BY <1>2, <2>1
  <2>5. T(k + 1) = T(k) + e[k + 1] /\ T(k) \in Nat  BY <1>4, <2>1
  <2> QED BY <1>3, <2>2, <2>3, <2>4, <2>5, OneMoreFraction
<1>7. Nat \subseteq Holds
  <2> HIDE DEF Holds
  <2> QED BY <1>5, <1>6, Induct
<1>8. PICK a \in Nat, b \in Nat \ {0} : r[n] = <<a, b>> /\ a * D = T(n) * b
  <2>1. IsOver(r[n], T(n), D)  BY <1>7
  <2> QED BY <2>1 DEF IsOver
<1> HIDE DEF Holds
<1>9. Mean(rates) = Fraction(a, b * n)  BY <1>1, <1>8
<1>10. T(n) \in Nat  BY <1>4
<1>11. CASE n = 0
  <2>1. T(n) = 0 /\ n * d = 0 /\ b * n = 0  BY <1>4, <1>11
  <2>2. Fraction(T(n), n * d) = <<0, 1>> /\ Mean(rates) = <<0, 1>>
    BY <1>9, <2>1 DEF Fraction
  <2> QED BY <2>2 DEF Equal, T
<1>12. CASE n # 0 /\ d = 0
  <2>1. T(n) = 0
    <3> DEFINE Zero == {k \in Nat : k <= n => T(k) = 0}
    <3>1. 0 \in Zero  BY <1>4
    <3>2. ASSUME NEW k \in Nat, k \in Zero PROVE k + 1 \in Zero
      <4> SUFFICES ASSUME k + 1 <= n PROVE T(k + 1) = 0  OBVIOUS
      <4>1. k + 1 \in 1 .. n /\ (k + 1) - 1 = k /\ k <= n  OBVIOUS
      <4>2. T(k) = 0 /\ e[k + 1] = 0  BY <1>2, <1>12, <3>2, <4>1
      <4> QED BY <1>4, <4>1, <4>2
    <3>3. Nat \subseteq Zero
      <4> HIDE DEF Zero
      <4> QED BY <3>1, <3>2, Induct
    <3> QED BY <3>3
  <2>2. a = 0
    <3>1. a * D = 0  BY <1>8, <2>1
    <3> QED BY <1>3, <3>1
  <2>3. n * d = 0 /\ b * n # 0 /\ b * n \in Nat  BY <1>12
  <2>4. Fraction(T(n), n * d) = <<0, 1>> /\ Mean(rates) = <<0, b * n>>
    BY <1>9, <2>2, <2>3 DEF Fraction
  <2>5. 0 * (b * n) = 0 * 1  BY <2>3
  <2> QED BY <2>4, <2>5 DEF Equal, T
<1>13. CASE n # 0 /\ d # 0
  <2>1. n * d # 0 /\ b * n # 0 /\ n * d \in Nat /\ b * n \in Nat  BY <1>13
  <2>2. Fraction(T(n), n * d) = <<T(n), n * d>> /\ Mean(rates) = <<a, b * n>>
    BY <1>9, <2>1 DEF Fraction
  <2> DEFINE t == T(n)
  <2>3. a * d = t * b /\ t \in Nat  BY <1>3, <1>8, <1>10, <1>13
  <2> HIDE DEF t
  <2>4. t * (b * n) = a * (n * d)
    <3>1. t * (b * n) = (t * b) * n  BY <2>3
    <3>2. a * (n * d) = (a * d) * n  OBVIOUS
    <3>3. (t * b) * n = (a * d) * n  BY <2>3
    <3> QED BY ONLY <3>1, <3>2, <3>3
  <2>5. Equal(<<t, n * d>>, <<a, b * n>>)  BY <2>4 DEF Equal
  <2> QED BY <2>2, <2>5 DEF t, T
<1> QED BY <1>11, <1>12, <1>13
-----------------------------------------------------------------------------
\* Scored as a run has them: of each, the schema froze, did not, or nothing is known of it.
AreTrials(Scored, Values, Codes) ==
  \A trial \in Scored : IsTrial(trial, Values, Codes) /\ trial.frozen \in {Unobserved, 0, 1}

(* What the scores of a trial say of one another.                           *)
LEMMA ScoresOfATrial ==
  ASSUME NEW Values, NEW Codes, NEW trial, IsTrial(trial, Values, Codes)
  PROVE  LET score == VerdictOf(trial)
             m == Len(trial.expected)
         IN  /\ score.candidatePass \in {0, 1}
             /\ score.inputCount = m /\ m \in Nat
             /\ score.inputExactCount \in Nat /\ score.inputExactCount <= m
             /\ score.inputExactRate = Fraction(score.inputExactCount, m)
             /\ score.candidatePass = 1 => score.inputExactCount = m
             /\ trial.result.status # "success" => score.inputExactCount = 0
             /\ FactsOf(trial, score).category = "none" <=> score.candidatePass = 1
<1> DEFINE score == VerdictOf(trial)
           m == Len(trial.expected)
           category == FactsOf(trial, score).category
<1>1. /\ score.candidatePass \in {0, 1}
      /\ score.candidatePass = 1 => trial.result.records = trial.expected
  BY VerdictMeans DEF One
<1>2. category = "none" <=> score.candidatePass = 1
  BY PassesAreEarned DEF PassIsEarned
<1>3. /\ score.inputCount = m /\ m \in Nat
      /\ score.inputExactCount \in Nat /\ score.inputExactCount <= m
      /\ score.inputExactRate = Fraction(score.inputExactCount, m)
      /\ trial.result.records = trial.expected => score.inputExactCount = m
      /\ trial.result.status # "success" => score.inputExactCount = 0
  BY InputsCounted
<1> HIDE DEF score, m, category
<1>4. /\ score.candidatePass \in {0, 1}
      /\ score.inputCount = m /\ m \in Nat
      /\ score.inputExactCount \in Nat /\ score.inputExactCount <= m
      /\ score.inputExactRate = Fraction(score.inputExactCount, m)
      /\ score.candidatePass = 1 => score.inputExactCount = m
      /\ trial.result.status # "success" => score.inputExactCount = 0
      /\ category = "none" <=> score.candidatePass = 1
  BY <1>1, <1>2, <1>3
<1> QED BY <1>4 DEF score, m, category

(* A metric that is observed of every trial counts every trial.             *)
LEMMA AllObserved ==
  ASSUME NEW n \in Nat, NEW w \in [1 .. n -> {0, 1}]
  PROVE  LET all == AggregateTrialScores(w)
         IN  /\ all.count = n
             /\ all.sum = all.successes
             /\ all.successes = Cardinality({i \in 1 .. n : w[i] = 1})
<1> DEFINE seen == {i \in DOMAIN w : w[i] # Unobserved}
           all == AggregateTrialScores(w)
<1>1. seen = 1 .. n  BY DEF Unobserved
<1>2. /\ all.count = Cardinality(seen) /\ all.sum = SumOver(w, seen)
      /\ all.successes = Cardinality({i \in seen : w[i] = 1})
  BY DEF AggregateTrialScores
<1> HIDE DEF seen, all
<1>3. /\ all.count = Cardinality(1 .. n) /\ all.sum = SumOver(w, 1 .. n)
      /\ all.successes = Cardinality({i \in 1 .. n : w[i] = 1})
  BY <1>1, <1>2
<1>4. Cardinality(1 .. n) = n  BY FS_Interval
<1>5. SumOver(w, 1 .. n) = Cardinality({i \in 1 .. n : w[i] = 1})  BY OnesAreCounted
<1>6. /\ all.count = n
      /\ all.sum = all.successes
      /\ all.successes = Cardinality({i \in 1 .. n : w[i] = 1})
  BY <1>3, <1>4, <1>5
<1> QED BY <1>6 DEF all

(* For any trials: a run's numbers count each of them once, those that      *)
(* raised as well, and pooled inputs are averaged trials where all have as  *)
(* many inputs (evaluation.py, run_test_sets.py).                          *)
THEOREM EveryTrialIsCounted ==
  ASSUME NEW Values, NEW Codes, NEW Scored, AreTrials(Scored, Values, Codes),
         NEW trials \in Seq(Scored)
  PROVE  RunIsCounted(trials, [i \in DOMAIN trials |-> VerdictOf(trials[i])])
<1> DEFINE n == Len(trials)
           scores == [i \in DOMAIN trials |-> VerdictOf(trials[i])]
           lengths == [i \in DOMAIN trials |-> Len(trials[i].expected)]
           counts == [i \in DOMAIN scores |-> scores[i]["inputCount"]]
           exacts == [i \in DOMAIN scores |-> scores[i]["inputExactCount"]]
           earned == [i \in DOMAIN trials |-> scores[i].candidatePass]
           known == [i \in DOMAIN trials |-> trials[i].frozen]
           rates == [i \in DOMAIN trials |-> scores[i].inputExactRate]
           passes == AggregateTrialScores(earned)
           froze == AggregateTrialScores(known)
           micro == InputExactMatchMicro(scores)
           passed == {i \in DOMAIN trials : FactsOf(trials[i], scores[i]).category = "none"}
           succeeded == {i \in DOMAIN trials : trials[i].result.status = "success"}
<1>1. n \in Nat /\ DOMAIN trials = 1 .. n /\ DOMAIN scores = 1 .. n
  OBVIOUS
<1>2. \A i \in 1 .. n :
        /\ IsTrial(trials[i], Values, Codes) /\ trials[i].frozen \in {Unobserved, 0, 1}
        /\ scores[i] = VerdictOf(trials[i])
  BY <1>1 DEF AreTrials
<1> HIDE DEF n, scores
<1>3. ASSUME NEW i \in 1 .. n
      PROVE  /\ scores[i].candidatePass \in {0, 1}
             /\ scores[i].inputCount = lengths[i] /\ lengths[i] \in Nat
             /\ scores[i].inputExactCount \in Nat /\ scores[i].inputExactCount <= lengths[i]
             /\ scores[i].inputExactRate = Fraction(scores[i].inputExactCount, lengths[i])
             /\ scores[i].candidatePass = 1 => scores[i].inputExactCount = lengths[i]
             /\ i \notin succeeded => scores[i].inputExactCount = 0
             /\ i \in passed <=> scores[i].candidatePass = 1
  <2>1. /\ IsTrial(trials[i], Values, Codes) /\ scores[i] = VerdictOf(trials[i])
        /\ i \in DOMAIN trials
    BY <1>1, <1>2
  <2>2. lengths[i] = Len(trials[i].expected)  BY <2>1
  <2>3. i \notin succeeded => trials[i].result.status # "success"  BY <2>1
  <2>4. i \in passed <=> FactsOf(trials[i], scores[i]).category = "none"  BY <2>1
  <2> HIDE DEF lengths, succeeded, passed
  <2> QED BY <2>1, <2>2, <2>3, <2>4, ScoresOfATrial
<1>4. /\ lengths \in [1 .. n -> Nat] /\ exacts \in [1 .. n -> Nat]
      /\ earned \in [1 .. n -> {0, 1}]
      /\ counts = lengths
  BY <1>1, <1>3
<1>5. \A i \in 1 .. n : /\ exacts[i] = scores[i].inputExactCount
                        /\ earned[i] = scores[i].candidatePass
                        /\ rates[i] = Fraction(exacts[i], lengths[i])
  BY <1>1, <1>3
<1>6. passed \in SUBSET (1 .. n) /\ succeeded \in SUBSET (1 .. n)  BY <1>1
<1>7. /\ rates \in [1 .. n -> Int \X Int] /\ Len(rates) = n
  <2>1. \A i \in 1 .. n : Fraction(exacts[i], lengths[i]) \in Int \X Int
    BY <1>4 DEF Fraction
  <2>2. rates = [i \in 1 .. n |-> scores[i].inputExactRate]  BY <1>1
  <2>3. Len([i \in 1 .. n |-> scores[i].inputExactRate]) = n  BY <1>1
  <2>4. \A i \in 1 .. n : rates[i] \in Int \X Int  BY <1>5, <2>1
  <2>5. DOMAIN rates = 1 .. n  BY <2>2
  <2> QED BY <2>2, <2>3, <2>4
<1>8. /\ micro.successes = SumOver(exacts, 1 .. n)
      /\ micro.observations = SumOver(lengths, 1 .. n)
  <2>1. /\ micro.successes = SumOver(exacts, 1 .. n)
        /\ micro.observations = SumOver(counts, 1 .. n)
    BY <1>1 DEF InputExactMatchMicro
  <2> HIDE DEF counts, lengths, micro
  <2> QED BY <1>4, <2>1
<1>9. froze.count = Cardinality({i \in DOMAIN trials : trials[i].frozen # Unobserved})
  <2> DEFINE seen == {i \in DOMAIN known : known[i] # Unobserved}
             told == {i \in DOMAIN trials : trials[i].frozen # Unobserved}
  <2>1. froze.count = Cardinality(seen)  BY DEF AggregateTrialScores
  <2>2. seen = told  OBVIOUS
  <2> HIDE DEF seen, told, froze
  <2>3. froze.count = Cardinality(told)  BY <2>1, <2>2
  <2> QED BY <2>3 DEF told
<1>10. /\ passes.count = n /\ passes.sum = passes.successes
       /\ passes.successes = Cardinality(passed)
  <2> DEFINE ones == {i \in 1 .. n : earned[i] = 1}
  <2>1. ones = passed  BY <1>3, <1>5, <1>6
  <2>2. /\ passes.count = n /\ passes.sum = passes.successes
        /\ passes.successes = Cardinality(ones)
    BY <1>1, <1>4, AllObserved
  <2> HIDE DEF ones, passed, passes
  <2> QED BY <2>1, <2>2
<1>11. SumOver(lengths, passed) <= SumOver(exacts, 1 .. n)
  <2>1. \A i \in passed : i \in 1 .. n /\ lengths[i] <= exacts[i]
    BY <1>3, <1>4, <1>5, <1>6
  <2> HIDE DEF lengths, exacts, passed
  <2> QED BY <1>1, <1>4, <1>6, <2>1, SumsCompare
<1>12. SumOver(exacts, 1 .. n) <= SumOver(lengths, succeeded)
  <2>1. \A i \in 1 .. n : (i \in succeeded /\ exacts[i] <= lengths[i]) \/ exacts[i] = 0
    BY <1>3, <1>5
  <2> HIDE DEF lengths, exacts, succeeded
  <2> QED BY <1>1, <1>4, <1>6, <2>1, SumsCompare
<1>13. ASSUME \A i, j \in DOMAIN trials : scores[i].inputCount = scores[j].inputCount
       PROVE  Equal(Fraction(SumOver(exacts, 1 .. n), SumOver(lengths, 1 .. n)), Mean(rates))
  <2> DEFINE d == IF n = 0 THEN 0 ELSE lengths[1]
  <2>1. d \in Nat /\ \A i \in 1 .. n : lengths[i] = d
    <3>1. CASE n = 0  BY <3>1
    <3>2. CASE n # 0
      <4>1. 1 \in 1 .. n  BY <1>1, <3>2
      <4> HIDE DEF lengths
      <4> QED BY <1>1, <1>3, <1>13, <3>2, <4>1
    <3> QED BY <3>1, <3>2
  <2> HIDE DEF d, lengths, exacts, rates
  <2>2. SumOver(lengths, 1 .. n) = n * d  BY <1>1, <1>4, <2>1, EqualsAddUp
  <2>3. \A i \in 1 .. n : exacts[i] <= d /\ rates[i] = Fraction(exacts[i], d)
    BY <1>3, <1>5, <2>1
  <2>4. Equal(Fraction(SumOver(exacts, 1 .. n), n * d), Mean(rates))
    BY <1>1, <1>4, <1>7, <2>1, <2>3, PooledIsAveraged
  <2> QED BY <2>2, <2>4
<1> HIDE DEF lengths, exacts, rates, passes, froze, micro, counts, known, earned, succeeded
<1>14. EveryTrialCounts(trials, scores, passes, froze, micro)
  <2> USE DEF lengths, rates, succeeded, n
  <2> QED
    BY <1>1, <1>8, <1>9, <1>10, <1>11, <1>12, <1>13 DEF EveryTrialCounts
<1> QED BY <1>14 DEF RunIsCounted, passes, froze, micro, earned, known, scores
-----------------------------------------------------------------------------
(* Some of the numbers at some places is the largest there.                 *)
LEMMA LargestAt ==
  ASSUME NEW n \in Nat, NEW w \in [1 .. n -> Int], NEW S \in SUBSET (1 .. n), S # {}
  PROVE  \E i \in S : \A j \in S : w[j] <= w[i]
<1> DEFINE upTo(k) == S \intersect (1 .. k)
           Found(k) == upTo(k) # {} => \E i \in upTo(k) : \A j \in upTo(k) : w[j] <= w[i]
           Holds == {k \in Nat : k <= n => Found(k)}
<1>1. 0 \in Holds  OBVIOUS
<1>2. ASSUME NEW k \in Nat, k \in Holds PROVE k + 1 \in Holds
  <2> SUFFICES ASSUME k + 1 <= n, upTo(k + 1) # {}
               PROVE  \E i \in upTo(k + 1) : \A j \in upTo(k + 1) : w[j] <= w[i]
    OBVIOUS
  <2> DEFINE x == k + 1
  <2>1. x \in 1 .. n /\ Found(k)  BY <1>2
  <2>2. \A j : j \in upTo(x) <=> j \in upTo(k) \/ (j = x /\ x \in S)  OBVIOUS
  <2>3. \A j \in upTo(k) : j \in 1 .. n  BY <2>1
  <2>4. \A j \in 1 .. n : w[j] \in Int  OBVIOUS
  <2> HIDE DEF upTo, x
  <2>5. CASE upTo(k) = {}
    <3>1. x \in upTo(x) /\ \A j \in upTo(x) : j = x  BY <2>2, <2>5 DEF x
    <3> QED BY <2>1, <2>4, <3>1 DEF x
  <2>6. CASE upTo(k) # {}
    <3>1. PICK i \in upTo(k) : \A j \in upTo(k) : w[j] <= w[i]  BY <2>1, <2>6
    <3>2. w[i] \in Int /\ w[x] \in Int  BY <2>1, <2>3, <2>4, <3>1
    <3>3. CASE x \notin S \/ w[x] <= w[i]
      <4>1. i \in upTo(x) /\ \A j \in upTo(x) : w[j] <= w[i]  BY <2>2, <3>1, <3>3
      <4> QED BY <4>1 DEF x
    <3>4. CASE x \in S /\ w[i] < w[x]
      <4>1. \A j \in upTo(k) : w[j] <= w[x]  BY <2>3, <2>4, <3>1, <3>2, <3>4
      <4>2. x \in upTo(x) /\ \A j \in upTo(x) : w[j] <= w[x]  BY <2>2, <3>2, <3>4, <4>1
      <4> QED BY <4>2 DEF x
    <3> QED BY <3>2, <3>3, <3>4
  <2> QED BY <2>5, <2>6
<1>3. Nat \subseteq Holds
  <2> HIDE DEF Holds
  <2> QED BY <1>1, <1>2, Induct
<1>4. \A i : i \in upTo(n) <=> i \in S  OBVIOUS
<1>5. n \in Holds
  <2> HIDE DEF Holds
  <2> QED BY <1>3
<1>6. Found(n)
  <2> HIDE DEF Found
  <2> QED BY <1>5
<1> HIDE DEF upTo, Holds
<1> QED BY <1>4, <1>6

(* And some the smallest.                                                   *)
LEMMA SmallestAt ==
  ASSUME NEW n \in Nat, NEW w \in [1 .. n -> Int], NEW S \in SUBSET (1 .. n), S # {}
  PROVE  \E i \in S : \A j \in S : w[i] <= w[j]
<1> DEFINE v == [i \in 1 .. n |-> 0 - w[i]]
<1>1. v \in [1 .. n -> Int] /\ \A i \in 1 .. n : v[i] = 0 - w[i] /\ w[i] \in Int  OBVIOUS
<1> HIDE DEF v
<1>2. PICK i \in S : \A j \in S : v[j] <= v[i]  BY <1>1, LargestAt
<1>3. \A j \in S : w[i] <= w[j]  BY <1>1, <1>2
<1> QED BY <1>2, <1>3

\* The rank that is taken of n numbers for a share of p per cent.
RankOf(p, n) == Max({1, Min({n, (p * n + 99) \div 100})})

\* The shares that are reported.
Shares == {50, 95, 99}

(* It is the first that reaches the share.                                  *)
LEMMA RankReaches ==
  ASSUME NEW n \in Nat \ {0}, NEW p \in Shares
  PROVE  /\ RankOf(p, n) \in 1 .. n
         /\ \A c \in Nat : 100 * c >= p * n <=> c >= RankOf(p, n)
<1> DEFINE k == (p * n + 99) \div 100
<1>1. /\ k \in 1 .. n
      /\ \A c \in Nat : 100 * c >= p * n <=> c >= k
  <2>1. CASE p = 50  BY <2>1
  <2>2. CASE p = 95  BY <2>2
  <2>3. CASE p = 99  BY <2>3
  <2> QED BY <2>1, <2>2, <2>3 DEF Shares
<1> HIDE DEF k
<1>2. Min({n, k}) = k
  <2>1. k \in {n, k} /\ \A y \in {n, k} : k <= y  BY <1>1
  <2>2. \A x \in {n, k} : (\A y \in {n, k} : x <= y) => x = k  BY <1>1
  <2> QED BY <2>1, <2>2 DEF Min
<1>3. Max({1, k}) = k
  <2>1. k \in {1, k} /\ \A y \in {1, k} : k >= y  BY <1>1
  <2>2. \A x \in {1, k} : (\A y \in {1, k} : x >= y) => x = k  BY <1>1
  <2> QED BY <2>1, <2>2 DEF Max
<1>4. RankOf(p, n) = Max({1, Min({n, k})})  BY DEF RankOf, k
<1>5. RankOf(p, n) = k  BY <1>2, <1>3, <1>4
<1> QED BY <1>1, <1>5

(* For any numbers: a percentile is the smallest of them that at least that *)
(* share of them reaches up to (evaluation.py, _numeric_percentile).       *)
THEOREM PercentilesAreNearestRanks ==
  ASSUME NEW values \in Seq(Int), values # <<>>
  PROVE  PercentileIsNearestRank(values)
<1> DEFINE n == Len(values)
           below(v) == {i \in DOMAIN values : values[i] < v}
           reached(v) == {i \in DOMAIN values : values[i] <= v}
           low(v) == Cardinality(below(v))
           upTo(v) == Cardinality(reached(v))
<1>1. /\ n \in Nat \ {0} /\ DOMAIN values = 1 .. n
      /\ values \in [1 .. n -> Int]
      /\ Cardinality(DOMAIN values) = n
  <2>1. n \in Nat \ {0} /\ DOMAIN values = 1 .. n /\ values \in [1 .. n -> Int]  OBVIOUS
  <2> HIDE DEF n
  <2> QED BY <2>1, FS_Interval
<1>2. /\ \A v \in Range(values) : v \in Int
      /\ \A i \in 1 .. n : values[i] \in Range(values)
      /\ \A v \in Range(values) : \E i \in 1 .. n : values[i] = v
  BY <1>1 DEF Range
<1> HIDE DEF n
<1>3. ASSUME NEW v PROVE below(v) \in SUBSET (1 .. n) /\ reached(v) \in SUBSET (1 .. n)
  BY <1>1
<1>4. \A v : low(v) \in Nat /\ upTo(v) \in Nat /\ upTo(v) <= n
  BY <1>1, <1>3, AllPlaces
<1>5. ASSUME NEW u \in Int, NEW v \in Int, u < v PROVE upTo(u) <= low(v)
  <2>1. reached(u) \in SUBSET below(v)  BY <1>1, <1>5
  <2>2. IsFiniteSet(below(v))
    <3>1. IsFiniteSet(1 .. n)  BY <1>1, FS_Interval
    <3> QED BY <1>3, <3>1, FS_Subset
  <2> HIDE DEF reached, below
  <2> QED BY <2>1, <2>2, FS_Subset
<1>6. ASSUME NEW S \in SUBSET (1 .. n), S # {}
      PROVE  /\ \E i \in S : \A j \in S : values[j] <= values[i]
             /\ \E i \in S : \A j \in S : values[i] <= values[j]
  <2>1. n \in Nat /\ values \in [1 .. n -> Int]  BY <1>1
  <2>2. S \in SUBSET (1 .. n)  OBVIOUS
  <2>3. \E i \in S : \A j \in S : values[j] <= values[i]
    BY <1>6, <2>1, <2>2, LargestAt, Zenon
  <2>4. \E i \in S : \A j \in S : values[i] <= values[j]
    BY <1>6, <2>1, <2>2, SmallestAt, Zenon
  <2> QED BY <2>3, <2>4
<1>7. ASSUME NEW p \in Shares
      PROVE  NumericPercentile(values, p) =
               Min({v \in Range(values) : 100 * upTo(v) >= p * n})
  <2> DEFINE k == RankOf(p, n)
             enough == {v \in Range(values) : 100 * upTo(v) >= p * n}
             AtK(v) == low(v) < k /\ k <= upTo(v)
  <2>1. /\ k \in 1 .. n
        /\ \A c \in Nat : 100 * c >= p * n <=> c >= k
    <3>1. n \in Nat \ {0}  BY <1>1
    <3> QED BY <3>1, RankReaches
  <2>2. NumericPercentile(values, p) = AtRank(values, k)
    BY <1>1 DEF NumericPercentile, RankOf
  <2>3. AtRank(values, k) = CHOOSE v \in Range(values) : AtK(v)
    BY DEF AtRank
  <2> HIDE DEF k
  <2>4. \A v : v \in enough <=> v \in Range(values) /\ k <= upTo(v)
    BY <1>1, <1>4, <2>1
  <2>5. PICK v0 \in Range(values) : \A i \in 1 .. n : values[i] <= v0
    <3>1. 1 \in 1 .. n  BY <1>1
    <3> DEFINE S == 1 .. n
    <3>2. S \in SUBSET (1 .. n) /\ S # {}  BY <3>1
    <3> HIDE DEF S
    <3>3. \E i \in S : \A j \in S : values[j] <= values[i]  BY <1>6, <3>2
    <3>4. PICK i \in 1 .. n : \A j \in 1 .. n : values[j] <= values[i]
      BY <3>3 DEF S
    <3> QED BY <1>2, <3>4
  <2>6. upTo(v0) = n
    <3>1. reached(v0) = 1 .. n  BY <1>1, <2>5
    <3> HIDE DEF reached
    <3> QED BY <1>1, <3>1, FS_Interval
  <2> HIDE DEF low, upTo
  <2>7. v0 \in enough  BY <2>1, <2>4, <2>5, <2>6
  <2> HIDE DEF enough
  <2>8. PICK m \in enough : \A v \in enough : m <= v
    <3> DEFINE S == {i \in 1 .. n : values[i] \in enough}
    <3>1. S \in SUBSET (1 .. n) /\ S # {}
      BY <1>2, <2>4, <2>7
    <3>2. PICK i \in S : \A j \in S : values[i] <= values[j]
      <4> HIDE DEF S
      <4> QED BY <3>1, <1>6
    <3>3. \A v \in enough : \E j \in S : values[j] = v  BY <1>2, <2>4
    <3> QED BY <3>2, <3>3
  <2>9. m \in Range(values) /\ m \in Int /\ k <= upTo(m)  BY <1>2, <2>4, <2>8
  <2>10. low(m) < k
    <3>1. CASE below(m) = {}
      <4>1. low(m) = 0  BY <3>1, FS_EmptySet DEF low
      <4> QED BY <2>1, <4>1
    <3>2. CASE below(m) # {}
      <4>1. PICK i \in below(m) : \A j \in below(m) : values[j] <= values[i]
        <5> DEFINE S == below(m)
        <5>1. S \in SUBSET (1 .. n) /\ S # {}  BY <1>3, <3>2
        <5> HIDE DEF S
        <5>2. \E i \in S : \A j \in S : values[j] <= values[i]  BY <1>6, <5>1
        <5> QED BY <5>2 DEF S
      <4> DEFINE v == values[i]
      <4>2. v < m /\ v \in Range(values) /\ v \in Int  BY <1>1, <1>2, <4>1
      <4>3. v \notin enough  BY <2>8, <2>9, <4>2
      <4>4. upTo(v) < k  BY <1>1, <1>4, <2>1, <2>4, <4>2, <4>3
      <4>5. reached(v) = below(m)
        <5>1. ASSUME NEW j \in 1 .. n PROVE values[j] <= v <=> values[j] < m
          BY <1>1, <2>9, <4>1, <4>2
        <5> QED BY <1>1, <5>1
      <4> HIDE DEF v, reached, below
      <4>6. upTo(v) = low(m)  BY <4>5 DEF upTo, low
      <4> QED BY <4>4, <4>6
    <3> QED BY <3>1, <3>2
  <2>11. \A v \in Range(values) : AtK(v) => v = m
    <3> SUFFICES ASSUME NEW v \in Range(values), AtK(v) PROVE v = m  OBVIOUS
    <3>1. v \in Int /\ v \in enough  BY <1>2, <2>4
    <3>2. m <= v  BY <2>8, <3>1
    <3>3. ~ (m < v)
      <4>1. ASSUME m < v PROVE FALSE
        <5>1. upTo(m) <= low(v)  BY <1>5, <2>9, <3>1, <4>1
        <5> QED BY <1>4, <2>1, <2>9, <5>1
      <4> QED BY <4>1
    <3> QED BY <2>9, <3>1, <3>2, <3>3
  <2>12. (CHOOSE v \in Range(values) : AtK(v)) = m  BY <2>9, <2>10, <2>11
  <2>13. Min(enough) = m
    <3>1. \A x \in enough : (\A y \in enough : x <= y) => x = m
      BY <1>2, <2>4, <2>8, <2>9
    <3> QED BY <2>8, <3>1 DEF Min
  <2> QED BY <2>2, <2>3, <2>12, <2>13 DEF enough
<1> QED BY <1>1, <1>7 DEF PercentileIsNearestRank, n, Shares
-----------------------------------------------------------------------------
(* Whatever the input, trials are scored as TrialsAreScored says: a trial   *)
(* alone and with any contracts, any run of trials, any numbers of which a  *)
(* percentile is taken (evaluation.py, run_test_sets.py).                  *)
THEOREM EveryTrialIsScored ==
  ASSUME NEW Values, NEW Codes, NEW Paths, NEW Types,
         job.kind = "trial" => IsTrial(job.input, Values, Codes),
         job.kind = "contract" =>
           /\ IsTrial(job.input.trial, Values, Codes)
           /\ IsContract(job.input.actual, Paths, Types)
           /\ IsContract(job.input.expected, Paths, Types)
           /\ job.input.expected # {},
         job.kind = "run" =>
           \E Scored : AreTrials(Scored, Values, Codes) /\ job.input \in Seq(Scored),
         job.kind = "percentile" => job.input \in Seq(Int) /\ job.input # <<>>
  PROVE  TrialsAreScored
<1>1. ASSUME job.kind = "trial"
      PROVE  TrialIsScored(job.input, VerdictOf(job.input),
                           FactsOf(job.input, VerdictOf(job.input)))
  <2>1. IsTrial(job.input, Values, Codes)  BY <1>1
  <2> QED BY <2>1, PassesAreEarned, BlamesAreCounted, EveryInputCounts DEF TrialIsScored
<1>2. ASSUME job.kind = "contract"
      PROVE  LET trial == job.input.trial
             IN  ContractTrialIsScored(trial, VerdictOf(trial),
                   ScoreExecutorOutput(trial.result, AcceptanceOf(trial), trial.expected,
                                       job.input.actual, job.input.expected))
  BY <1>2, ContractsAreScored
<1>3. ASSUME job.kind = "run"
      PROVE  RunIsCounted(job.input, [i \in DOMAIN job.input |-> VerdictOf(job.input[i])])
  BY <1>3, EveryTrialIsCounted
<1>4. ASSUME job.kind = "percentile" PROVE PercentileIsNearestRank(job.input)
  BY <1>4, PercentilesAreNearestRanks
<1> QED BY <1>1, <1>2, <1>3, <1>4 DEF TrialsAreScored
=============================================================================
