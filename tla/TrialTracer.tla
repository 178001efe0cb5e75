---------------------------- MODULE TrialTracer ----------------------------
(***************************************************************************)
(* What an evaluation trial learns of the schema phase by watching it:     *)
(* the results the submission tools announce (agent/tools.py) and the      *)
(* tracer that folds them into the trial's facts (scripts/run_test_sets.py)*)
(*                                                                         *)
(* A phase is a sequence of calls.  The tools turn it into a sequence of   *)
(* events, the tracer folds the events, and the properties compare what    *)
(* the tracer holds in the end with what the session went through.  The    *)
(* plan and draft tools, whose recordings the tracer still reads, are      *)
(* external: src/ holds their compiler and prompts only.                   *)
(***************************************************************************)
EXTENDS Tallies

CONSTANTS
  Unseen,     \* nothing observed
  EventLimit  \* events of one kind a tracer keeps (32 or 64 in the code)

ASSUME TracerAssumption == EventLimit \in Nat \ {0}

\* A call of a submission tool and what comes of it.  "schema" tells submitted
\* schemas, plans and drafts apart.
DirectCalls(Schemas) ==
  [tool : {"submit_result_schema"},
   ending : {"refused by the framework", "arguments", "rejected", "accepted", "cancelled"},
   schema : Schemas]
PlanCalls(Schemas) ==
  [tool : {"submit_schema_plan"},
   ending : {"refused by the framework", "rejected", "accepted"}, schema : Schemas]
  \union [tool : {"confirm_schema_plan"}, ending : {"accepted", "rejected"},
          schema : {Unseen}]
DraftCalls(Schemas) ==
  [tool : {"submit_schema_draft"}, ending : {"rejected", "accepted"}, schema : Schemas]

FreshSession ==
  [submitted |-> 0, frozen |-> Unseen, plan |-> Unseen, cancelled |-> FALSE,
   late |-> 0, first |-> Unseen]

Result(call, accepted, frozen, counter, compiled) ==
  <<[kind |-> "result", tool |-> call.tool, schema |-> call.schema,
     decided |-> TRUE, accepted |-> accepted, frozen |-> frozen,
     counter |-> counter, compiled |-> compiled]>>

Announced(call, s) ==
  <<[kind |-> "start", tool |-> call.tool]>>

\* The result of submit_result_schema, and the session after it.  The answer to a
\* call after the freeze carries no submission counter; that of a cancelled call
\* does not say whether it was accepted.
DirectResult(s, call) ==
  LET counted == [s EXCEPT !.submitted = @ + 1,
                           !.first = IF @ = Unseen THEN call.ending ELSE @]
  IN  CASE call.ending = "arguments" ->
             [s |-> s, events |-> Result(call, FALSE, FALSE, s.submitted, Unseen)]
        [] call.ending # "arguments" /\ s.frozen # Unseen ->
             [s |-> [s EXCEPT !.late = @ + 1],
              events |-> Result(call, FALSE, TRUE, Unseen, Unseen)]
        [] call.ending = "rejected" /\ s.frozen = Unseen ->
             [s |-> counted, events |-> Result(call, FALSE, FALSE, counted.submitted, Unseen)]
        [] call.ending = "accepted" /\ s.frozen = Unseen ->
             [s |-> [counted EXCEPT !.frozen = call.schema],
              events |-> Result(call, TRUE, TRUE, counted.submitted, Unseen)]
        [] OTHER ->
             [s |-> [counted EXCEPT !.cancelled = TRUE],
              events |-> <<[kind |-> "result", tool |-> call.tool, schema |-> call.schema,
                            decided |-> FALSE]>>]

\* A plan is compiled, and waits to be confirmed; a new attempt replaces it.
PlanResult(s, call) ==
  LET counted == [s EXCEPT !.submitted = @ + 1,
                           !.first = IF @ = Unseen THEN call.ending ELSE @,
                           !.plan = IF call.ending = "accepted" THEN call.schema ELSE Unseen]
      confirmed == call.ending = "accepted" /\ s.plan # Unseen /\ s.frozen = Unseen
  IN  IF call.tool = "submit_schema_plan"
        THEN [s |-> counted, events |->
                Result(call, call.ending = "accepted", FALSE, counted.submitted,
                       counted.plan)]
        ELSE [s |-> IF confirmed THEN [s EXCEPT !.frozen = s.plan] ELSE s,
              events |-> Result(call, confirmed, confirmed, Unseen,
                                IF confirmed THEN s.plan ELSE Unseen)]

DraftResult(s, call) ==
  LET counted == [s EXCEPT !.submitted = @ + 1,
                           !.first = IF @ = Unseen THEN call.ending ELSE @]
      accepted == call.ending = "accepted" /\ s.frozen = Unseen
  IN  [s |-> IF accepted THEN [counted EXCEPT !.frozen = call.schema] ELSE counted,
       events |-> Result(call, accepted, accepted, counted.submitted,
                         IF accepted THEN call.schema ELSE Unseen)]

\* A call the framework refuses never reaches its tool; a refused attempt at a plan
\* still withdraws the one before it.  Nothing runs after a cancelled call.
CallMade(phase, call) ==
  LET s == phase.s
      begun == phase.events \o Announced(call, s)
      refused == [s EXCEPT !.plan = IF call.tool = "submit_schema_plan" THEN Unseen ELSE @]
      done == CASE call.tool = "submit_result_schema" -> DirectResult(s, call)
                [] call.tool = "submit_schema_draft" -> DraftResult(s, call)
                [] OTHER -> PlanResult(s, call)
  IN  IF s.cancelled THEN phase
      ELSE IF call.ending = "refused by the framework"
        THEN [s |-> refused, events |-> begun]
        ELSE [s |-> done.s, events |-> begun \o done.events]

Phase(calls) == FoldLeft(CallMade, [s |-> FreshSession, events |-> <<>>], calls)

-----------------------------------------------------------------------------
\* The tracer.
FreshTracer ==
  [submissions |-> <<>>, last |-> 0, frozenSchema |-> Unseen,
   pending |-> Unseen, frozenFallback |-> Unseen, hasFallback |-> FALSE]

\* The names a plan or a draft falls back to are known from the accepted call.  A
\* started or announced plan forgets the one that was pending.
FallbackAtStart(t, event) ==
  IF event.tool = "submit_schema_plan" THEN [t EXCEPT !.pending = Unseen] ELSE t

Keep(t, snapshot) ==
  IF t.hasFallback THEN t
  ELSE [t EXCEPT !.frozenFallback = snapshot, !.hasFallback = snapshot # Unseen]

(* Mutation used by the runs: what is pending is forgotten before it is kept. *)
KeepPending_ForgottenFirst(t) == Keep([t EXCEPT !.pending = Unseen], Unseen)

KeepPending(t) == [Keep(t, t.pending) EXCEPT !.pending = Unseen]

FallbackAtResult(t, event) ==
  LET forgotten == IF event.tool = "submit_schema_plan"
                     THEN [t EXCEPT !.pending = Unseen] ELSE t
  IN  IF ~ event.decided \/ ~ event.accepted THEN forgotten
      ELSE CASE event.tool = "submit_schema_plan" ->
                  IF event.frozen THEN Keep(forgotten, event.schema)
                  ELSE [forgotten EXCEPT !.pending = event.schema]
             [] event.tool = "submit_schema_draft" ->
                  IF event.frozen THEN Keep(forgotten, event.schema) ELSE forgotten
             [] event.tool = "confirm_schema_plan" ->
                  IF event.frozen THEN KeepPending(forgotten) ELSE forgotten
             [] OTHER -> forgotten

\* The first schema announced as frozen is kept: the submitted one, or what a plan
\* or a draft was compiled to.
SchemaAtResult(t, event) ==
  IF event.accepted /\ event.frozen /\ t.frozenSchema = Unseen
    THEN [t EXCEPT !.frozenSchema =
            IF event.tool = "submit_result_schema" THEN event.schema ELSE event.compiled]
    ELSE t

\* The counter is cumulative; an argument rejection repeats it.  A result without
\* one counts, unless it is a draft's.
SubmissionAtResult(t, event) ==
  IF \/ event.tool = "confirm_schema_plan"
     \/ event.counter = Unseen /\ event.tool = "submit_schema_draft"
    THEN t
  ELSE IF event.counter = Unseen
    THEN [t EXCEPT !.submissions = Append(@, event.accepted)]
  ELSE IF event.counter <= t.last THEN t
  ELSE [t EXCEPT !.last = event.counter, !.submissions = Append(@, event.accepted)]

Observe(t, event) ==
  IF event.kind = "start" THEN FallbackAtStart(t, event)
  ELSE IF ~ event.decided THEN FallbackAtResult(t, event)
  ELSE SubmissionAtResult(SchemaAtResult(FallbackAtResult(t, event), event), event)

Traced(calls) == FoldLeft(Observe, FreshTracer, Phase(calls).events)

\* submission_observation_complete: the trial's own check of what it saw.
ObservationComplete(calls) ==
  Phase(calls).s.submitted = Len(Traced(calls).submissions)

-----------------------------------------------------------------------------
ListedUpTo(rows, event) == IF Len(rows) < EventLimit THEN Append(rows, event) ELSE rows

\* Activations of the reasoning recovery: counted all, listed up to the limit, and
\* only those of the policy that was seen first.
RecoveryObserved(r, event) ==
  IF r.policy \notin {Unseen, event} THEN r
  ELSE [r EXCEPT !.policy = event, !.count = @ + 1,
                 !.rounds = ListedUpTo(@, event)]

Recoveries(events) ==
  FoldLeft(RecoveryObserved, [policy |-> Unseen, count |-> 0, rounds |-> <<>>], events)

\* The guards' other activations, which only their well-formed events tell of: the
\* calls a cut-off reply lost are counted one by one, a forced submission once; source
\* views and reasoning histories are only listed.
NoActivations ==
  [truncated |-> 0, forced |-> 0,
   rows |-> [kind \in {"truncated", "forced", "view", "history"} |-> <<>>]]

ActivationObserved(a, event) ==
  IF ~ event.wellFormed THEN a
  ELSE [a EXCEPT !.truncated = @ + (IF event.kind = "truncated" THEN event.calls ELSE 0),
                 !.forced = @ + (IF event.kind = "forced" THEN 1 ELSE 0),
                 !.rows[event.kind] = ListedUpTo(@, event)]

Activations(events) == FoldLeft(ActivationObserved, NoActivations, events)

\* What the trial's facts say of a guard: counts where there are any, and never that
\* it was not activated.
ActivationFacts(a) ==
  [kind \in DOMAIN a.rows |->
     [status |-> IF a.rows[kind] # <<>> THEN "observed" ELSE "unavailable",
      count |-> CASE kind = "truncated" -> a.truncated [] kind = "forced" -> a.forced
                  [] OTHER -> Len(a.rows[kind]),
      events |-> a.rows[kind]]]

\* The events a row may be made of, told apart as far as the tracer does.
Listed == {"facts", "forced", "attempt", "compacted"}

\* Rows of the round trace: nothing sensitive, nothing off the list, a forced
\* submission only from the schema phase and in its versioned form.  The execution
\* facts are kept whether or not rows are.
RoundObserved(r, event) ==
  LET refused == \/ event.sensitive
                 \/ event.name = "forced" /\ (event.phase # "schema" \/ ~ event.versioned)
      known == IF event.name = "facts" THEN [r EXCEPT !.facts = event.value] ELSE r
  IN  IF refused THEN r
      ELSE IF ~ r.recording \/ event.name \notin Listed THEN known
      ELSE [known EXCEPT !.rows = Append(@, event)]

Rounds(events, recording) ==
  FoldLeft(RoundObserved, [recording |-> recording, facts |-> Unseen, rows |-> <<>>], events)

-----------------------------------------------------------------------------
\* What is scored as the trial's schema is the one the session froze, and never
\* changes afterwards (tests: "a later freeze does not replace the first").
FrozenSchemaIsTheSessions(calls) ==
  Traced(calls).frozenSchema = Phase(calls).s.frozen

\* The fallback names reported for a compiled schema are those of the plan or draft
\* that was frozen, never those of one that another attempt had already replaced.
FallbackIsTheFrozenPlans(calls) ==
  (\A i \in DOMAIN calls : calls[i].tool # "submit_result_schema") =>
    Traced(calls).frozenFallback = Phase(calls).s.frozen

\* Every submission the session counted and answered is observed once, in order;
\* only a call after the freeze, which the session does not count, is taken for one
\* more, and a cancelled one for none.
SubmissionsAreObservedOnce(calls) ==
  LET s == Phase(calls).s
      seen == Traced(calls).submissions
  IN  /\ Len(seen) = s.submitted + s.late - (IF s.cancelled THEN 1 ELSE 0)
      /\ s.first \in {"accepted", "rejected"} => seen[1] = (s.first = "accepted")

\* The recovery's counts speak of the policy that was seen first, and the list holds
\* what was counted, up to the limit.
RecoveriesAreOfOnePolicy(events) ==
  LET r == Recoveries(events)
      ofPolicy == {i \in DOMAIN events : events[i] = r.policy}
  IN  /\ events # <<>> => r.policy = events[1]
      /\ r.count = Cardinality(ofPolicy)
      /\ r.rounds = [k \in 1 .. Min({r.count, EventLimit}) |-> r.policy]

\* The activations of a guard: the places of its well-formed events, and how many of
\* them there are up to one of them.
ActivationsOf(kind, events) ==
  {i \in DOMAIN events : events[i].kind = kind /\ events[i].wellFormed}
UpTo(places, i) == Cardinality({j \in places : j <= i})
CallsAt(events, places) == SumOver([i \in DOMAIN events |-> events[i].calls], places)

\* Counts take in what the bounded lists leave out, the lists hold the first events,
\* and a malformed event neither counts nor uses up a place.
ActivationsAreReported(events) ==
  \A kind \in DOMAIN NoActivations.rows :
    LET fact == ActivationFacts(Activations(events))[kind]
        real == ActivationsOf(kind, events)
    IN  /\ Len(fact.events) = Min({Cardinality(real), EventLimit})
        /\ \A i \in real : UpTo(real, i) <= EventLimit =>
                             fact.events[UpTo(real, i)] = events[i]
        /\ fact.status = "observed" <=> real # {}
        /\ kind = "forced" => fact.count = Cardinality(real)
        /\ kind = "truncated" => fact.count = CallsAt(events, real)

\* A trial knows the last facts it was told, recording or not, and its rows hold
\* nothing that was marked sensitive.
FactsOutliveRows(events, recording) ==
  LET r == Rounds(events, recording)
      told == {i \in DOMAIN events : events[i].name = "facts" /\ ~ events[i].sensitive}
  IN  /\ r.facts = IF told = {} THEN Unseen ELSE events[Max(told)].value
      /\ \A i \in DOMAIN r.rows : ~ r.rows[i].sensitive
=============================================================================
