------------------------------ MODULE InputFit ------------------------------
(***************************************************************************)
(* How the command outputs of a request are cut down to what a phase's     *)
(* first message may hold (ttp_generation/sampling.py and the fit loop of  *)
(* ttp_generation/workflow.py).                                            *)
(*                                                                         *)
(* An output is the sequence of its lines' lengths, line ends included.    *)
(* A sample is the stretches of the output it shows: "head" characters     *)
(* from the front, "tail" characters from the back, and the marker between *)
(* them when something was left out.                                       *)
(***************************************************************************)
EXTENDS Integers, Sequences, SequencesExt, FiniteSetsExt

CONSTANTS
  Marker,    \* length of TRUNCATION_MARKER
  Framing,   \* characters the serialised message adds to the outputs
  Escaping   \* characters a serialised character becomes, at most

ASSUME FitAssumption == {Marker, Framing, Escaping} \subseteq Nat \ {0}

SumOf(seq) == FoldLeft(LAMBDA a, b : a + b, 0, seq)

\* As many lines from the front, or from the back, as fit a budget.
HeadLines(lines, budget) ==
  Max({k \in 0 .. Len(lines) : SumOf(SubSeq(lines, 1, k)) <= budget})

TailLines(lines, budget) ==
  Max({k \in 0 .. Len(lines) :
         SumOf(SubSeq(lines, Len(lines) - k + 1, Len(lines))) <= budget})

Whole(text) == [head |-> SumOf(text), tail |-> 0, marker |-> 0]

\* Three quarters of the budget go to the first lines, the rest to the last;
\* where not even one line fits, a fragment of it is shown.
TruncateOnLineBoundaries(text, budget) ==
  LET source == budget - Marker
      headBudget == (source * 3) \div 4
      tailBudget == source - headBudget
      heads == HeadLines(text, headBudget)
      rest == SubSeq(text, heads + 1, Len(text))
      tails == TailLines(rest, tailBudget)
  IN  IF SumOf(text) <= budget THEN Whole(text)
      ELSE IF budget <= Marker THEN [head |-> 0, tail |-> 0, marker |-> budget]
      ELSE [head |-> IF heads = 0 THEN headBudget
                     ELSE SumOf(SubSeq(text, 1, heads)),
            tail |-> IF tails = 0 THEN tailBudget
                     ELSE SumOf(SubSeq(rest, Len(rest) - tails + 1, Len(rest))),
            marker |-> Marker]

Shown(sample) == sample.head + sample.marker + sample.tail

\* Every output gets the same share; what does not divide goes to the first ones.
Allocation(total, n, i) == (total \div n) + (IF i <= total % n THEN 1 ELSE 0)

SampleCommandOutputs(outputs, total) ==
  [i \in DOMAIN outputs |->
     LET budget == Allocation(total, Len(outputs), i)
     IN  [allocated |-> budget,
          truncated |-> SumOf(outputs[i]) > budget,
          shown |-> TruncateOnLineBoundaries(outputs[i], budget)]]

-----------------------------------------------------------------------------
\* The message the samples are put in; the tokenizer's estimate is taken to be a
\* fraction of its length.
Serialized(sampled) ==
  Framing + SumOf([i \in DOMAIN sampled |-> Escaping * Shown(sampled[i].shown)])
EstimatedTokens(sampled) == (Serialized(sampled) + 3) \div 4

(* Mutation used by the runs: a bare marker counts as a view of an output. *)
BareMarker_Never(sampled) == FALSE

\* A marker without a single character of the output is no view of it.
BareMarker(sampled) ==
  \E i \in DOMAIN sampled : sampled[i].truncated /\ sampled[i].allocated <= Marker

Fits(sampled, total, maxTokens) ==
  /\ Serialized(sampled) <= total
  /\ EstimatedTokens(sampled) <= maxTokens

\* int(raw * min(total / serialized, maxTokens / tokens, 1) * 0.9), at least one
\* and less than raw.  In floating point a product that is an integer may come
\* out below it.
NextBudgets(raw, sampled, total, maxTokens) ==
  LET scaled(num, den) == (raw * (IF num < den THEN num ELSE den) * 9) \div (den * 10)
      next == Min({scaled(total, Serialized(sampled)),
                   scaled(maxTokens, EstimatedTokens(sampled))})
  IN  {Max({1, Min({raw - 1, b})}) : b \in {next, next - 1}}

\* The rounds of the fit loop from one raw budget to the next.  "gives up" is the
\* answer that the input is too large.
FitRounds(outputs, total, maxTokens, rounds) ==
  LET sampled == [raw \in 1 .. total |-> SampleCommandOutputs(outputs, raw)]
      ends[left \in 0 .. rounds] ==
        [raw \in 1 .. total |->
          IF BareMarker(sampled[raw]) THEN {[fits |-> FALSE, raw |-> raw]}
          ELSE IF Fits(sampled[raw], total, maxTokens) THEN {[fits |-> TRUE, raw |-> raw]}
          ELSE IF raw <= 1 THEN {[fits |-> FALSE, raw |-> raw]}
          ELSE IF left = 0 THEN {[fits |-> FALSE, raw |-> 0]}
          ELSE UNION {ends[left - 1][b] :
                        b \in NextBudgets(raw, sampled[raw], total, maxTokens)}]
  IN  ends[rounds][total]

-----------------------------------------------------------------------------
\* A cut output never shows a character twice, keeps within its share, and leaves
\* something out that the marker stands for (sampling.py).
CutsAreHonest(outputs, total) ==
  LET sampled == SampleCommandOutputs(outputs, total)
  IN  \A i \in DOMAIN outputs :
        LET s == sampled[i] IN
          /\ Shown(s.shown) <= s.allocated
          /\ IF s.truncated THEN s.shown.head + s.shown.tail < SumOf(outputs[i])
             ELSE s.shown = Whole(outputs[i])

\* The fit loop ends, and a message it passes on keeps both limits and shows
\* something of every output.
FitIsSound(outputs, total, maxTokens) ==
  \A end \in FitRounds(outputs, total, maxTokens, total) :
    /\ end.raw > 0
    /\ end.fits =>
         LET sampled == SampleCommandOutputs(outputs, end.raw) IN
           /\ Serialized(sampled) <= total
           /\ EstimatedTokens(sampled) <= maxTokens
           /\ \A i \in DOMAIN outputs : sampled[i].shown.head + sampled[i].shown.tail > 0
=============================================================================
