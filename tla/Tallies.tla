------------------------------ MODULE Tallies ------------------------------
(***************************************************************************)
(* Sums over places and exact fractions, for what the evaluation counts    *)
(* and averages.  A fraction is <<n, d>>, not its nearest binary one.      *)
(***************************************************************************)
EXTENDS Integers, Sequences, SequencesExt, FiniteSetsExt

\* The sum of the numbers at some places.
SumOver(numbers, places) == MapThenSumSet(LAMBDA i : numbers[i], places)

Fraction(n, d) == IF d = 0 THEN <<0, 1>> ELSE <<n, d>>
Plus(r, s) == <<r[1] * s[2] + s[1] * r[2], r[2] * s[2]>>
Mean(scores) ==
  LET sum == FoldLeft(Plus, <<0, 1>>, scores)
  IN  Fraction(sum[1], sum[2] * Len(scores))
Equal(r, s) == r[1] * s[2] = s[1] * r[2]
=============================================================================
