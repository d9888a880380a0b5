-------------------------------- MODULE Metrics --------------------------------
(***************************************************************************)
(* The scorers of the evaluation (packages/eval/src/metrics).              *)
(*                                                                         *)
(* A text is the sequence that normalize.ts leaves of it: of words for the *)
(* error rate, of characters for chrF.  A number that the code divides for *)
(* is a fraction, <<numerator, denominator>>.  What is scored is a family, *)
(* a function of a finite set: the order plays no part in a score, and a   *)
(* filter leaves the others where they are.                                *)
(***************************************************************************)
EXTENDS Integers, SequencesExt

CONSTANTS
  Word,      \* the words of a text
  MaxWords,  \* bound: words of a text on which the scorers are checked
  MaxTime,   \* bound: measurements on which the percentiles are checked
  MaxN,      \* the longest n-grams that chrF counts (6 in chrf.ts)
  MinPairs   \* the fewest pairs that correlate (3 in agreement.ts)

ASSUME MetricsConstants ==
  /\ MaxWords \in Nat /\ MaxTime \in Nat
  /\ MaxN \in Nat \ {0}
  /\ MinPairs \in Nat \ {0, 1}

Text == Seq(Word)

\* A measurement or a score that there is none of.
Null == -1

Zero == <<0, 1>>
One  == <<1, 1>>
Plus(p, q)    == <<p[1] * q[2] + q[1] * p[2], p[2] * q[2]>>
AtMost(p, q)  == p[1] * q[2] <= q[1] * p[2]
SameAs(p, q)  == p[1] * q[2] = q[1] * p[2]

Size(family) == Cardinality(DOMAIN family)

\* What op makes of each member.
Each(op(_), family) == [k \in DOMAIN family |-> op(family[k])]

\* The mean of a family that is not empty.
Mean(fractions) == LET sum == FoldFunction(Plus, Zero, fractions)
                   IN <<sum[1], sum[2] * Size(fractions)>>

-----------------------------------------------------------------------------
(* wer.ts *)

Edits == [substitutions : Nat, deletions : Nat, insertions : Nat, reference : Nat]

Errors(e) == e.substitutions + e.deletions + e.insertions

\* A substitution costs one and a match nothing.
Differ(x, y) == IF x = y THEN 0 ELSE 1

\* The cells of the cost matrix: how much of either text.
Cells(ref, hyp) == (0..Len(ref)) \X (0..Len(hyp))

\* The cheapest way to turn the first i of ref into the first j of hyp.
Cost(ref, hyp) ==
  LET cost[p \in Cells(ref, hyp)] ==
        LET i == p[1]
            j == p[2]
        IN IF i = 0 \/ j = 0 THEN i + j
           ELSE Min({cost[<<i-1, j-1>>] + Differ(ref[i], hyp[j]), cost[<<i-1, j>>] + 1, cost[<<i, j-1>>] + 1})
  IN cost

NoEdits(length) ==
  [substitutions |-> 0, deletions |-> 0, insertions |-> 0, reference |-> length]

AddSubstitutions(e, n) == [e EXCEPT !.substitutions = @ + n]
AddDeletion(e)  == [e EXCEPT !.deletions = @ + 1]
AddInsertion(e) == [e EXCEPT !.insertions = @ + 1]

\* errorRate: walk the costs back, and attribute each edit.  With an empty reference
\* everything is an insertion.
ErrorRate(ref, hyp) ==
  LET cost == Cost(ref, hyp)
      Diagonal(i, j) ==
        /\ i > 0 /\ j > 0
        /\ cost[<<i, j>>] = cost[<<i-1, j-1>>] + Differ(ref[i], hyp[j])
      Up(i, j) == i > 0 /\ cost[<<i, j>>] = cost[<<i-1, j>>] + 1
      walk[p \in Cells(ref, hyp)] ==
        IF p[1] = 0 /\ p[2] = 0 THEN NoEdits(Len(ref))
        ELSE IF Diagonal(p[1], p[2])
        THEN AddSubstitutions(walk[<<p[1]-1, p[2]-1>>], Differ(ref[p[1]], hyp[p[2]]))
        ELSE IF Up(p[1], p[2]) THEN AddDeletion(walk[<<p[1]-1, p[2]>>])
        ELSE AddInsertion(walk[<<p[1], p[2]-1>>])
  IN walk[<<Len(ref), Len(hyp)>>]

\* aggregateErrorRate: sum the errors, sum the references, divide once.
AggregateErrorRate(rates) ==
  LET reference == SumFunction(Each(LAMBDA e : e.reference, rates))
      errors    == SumFunction(Each(Errors, rates))
  IN IF reference = 0 THEN Zero ELSE <<errors, reference>>

Rate(ref, hyp) == AggregateErrorRate(<<ErrorRate(ref, hyp)>>)

-----------------------------------------------------------------------------
(* latency.ts *)

\* (mutant) the position counts all the values and not the steps between them
QuantileOffByOne(sorted, percent) ==
  LET position == percent * Len(sorted)
      low      == sorted[Min({position \div 100 + 1, Len(sorted)})]
      high     == sorted[Min({position \div 100 + 2, Len(sorted)})]
  IN 100 * low + (high - low) * (position % 100)

\* A quantile in hundredths: between the two ranks that its position lies between.
Quantile(sorted, percent) ==
  LET position == percent * (Len(sorted) - 1)
      low      == sorted[position \div 100 + 1]
      high     == sorted[-((-position) \div 100) + 1]
  IN 100 * low + (high - low) * (position % 100)

\* A missing measurement is dropped, not taken for a fast one.
Measured(values) == RestrictValues(values, LAMBDA v : v # Null)

\* Sorted: at its rank stands the least value that so many do not exceed.
Sorted(values) ==
  [rank \in 1..Size(values) |->
     Min({v \in Range(values) : Cardinality({k \in DOMAIN values : values[k] <= v}) >= rank})]

Percentiles(values) ==
  LET sorted == Sorted(Measured(values))
      At(percent) == IF sorted = << >> THEN Null ELSE Quantile(sorted, percent)
  IN [n |-> Len(sorted), p50 |-> At(50), p95 |-> At(95), p99 |-> At(99)]

-----------------------------------------------------------------------------
(* chrf.ts *)

Grams(text, n) == {SubSeq(text, k, k + n - 1) : k \in 1..(Len(text) - n + 1)}

Occurs(gram, text) ==
  Cardinality({k \in 1..(Len(text) - Len(gram) + 1) : SubSeq(text, k, k + Len(gram) - 1) = gram})

\* Clipped: a gram matches no more often than the reference has it.
Matches(ref, hyp, gram) == Min({Occurs(gram, hyp), Occurs(gram, ref)})

Overlap(ref, hyp, n) == SumFunction([g \in Grams(hyp, n) |-> Matches(ref, hyp, g)])

\* The F-score, with beta = 2, of the mean precision and recall over the orders that
\* both texts are long enough for.
Chrf(ref, hyp) ==
  LET orders == [n \in 1..Min({MaxN, Len(ref), Len(hyp)}) |-> n]
      Share(text) == Mean(Each(LAMBDA n : <<Overlap(ref, hyp, n), Len(text) - n + 1>>, orders))
      precision == Share(hyp)
      recall    == Share(ref)
      weighted  == Plus(<<4 * precision[1], precision[2]>>, recall)
  IN CASE ref = << >> /\ hyp = << >> -> One
       [] (ref = << >>) # (hyp = << >>) -> Zero
       [] OTHER -> IF precision[1] = 0 THEN Zero
                   ELSE <<5 * precision[1] * recall[1] * weighted[2],
                          precision[2] * recall[2] * weighted[1]>>

-----------------------------------------------------------------------------
(* agreement.ts *)

Varies(values) == \E i, j \in DOMAIN values : ~SameAs(values[i], values[j])

\* pearson, and spearman too: ranks vary when the values do.  The coefficient itself
\* is left out, and whether there is one is kept.
Correlates(xs, ys) == Size(xs) >= MinPairs /\ Varies(xs) /\ Varies(ys)

-----------------------------------------------------------------------------
(* What the scorers have to do, over every bounded input. *)

Texts == BoundedSeq(Word, MaxWords)

\* An alignment pairs words of the two texts, in order.
Alignments(ref, hyp) ==
  {A \in SUBSET ((DOMAIN ref) \X (DOMAIN hyp)) : \A p, q \in A : (p[1] < q[1]) <=> (p[2] < q[2])}

Distance(ref, hyp) ==
  Min({ Cardinality({p \in A : ref[p[1]] # hyp[p[2]]})
          + (Len(ref) - Cardinality(A)) + (Len(hyp) - Cardinality(A)) : A \in Alignments(ref, hyp) })

\* The errors that the walk back attributes are as few as explain the hypothesis, and
\* they do explain it: the words of either text that no edit added or took away are
\* as many.
MinimalEdits(ref, hyp) ==
  LET e == ErrorRate(ref, hyp)
  IN /\ e \in Edits
     /\ Errors(e) = Distance(ref, hyp)
     /\ Len(ref) - e.deletions = Len(hyp) - e.insertions

\* A percentile stands where its rank says: enough of what was measured is at or below
\* it, and enough at or above.
Stands(values, percent, at) ==
  LET steps == percent * (Size(values) - 1)
  IN /\ 100 * Cardinality({k \in DOMAIN values : 100 * values[k] <= at}) > steps
     /\ 100 * Cardinality({k \in DOMAIN values : 100 * values[k] >= at}) > 100 * (Size(values) - 1) - steps

WellPlaced(values) ==
  LET p == Percentiles(values)
      measured == Measured(values)
  IN IF Size(measured) = 0 THEN p.n = 0 /\ {p.p50, p.p95, p.p99} = {Null}
     ELSE /\ p.p50 <= p.p95 /\ p.p95 <= p.p99
          /\ Stands(measured, 50, p.p50)
          /\ Stands(measured, 95, p.p95)
          /\ Stands(measured, 99, p.p99)

\* chrF is a share: all for the reference itself, and nothing that the hypothesis
\* repeats makes it more.
IsAShare(ref, hyp) ==
  LET c == Chrf(ref, hyp)
  IN /\ AtMost(Zero, c) /\ AtMost(c, One)
     /\ ref = hyp => SameAs(c, One)
=============================================================================
