----------------------------- MODULE Attainment -----------------------------
(***************************************************************************)
(* be_logbook/co_po: the attainment of an outcome (a CO or a PO), averaged *)
(* over the marks of a review and then over the reviews of the group.      *)
(* Decimals are exact fractions here.  The serializers put no bound on a   *)
(* weight, so that it may be negative; a criterion with negative max_marks *)
(* can be given no mark and stands for none.  snapshot_for_group, which    *)
(* stores the result, is called by no code.                                *)
(***************************************************************************)
EXTENDS Reviews

CONSTANTS
    Weight,     \* RubricCriterion.weight
    OutcomeOf   \* its co_code or po_code

ASSUME AttainmentAssumption == Weight \in [Criteria -> Int] /\ IsFiniteSet(ReviewIds)

\* Mutant: a weight of 0 is taken as it is.
StoredWeight(c) == Weight[c]

\* criterion.weight or 1
WeightOf(c) == IF Weight[c] = 0 THEN 1 ELSE Weight[c]

\* A denominator for the ratio of every criterion.
Scale ==
    FoldFunctionOnSet(LAMBDA a, b : a * b, 1, MaxMarks, {c \in Criteria : MaxMarks[c] > 0})

\* obtained / max, over Scale; 0 for a criterion that gives no marks.
Ratio(r, c) ==
    IF MaxMarks[c] > 0 THEN marks[r][c] * (Scale \div MaxMarks[c]) ELSE 0

\* The criteria of an outcome that the review has a mark for.
MarkedFor(r, o) == {c \in Criteria : OutcomeOf[c] = o /\ marks[r][c] # Unmarked}

\* compute_for_review: the weighted mean, 0 where the weights cancel out.
ReviewAttainment(r, o) ==
    LET total == SumFunctionOnSet([c \in Criteria |-> Ratio(r, c) * WeightOf(c)], MarkedFor(r, o))
        weights == SumFunctionOnSet([c \in Criteria |-> WeightOf(c)], MarkedFor(r, o))
    IN  IF weights = 0 THEN [num |-> 0, den |-> 1]
        ELSE [num |-> total, den |-> Scale * weights]

\* The reviews compute_for_group takes in.
CountedReviews(o) ==
    {r \in ReviewIds : /\ review[r].status \in {"FINALIZED", "CORRECTED"}
                       /\ MarkedFor(r, o) # {}}

PlusFraction(a, b) == [num |-> a.num * b.den + b.num * a.den, den |-> a.den * b.den]

\* compute_for_group: the mean of the reviews, 0 / 0 where there are none.
GroupAttainment(o) ==
    LET sum == FoldFunctionOnSet(PlusFraction, [num |-> 0, den |-> 1],
                   [r \in ReviewIds |-> ReviewAttainment(r, o)], CountedReviews(o))
    IN  [sum EXCEPT !.den = @ * Cardinality(CountedReviews(o))]

-----------------------------------------------------------------------------
(* Properties *)

NoNegativeWeight(o) == \A c \in Criteria : OutcomeOf[c] = o => Weight[c] >= 0

\* An outcome none of whose criteria has a negative weight, and that has a
\* counted mark, has a well-defined attainment between 0 and 100 %, which is
\* 100 % only when each counted mark is the full mark of a criterion that gives
\* marks.  With weights 2 and -1, a full mark and a 0 would be 200 %.
AttainmentIsAPercentage ==
    \A o \in {OutcomeOf[c] : c \in Criteria} :
        LET a == GroupAttainment(o)
        IN  NoNegativeWeight(o) /\ CountedReviews(o) # {} =>
                /\ 0 <= a.num /\ a.num <= a.den /\ a.den > 0
                /\ a.num = a.den =>
                      \A r \in CountedReviews(o) : \A c \in MarkedFor(r, o) :
                          marks[r][c] = MaxMarks[c] /\ MaxMarks[c] > 0
=============================================================================
