------------------------------ MODULE Reviews -------------------------------
(***************************************************************************)
(* be_logbook/reviews: the reviews of one group at one stage, the marks    *)
(* given in them and the corrections of those marks, each request one      *)
(* atomic step (ReviewRequests takes the requests apart).  A mark is the   *)
(* obtained marks of a criterion; its max_marks copies the criterion's.    *)
(* Left out is a PATCH that sets the other columns the serializer lets it  *)
(* write (status and totals, rubric, reviewer, assignment, stage, group):  *)
(* it may write any value, and nothing below would survive.                *)
(***************************************************************************)
EXTENDS Integers, Sequences, FiniteSetsExt

CONSTANTS
    ReviewIds,       \* Review rows
    Criteria,        \* RubricCriterion rows the rubric may come to hold
    FirstCriteria,   \* those it starts with
    Required,        \* the criteria with is_required
    MaxMarks,        \* max_marks of each criterion
    Faculty,         \* users with role FACULTY
    HODs,            \* users with role HOD
    Guide,           \* the active guide of the group
    NoOne,           \* no active reviewer
    MaxCorrections   \* bound on the corrections of a review

ASSUME ReviewsAssumption ==
    /\ FirstCriteria \subseteq Criteria
    /\ IsFiniteSet(Criteria)
    /\ Required \subseteq Criteria
    /\ MaxMarks \in [Criteria -> Nat]
    /\ NoOne \notin Faculty \cup HODs
    /\ MaxCorrections \in Nat

VARIABLES
    reviewer,     \* who holds the active ReviewAssignment
    assigned,     \* who holds one, active or not
    rubric,       \* the criteria of the rubric
    review,       \* reviews_review: status, reviewer and totals
    marks,        \* reviews_reviewmark, per review
    corrections   \* reviews_reviewmarkcorrection, per review, oldest first

reviewVars == <<reviewer, assigned, rubric, review, marks, corrections>>

-----------------------------------------------------------------------------
ReviewStatus == {"DRAFT", "SUBMITTED", "FINALIZED", "CORRECTION_REQUESTED",
                 "CORRECTED"}

Unmarked == -1

NoMarks == [c \in Criteria |-> Unmarked]

NoReview == [status |-> "NONE", by |-> NoOne, max |-> 0, obtained |-> 0]

\* _recompute: the totals over the marks there are.
Totals(m) ==
    LET marked == {c \in Criteria : m[c] # Unmarked}
    IN  [max |-> SumFunctionOnSet(MaxMarks, marked), obtained |-> SumFunctionOnSet(m, marked)]

WithTotals(row, m) ==
    [row EXCEPT !.max = Totals(m).max, !.obtained = Totals(m).obtained]

ReviewsInit ==
    /\ reviewer = NoOne
    /\ assigned = {}
    /\ rubric = FirstCriteria
    /\ review = [r \in ReviewIds |-> NoReview]
    /\ marks = [r \in ReviewIds |-> NoMarks]
    /\ corrections = [r \in ReviewIds |-> << >>]

\* get_queryset: who finds the review, once created.
Sees(u, r) == u \in HODs \/ u = review[r].by \/ u = Guide

\* _assert_reviewer
ActsAsReviewer(u) == u \in HODs \/ (u \in Faculty /\ u = reviewer)

MayAct(u, r) == review[r].status # "NONE" /\ Sees(u, r) /\ ActsAsReviewer(u)

\* _check_required
Complete(r) == \A c \in rubric \cap Required : marks[r][c] # Unmarked

SetStatus(r, status) ==
    /\ review' = [review EXCEPT ![r].status = status]
    /\ UNCHANGED <<reviewer, assigned, rubric, marks, corrections>>

-----------------------------------------------------------------------------
(* ReviewService and the views that call it *)

\* POST /reviews/: the assignment need not be active; the reviewer of the row
\* is whoever asks.
CreateReview(u, r) ==
    /\ assigned # {}
    /\ u \in HODs \cup assigned
    /\ review[r].status = "NONE"
    /\ review' = [review EXCEPT ![r] =
           [status |-> "DRAFT", by |-> u, max |-> 0, obtained |-> 0]]
    /\ UNCHANGED <<reviewer, assigned, rubric, marks, corrections>>

\* A mark is refused in FINALIZED only: the test for CORRECTION_REQUESTED
\* around it raises nothing.
EnterMark(u, r, c, n) ==
    /\ MayAct(u, r)
    /\ review[r].status # "FINALIZED"
    /\ c \in rubric
    /\ n <= MaxMarks[c]
    /\ marks' = [marks EXCEPT ![r][c] = n]
    /\ review' = [review EXCEPT ![r] = WithTotals(@, marks'[r])]
    /\ UNCHANGED <<reviewer, assigned, rubric, corrections>>

\* Neither submit nor finalize asks for the status.
SubmitReview(u, r) == MayAct(u, r) /\ Complete(r) /\ SetStatus(r, "SUBMITTED")

FinalizeReview(u, r) == MayAct(u, r) /\ Complete(r) /\ SetStatus(r, "FINALIZED")

RequestCorrection(u, r) ==
    /\ u \in HODs
    /\ review[r].status = "FINALIZED"
    /\ SetStatus(r, "CORRECTION_REQUESTED")

\* Mutant: the totals are not recomputed.
CorrectWithoutTotals(u, r, c, n) ==
    /\ u \in HODs
    /\ review[r].status \in {"CORRECTION_REQUESTED", "CORRECTED"}
    /\ marks[r][c] # Unmarked
    /\ n <= MaxMarks[c]
    /\ Len(corrections[r]) < MaxCorrections
    /\ corrections' = [corrections EXCEPT ![r] =
           Append(@, [criterion |-> c, new |-> n])]
    /\ marks' = [marks EXCEPT ![r][c] = n]
    /\ review' = [review EXCEPT ![r].status = "CORRECTED"]
    /\ UNCHANGED <<reviewer, assigned, rubric>>

CorrectMark(u, r, c, n) ==
    /\ u \in HODs
    /\ review[r].status \in {"CORRECTION_REQUESTED", "CORRECTED"}
    /\ marks[r][c] # Unmarked
    /\ n <= MaxMarks[c]
    /\ Len(corrections[r]) < MaxCorrections
    /\ corrections' = [corrections EXCEPT ![r] =
           Append(@, [criterion |-> c, new |-> n])]
    /\ marks' = [marks EXCEPT ![r][c] = n]
    /\ review' = [review EXCEPT ![r] = [WithTotals(@, marks'[r]) EXCEPT !.status = "CORRECTED"]]
    /\ UNCHANGED <<reviewer, assigned, rubric>>

\* The HOD's rubric grows while reviews that use it exist.
AddCriterion(c) ==
    /\ c \in Criteria \ rubric
    /\ rubric' = rubric \cup {c}
    /\ UNCHANGED <<reviewer, assigned, review, marks, corrections>>

\* assign_reviewer: the active assignment ends and another begins.
AssignReviewer(f) ==
    /\ reviewer' = f
    /\ assigned' = assigned \cup {f}
    /\ UNCHANGED <<rubric, review, marks, corrections>>

\* PATCH is_active of the assignment, by the HOD.
EndAssignment ==
    /\ reviewer # NoOne
    /\ reviewer' = NoOne
    /\ UNCHANGED <<assigned, rubric, review, marks, corrections>>

\* PATCH of its reviewer, who may hold others of the assignments.
ReassignReviewer(f, h) ==
    /\ f \in assigned
    /\ assigned' \in {assigned \cup {h}, (assigned \ {f}) \cup {h}}
    /\ reviewer' \in {reviewer, h}
    /\ reviewer' = reviewer => reviewer \in assigned' \cup {NoOne}
    /\ reviewer' # reviewer => reviewer = f
    /\ UNCHANGED <<rubric, review, marks, corrections>>

\* DELETE, refused while a review refers to the assignment (PROTECT).
DeleteAssignments(f) ==
    /\ f \in assigned
    /\ \A r \in ReviewIds : review[r].status # "NONE" => review[r].by # f /\ assigned # {f}
    /\ assigned' = assigned \ {f}
    /\ reviewer' = IF reviewer = f THEN NoOne ELSE reviewer
    /\ UNCHANGED <<rubric, review, marks, corrections>>

\* DELETE takes the marks with it, and is refused while a correction refers to
\* the review (PROTECT).
DestroyReview(u, r) ==
    /\ review[r].status # "NONE"
    /\ Sees(u, r)
    /\ corrections[r] = << >>
    /\ review' = [review EXCEPT ![r] = NoReview]
    /\ marks' = [marks EXCEPT ![r] = NoMarks]
    /\ UNCHANGED <<reviewer, assigned, rubric, corrections>>

ReviewStep(u, r) ==
    \/ CreateReview(u, r) \/ DestroyReview(u, r)
    \/ \E c \in Criteria, n \in UNION {0..MaxMarks[d] : d \in Criteria} :
          EnterMark(u, r, c, n) \/ CorrectMark(u, r, c, n)
    \/ SubmitReview(u, r)
    \/ FinalizeReview(u, r)
    \/ RequestCorrection(u, r)

AssessmentStep ==
    \/ \E c \in Criteria : AddCriterion(c)
    \/ \E f \in Faculty : AssignReviewer(f) \/ DeleteAssignments(f)
    \/ \E f, h \in Faculty : ReassignReviewer(f, h)
    \/ EndAssignment

ReviewsNext == AssessmentStep \/ \E u \in Faculty \cup HODs, r \in ReviewIds : ReviewStep(u, r)

ReviewsSpec == ReviewsInit /\ [][ReviewsNext]_reviewVars

-----------------------------------------------------------------------------
(* Properties *)

Mark(c) == {Unmarked} \cup 0..MaxMarks[c]

\* Rows of their types; a mark, entered or corrected, stays in its range.
ReviewsTypeOK ==
    /\ reviewer \in Faculty \cup {NoOne}
    /\ assigned \subseteq Faculty
    /\ rubric \subseteq Criteria
    /\ \A r \in ReviewIds :
          /\ review[r].status \in ReviewStatus \cup {"NONE"}
          /\ review[r].by \in Faculty \cup HODs \cup {NoOne}
          /\ \A c \in Criteria : marks[r][c] \in Mark(c)

\* A review that shows as corrected has a correction on record.
CorrectedHasCorrection ==
    \A r \in ReviewIds : review[r].status = "CORRECTED" => corrections[r] # << >>

\* The totals stored with a review are those of its marks, whatever requests of
\* the service came before.
TotalsMatchMarks ==
    \A r \in ReviewIds :
        [max |-> review[r].max, obtained |-> review[r].obtained] = Totals(marks[r])

\* The marks of a finalized review stand until it leaves FINALIZED.
FinalizedMarksStand ==
    [][\A r \in ReviewIds :
          review[r].status = "FINALIZED" /\ marks'[r] # marks[r]
              => review'[r].status # "FINALIZED"]_reviewVars

Handed(r) == review[r].status \in ReviewStatus \ {"DRAFT"}

\* The service hands a review in with a mark for each required criterion, and
\* no request of it makes one missing afterwards, unless the rubric grows.  (A
\* PATCH of the review's rubric, which is left out, may.)
HandedInComplete ==
    [][rubric' = rubric =>
          \A r \in ReviewIds : (Handed(r) => Complete(r)) => (Handed(r) => Complete(r))']_reviewVars

\* "Allow entry only in DRAFT/SUBMITTED/CORRECTED states": once a correction
\* is requested, marks change by corrections, which leave a row.
RequestedCorrectionsRecorded ==
    [][\A r \in ReviewIds :
          review[r].status = "CORRECTION_REQUESTED" /\ marks'[r] # marks[r]
              => corrections'[r] # corrections[r]]_reviewVars
=============================================================================
