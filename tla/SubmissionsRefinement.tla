----------------------- MODULE SubmissionsRefinement ------------------------
(***************************************************************************)
(* Submissions implements ReviewRounds, submission by submission: the turn *)
(* is read off the row's status, the history off its snapshots.            *)
(***************************************************************************)
EXTENDS Submissions

TurnOf(s) ==
    CASE sub[s].status = "NONE" -> "none"
      [] sub[s].status \in {"DRAFT", "CHANGES_REQUIRED"} -> "students"
      [] sub[s].status \in {"SUBMITTED", "RESUBMITTED"} -> "queue"
      [] sub[s].status = "UNDER_REVIEW" -> "guide"
      [] sub[s].status = "APPROVED" -> "accepted"
      [] sub[s].status = "LOCKED" -> "sealed"

MoveOf(status) ==
    CASE status \in {"SUBMITTED", "RESUBMITTED"} -> "handed in"
      [] status = "CHANGES_REQUIRED" -> "returned"
      [] status = "APPROVED" -> "accepted"

VersionAt(s, n) == CHOOSE v \in versions[s] : v.number = n

\* Versions are numbered from 2: the row itself is version 1.
HistoryOf(s) == [i \in 1..(sub[s].version - 1) |-> MoveOf(VersionAt(s, i + 1).status)]

Rounds == INSTANCE ReviewRounds WITH
    Works <- Slots,
    turn <- [s \in Slots |-> TurnOf(s)],
    history <- [s \in Slots |-> HistoryOf(s)]

\* Every submission is a sequence of review rounds.
ImplementsReviewRounds == Rounds!Spec
=============================================================================
