------------------------------ MODULE Reports -------------------------------
(***************************************************************************)
(* be_logbook/reports: what the HOD's dashboard says of a group, computed  *)
(* from its row and its submissions.                                       *)
(***************************************************************************)
EXTENDS Submissions

CONSTANTS
    RequiredStages,  \* the stages with required
    PastDeadline     \* the stages whose submission_deadline is over

ASSUME ReportsAssumption ==
    RequiredStages \cup PastDeadline \subseteq Stages /\ IsFiniteSet(Stages)

ReportedStages == ActiveStages \cap RequiredStages

SatisfiedStages(g) == {st \in ReportedStages : IsStageSatisfied(sub, g, st)}

\* group_progress: 0 when no stage is required.
ProgressPercent(g) ==
    IF ReportedStages = {} THEN 0
    ELSE (Cardinality(SatisfiedStages(g)) * 100) \div Cardinality(ReportedStages)

\* Mutant: a resubmission is not counted.
PendingWithoutResubmitted(g) ==
    {s \in SlotsOf(g) : sub[s].status \in {"SUBMITTED", "UNDER_REVIEW"}}

\* faculty_workload: what waits for the guide of a group.
PendingSubmissions(g) ==
    {s \in SlotsOf(g) : sub[s].status \in {"SUBMITTED", "RESUBMITTED", "UNDER_REVIEW"}}

OverdueGroups ==
    {g \in Groups :
        /\ group[g].stage \in PastDeadline
        /\ group[g].status \in {"IN_PROGRESS", "SUBMITTED", "UNDER_REVIEW",
                                "CHANGES_REQUIRED"}}

-----------------------------------------------------------------------------
(* Properties *)

\* A COMPLETED group shows 100 %, unless no stage is required; and 100 % is
\* shown only of a group with no required stage left.
CompletedShowsFull ==
    \A g \in Groups :
        /\ group[g].status = "COMPLETED" /\ ReportedStages # {} => ProgressPercent(g) = 100
        /\ ProgressPercent(g) = 100 => OpenStages(sub, g) \cap RequiredStages = {}

\* A group whose status says that its guide has to act is counted in the
\* workload of the guide.
WaitingGroupsArePending ==
    \A g \in Groups : group[g].status \in {"SUBMITTED", "RESUBMITTED", "UNDER_REVIEW"} =>
        PendingSubmissions(g) # {}

\* A group that works on a stage past its deadline is listed as overdue, but
\* for a status the list does not know: a cancelled group, and one whose latest
\* work is a draft or a resubmission.
LateGroupsAreListed ==
    \A g \in Groups : group[g].stage \in PastDeadline =>
        g \in OverdueGroups \/ group[g].status \in {"CANCELLED", "DRAFT", "RESUBMITTED"}

\* The dashboard, which mixes the group's stored status and stage with counts
\* over its submissions, shows each group where its submissions put it.
DashboardAgrees ==
    /\ CompletedShowsFull
    /\ WaitingGroupsArePending
    /\ LateGroupsAreListed
=============================================================================
