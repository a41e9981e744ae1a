------------------------- MODULE StageConfiguration -------------------------
(***************************************************************************)
(* The stages as the HOD edits them, through the generic endpoints of      *)
(* be_logbook/workflow, while a group works through them.  No edit calls   *)
(* recompute_group_status, and StageDependency.save refuses nothing but a  *)
(* stage that depends on itself.  A stage has one section here, so that a  *)
(* slot is a stage; a submission is open or approved.                      *)
(***************************************************************************)
EXTENDS Integers, FiniteSets

CONSTANTS
    StageIds,      \* Stage rows there may be
    Team,          \* the group
    NoStageYet,    \* a null current_stage
    MaxOrder       \* bound on display_order

ASSUME StageIdsAssumption == IsFiniteSet(StageIds) /\ NoStageYet \notin StageIds

VARIABLES
    active,        \* the stages that exist with is_active
    order,         \* display_order
    prerequisites, \* the stages each stage depends on
    work,          \* the group's submissions
    progress       \* the group's status and current_stage

configVars == <<active, order, prerequisites, work, progress>>

Stages == INSTANCE Workflow WITH
    Groups <- {Team}, Stages <- StageIds, Slots <- StageIds,
    GroupOf <- [s \in StageIds |-> Team], StageOf <- [s \in StageIds |-> s],
    ActiveStages <- active, DisplayOrder <- order, Prerequisites <- prerequisites,
    NoStage <- NoStageYet

StagesInit ==
    /\ active = {}
    /\ order = [s \in StageIds |-> 0]
    /\ prerequisites = [s \in StageIds |-> {}]
    /\ work = [s \in StageIds |-> [status |-> "NONE", version |-> 0]]
    /\ progress = [status |-> "NOT_STARTED", stage |-> NoStageYet]

\* POST of a stage, or PATCH of is_active.
Activate(s) ==
    /\ s \notin active
    /\ active' = active \cup {s}
    /\ UNCHANGED <<order, prerequisites, work, progress>>

Deactivate(s) ==
    /\ s \in active
    /\ active' = active \ {s}
    /\ UNCHANGED <<order, prerequisites, work, progress>>

\* DELETE takes the dependencies along and clears current_stage; it is refused
\* (PROTECT) while there is work on the stage.
DestroyStage(s) ==
    /\ s \in active
    /\ work[s].status = "NONE"
    /\ active' = active \ {s}
    /\ prerequisites' = [t \in StageIds |-> IF t = s THEN {} ELSE prerequisites[t] \ {s}]
    /\ progress' = IF progress.stage = s THEN [progress EXCEPT !.stage = NoStageYet]
                   ELSE progress
    /\ UNCHANGED <<order, work>>

Reorder(s, n) ==
    /\ order' = [order EXCEPT ![s] = n]
    /\ UNCHANGED <<active, prerequisites, work, progress>>

\* StageDependency.save; neither cycles nor inactive stages are looked for.
AddDependency(s, dep) ==
    /\ s # dep
    /\ prerequisites' = [prerequisites EXCEPT ![s] = @ \cup {dep}]
    /\ UNCHANGED <<active, order, work, progress>>

RemoveDependency(s, dep) ==
    /\ prerequisites' = [prerequisites EXCEPT ![s] = @ \ {dep}]
    /\ UNCHANGED <<active, order, work, progress>>

\* A whole round of the submission state machine, with its recomputation.
CompleteStage(s) ==
    /\ Stages!IsStageUnlocked(work, Team, s)
    /\ work[s].status = "NONE"
    /\ work' = [work EXCEPT ![s] = [status |-> "APPROVED", version |-> 3]]
    /\ progress' \in Stages!RecomputedGroups(work', Team, progress.status)
    /\ UNCHANGED <<active, order, prerequisites>>

StagesNext ==
    \E s \in StageIds :
        \/ Activate(s)
        \/ Deactivate(s)
        \/ DestroyStage(s)
        \/ \E n \in 0..MaxOrder : Reorder(s, n)
        \/ \E dep \in StageIds : AddDependency(s, dep) \/ RemoveDependency(s, dep)
        \/ CompleteStage(s)

StagesSpec == StagesInit /\ [][StagesNext]_configVars

-----------------------------------------------------------------------------
(* Properties *)

\* Prerequisites are active and form no cycle: some numbering has each stage
\* after those it needs.
Feasible ==
    /\ \A s \in active : prerequisites[s] \subseteq active
    /\ \E level \in [StageIds -> 1..Cardinality(StageIds)] :
          \A s \in active : \A dep \in prerequisites[s] : level[dep] < level[s]

\* However the stages were edited, and whatever was approved before: while the
\* configuration is feasible a group that is not through can work on a stage.
GroupCanProceed ==
    Feasible /\ Stages!OpenStages(work, Team) # {} =>
        \E s \in Stages!OpenStages(work, Team) : Stages!IsStageUnlocked(work, Team, s)

\* The transition that follows an edit brings the group up to date: it is
\* COMPLETED exactly when the stages that are active now are approved, and
\* otherwise points at one that is not.
ProgressCatchesUp ==
    [][work' # work =>
          /\ (progress'.status = "COMPLETED") <=> (active' \subseteq {s \in StageIds :
                                                     work'[s].status = "APPROVED"})
          /\ progress'.status # "COMPLETED" =>
                progress'.stage \in active' /\ work'[progress'.stage].status = "NONE"]_configVars
=============================================================================
