------------------------------ MODULE Workflow ------------------------------
(***************************************************************************)
(* be_logbook/workflow: which stages of a group are satisfied, which are   *)
(* unlocked, and the progress written on the group row after each          *)
(* transition.  Everything here is a function of the submission table.     *)
(*                                                                         *)
(* A slot is a (group, stage, section) triple; the unique constraint of    *)
(* submissions/models.py allows one Submission row per slot, so the table  *)
(* is a function sub from slots to rows; a slot without a row has status   *)
(* "NONE".                                                                 *)
(***************************************************************************)
EXTENDS Integers

CONSTANTS
    Groups,         \* ProjectGroup rows
    Stages,         \* Stage rows
    Slots,          \* (group, stage, section) triples
    GroupOf,        \* the group of a slot
    StageOf,        \* the stage of a slot
    ActiveStages,   \* the stages with is_active
    DisplayOrder,   \* Stage.display_order: not unique in the schema
    Prerequisites,  \* the depends_on stages of each stage
    NoStage         \* a null current_stage

ASSUME ConfigAssumption ==
    /\ GroupOf \in [Slots -> Groups]
    /\ StageOf \in [Slots -> Stages]
    /\ ActiveStages \subseteq Stages
    /\ DisplayOrder \in [Stages -> Nat]
    /\ Prerequisites \in [Stages -> SUBSET Stages]
    /\ NoStage \notin Stages

\* What a department sets up, though nothing in StageDependency.save asks for
\* it: prerequisites are active and come before the stages that need them.
OrderedConfig ==
    \A st \in ActiveStages : \A dep \in Prerequisites[st] :
        dep \in ActiveStages /\ DisplayOrder[dep] < DisplayOrder[st]

ApprovedStates == {"APPROVED", "LOCKED"}

SlotsOf(g) == {s \in Slots : GroupOf[s] = g}

\* One approved section satisfies the whole stage.
IsStageSatisfied(sub, g, st) ==
    \E s \in SlotsOf(g) : StageOf[s] = st /\ sub[s].status \in ApprovedStates

\* Mutant: whatever comes earlier has to be approved, in use or not.
EarlierStagesSatisfied(sub, g, st) ==
    \A dep \in Stages : DisplayOrder[dep] < DisplayOrder[st] => IsStageSatisfied(sub, g, dep)

ArePrerequisitesSatisfied(sub, g, st) ==
    \A dep \in Prerequisites[st] : IsStageSatisfied(sub, g, dep)

IsStageUnlocked(sub, g, st) ==
    st \in ActiveStages /\ ArePrerequisitesSatisfied(sub, g, st)

-----------------------------------------------------------------------------
(* recompute_group_status *)

\* Mutant: stages that are not in use count.
OpenStagesInUseOrNot(sub, g) == {st \in Stages : ~IsStageSatisfied(sub, g, st)}

OpenStages(sub, g) == {st \in ActiveStages : ~IsStageSatisfied(sub, g, st)}

\* Mutant: takes any open stage instead of the first in display order.
AnyOpenStage(sub, g) ==
    IF OpenStages(sub, g) = {} THEN {NoStage} ELSE OpenStages(sub, g)

\* Mutant: an approval given to any group counts for this one.
CurrentStagesOfAnyGroup(sub, g) ==
    LET open == {st \in ActiveStages : \A h \in Groups : ~IsStageSatisfied(sub, h, st)}
    IN  IF open = {} THEN {NoStage}
        ELSE {st \in open : \A o \in open : DisplayOrder[st] <= DisplayOrder[o]}

\* The first open stages in display order (several when the order has ties).
CurrentStages(sub, g) ==
    LET open == OpenStages(sub, g)
    IN  IF open = {} THEN {NoStage}
        ELSE {st \in open : \A o \in open : DisplayOrder[st] <= DisplayOrder[o]}

RowsOf(sub, g, st) ==
    {s \in SlotsOf(g) : StageOf[s] = st /\ sub[s].status # "NONE"}

\* Mutant: the rows are ordered the other way round.
EarliestStatuses(sub, g, st) ==
    {sub[s].status : s \in {r \in RowsOf(sub, g, st) :
        \A t \in RowsOf(sub, g, st) : sub[t].version >= sub[r].version}}

\* The statuses of the rows with the highest version number of a stage.
LatestStatuses(sub, g, st) ==
    {sub[s].status : s \in {r \in RowsOf(sub, g, st) :
        \A t \in RowsOf(sub, g, st) : sub[t].version <= sub[r].version}}

\* Any row counts as a submission, a draft too.
AnySubmitted(sub, g) == \E s \in SlotsOf(g) : sub[s].status # "NONE"

RecomputedStatuses(sub, g, current, old) ==
    IF old = "CANCELLED" THEN {"CANCELLED"}
    ELSE IF ~AnySubmitted(sub, g) THEN {"NOT_STARTED"}
    ELSE IF current = NoStage THEN {"COMPLETED"}
    ELSE IF RowsOf(sub, g, current) = {} THEN {"IN_PROGRESS"}
    ELSE LatestStatuses(sub, g, current)

\* The group rows recompute_group_status may save; old is the status it found
\* on the group object in memory.
RecomputedGroups(sub, g, old) ==
    UNION {{[status |-> x, stage |-> st] :
                x \in RecomputedStatuses(sub, g, st, old)} :
           st \in CurrentStages(sub, g)}
=============================================================================
