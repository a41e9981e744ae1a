\* Two groups, two stages, two sections of the first stage, every service call;
\* or one group, two stages, two contents.
SPECIFICATION MCSpec
CONSTANTS
    g1 = g1
    g2 = g2
    st1 = st1
    st2 = st2
    a1 = a1
    a2 = a2
    b1 = b1
    c1 = c1
    u1 = u1
    f1 = f1
    NoStage = NoStage
    d0 = d0
    d1 = d1
    Groups = {g1, g2}
    Stages = {st1, st2}
    Slots = {a1, a2, b1, c1}
    ActiveStages = {st1, st2}
    GroupOf <- MCGroupOf
    StageOf <- MCStageOf
    DisplayOrder <- MCDisplayOrder
    Prerequisites <- MCPrerequisites
    Data = {d0, d1}
    EmptyData = d0
    Editors <- MCEditors
    Deciders <- MCDeciders
    MaxVersion = 5
    RequiredStages = {st1, st2}
    PastDeadline = {st1}
INVARIANTS
    TypeOK
    NoWorkOnLockedStages
    CurrentStageIsFirstOpen
    CurrentStageUnlocked
    CompletedMeansApproved
    GroupMirrorsSubmission
    DashboardAgrees
PROPERTIES
    ApprovedIsFinal
    ImplementsReviewRounds
CHECK_DEADLOCK FALSE
