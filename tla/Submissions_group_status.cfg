\* The status a resubmission gives its group.
SPECIFICATION Spec
CONSTANTS
    g1 = g1
    g2 = g2
    st1 = st1
    st2 = st2
    a1 = a1
    a2 = a2
    b1 = b1
    c1 = c1
    u1 = u1
    f1 = f1
    NoStage = NoStage
    d0 = d0
    d1 = d1
    Groups = {g1}
    Stages = {st1}
    Slots = {a1}
    ActiveStages = {st1}
    GroupOf <- MCGroupOf
    StageOf <- MCStageOf
    DisplayOrder <- MCDisplayOrder
    Prerequisites <- MCPrerequisites
    Data = {d0}
    EmptyData = d0
    Editors <- MCEditors
    Deciders <- MCDeciders
    MaxVersion = 5
INVARIANTS
    GroupStatusIsAChoice
CHECK_DEADLOCK FALSE
