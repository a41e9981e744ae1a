\* Two workers: a review begun on a stale row.
SPECIFICATION RSpec
CONSTANTS
    g1 = g1
    st1 = st1
    st2 = st2
    a1 = a1
    a2 = a2
    b1 = b1
    u1 = u1
    f1 = f1
    w1 = w1
    w2 = w2
    w3 = w3
    d0 = d0
    d1 = d1
    NoStage = NoStage
    Groups = {g1}
    Stages = {st1}
    ActiveStages = {st1}
    Slots = {a1}
    GroupOf <- MCGroupOf
    StageOf <- MCStageOf
    DisplayOrder <- MCDisplayOrder
    Prerequisites <- MCPrerequisites
    Data = {d0}
    EmptyData = d0
    Editors <- MCEditors
    Deciders <- MCDeciders
    MaxVersion = 5
    Workers = {w1, w2}
    Engine = "postgresql"
    OpsOf <- AnyOps
PROPERTIES
    TransitionsEnforced
