\* A reviewer enters a mark after a correction was requested.
SPECIFICATION MCSpec
CONSTANTS
    g1 = g1
    st1 = st1
    a1 = a1
    u1 = u1
    f1 = f1
    h1 = h1
    c1 = c1
    c2 = c2
    d0 = d0
    w1 = w1
    w2 = w2
    NoStage = NoStage
    Groups = {g1}
    Stages = {st1}
    Slots = {a1}
    ActiveStages = {st1}
    GroupOf <- MCGroupOf
    StageOf <- MCStageOf
    DisplayOrder <- MCDisplayOrder
    Prerequisites <- MCPrerequisites
    Data = {d0}
    EmptyData = d0
    Editors <- MCEditors
    Deciders <- MCDeciders
    MaxVersion = 3
    ReviewIds = {r1}
    Criteria = {c1, c2}
    FirstCriteria = {c1}
    Required = {c1, c2}
    MaxMarks <- MCMaxMarks
    Faculty = {f1}
    HODs = {h1}
    Guide = f1
    NoOne = NoOne
    MaxCorrections = 1
    RequiredStages = {st1}
    BookGroup = g1
    MaxBooks = 2
    Workers = {w1, w2}
PROPERTIES
    RequestedCorrectionsRecorded
