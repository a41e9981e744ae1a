\* Each component with two requests at once, on either database.
SPECIFICATION MCSpec
CONSTANTS
    w1 = w1
    w2 = w2
    r1 = r1
    c1 = c1
    c2 = c2
    f1 = f1
    h1 = h1
    co1 = co1
    g1 = g1
    g2 = g2
    s1 = s1
    s2 = s2
    t1 = t1
    t2 = t2
    st1 = st1
    guide = guide
    d1 = d1
    d2 = d2
    k1 = k1
    k2 = k2
    y1 = y1
    y2 = y2
    y3 = y3
    sa = sa
    sb = sb
    sc = sc
    e1 = e1
    e2 = e2
    id1 = id1
    p1 = p1
    p2 = p2
    p3 = p3
    p4 = p4
    p5 = p5
    n1 = n1
    n2 = n2
    entry = entry
    Workers = {w1, w2}
    ReviewIds = {r1}
    Criteria = {c1, c2}
    FirstCriteria = {c1}
    Required = {c1, c2}
    MaxMarks <- MCMaxMarks
    Faculty = {f1}
    HODs = {h1}
    Guide = f1
    NoOne = NoOne
    MaxCorrections = 1
    ReviewOpsOf <- MCReviewOpsOf
    Weight <- MCWeight
    OutcomeOf <- MCOutcomeOf
    GroupIds = {g1, g2}
    Students = {s1, s2}
    Teachers = {t1, t2}
    ReviewStages = {st1}
    GuidePost = guide
    Nobody = Nobody
    NoProject = NoProject
    MaxAssignments = 2
    DocumentIds = {d1, d2}
    DocKeys = {k1, k2}
    MaxFiles = 3
    Years = {y1, y2, y3}
    StageIds = {sa, sb, sc}
    Team = Team
    NoStageYet = NoStageYet
    MaxOrder = 1
    MaxRuns = 3
    Emails = {e1, e2}
    Fold <- MCFold
    ProfileIds = {id1}
    NoProfile = NoProfile
    People = {p1, p2, p3, p4, p5}
    Panel = {n1, n2}
    Entries = {entry}
    Runs <- MCRuns
    MaxListed = 5
INVARIANTS
    TotalsPlausible
    AttainmentIsAPercentage
    OneGroupPerStudent
    OneActiveHolder
    DocumentIsNewestVersion
    RowsHaveFiles
    OneActiveYear
    GroupCanProceed
    SeedConverges
    PlacementsAgree
PROPERTIES
    ReviewsSerializable
    PeopleDistinct
    GuideStays
    GuideSyncs
    UploadsReplace
    ProgressCatchesUp
CHECK_DEADLOCK FALSE
