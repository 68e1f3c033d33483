SPECIFICATION Spec
CONSTANTS
    p1 = p1
    p2 = p2
    Processes = {p1, p2}
    s1 = s1
    s2 = s2
    Students = {s1, s2}
    Assigned <- Pairs
    Criteria = {"c"}
    Scores = {0, 1}
    MiddleOption = 1
    PointsToPass = 1
    PeersToReview = 1
    Links = 1
    k1 = k1
    k2 = k2
    Keys = {k1, k2}
    Edits <- Forms
    MaxOps = 3
SYMMETRY Symmetry
CHECK_DEADLOCK FALSE
INVARIANTS
    TypeOK
    ScoreIsTheMedian
    PassingIsEarned
    TotalIsTheSum
    BoardAgrees
