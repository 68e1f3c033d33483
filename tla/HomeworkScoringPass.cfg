CONSTANTS
    NumStudents = 2
    Tabs = {t1}
    Staff = {f1, f2}
    Operations = {"score", "rescore", "edit", "toggle", "extend", "patch", "key"}
    Contents <- MCContents
    Keys <- MCKeys
    FaqPoints = {1}
    MaxRows = 2
    MaxOps = 2
SPECIFICATION Spec
SYMMETRY StaffSymmetry
INVARIANTS
    TypeOK
    ScoredAreGraded
    LeaderboardAgrees
PROPERTIES
    ScoringKeepsWork
CHECK_DEADLOCK FALSE
