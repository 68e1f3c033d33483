SPECIFICATION Spec
CONSTANTS
    s1 = s1  s2 = s2  t1 = t1  t2 = t2  f1 = f1  f2 = f2  f3 = f3
    Students = {s1, s2}
    Tabs = {t1}
    Staff = {f1, f2}
    NumPeers = 1
    PatchFields = {"title"}
    MaxRows = 2
    MaxCopies = 2
    MaxTime = 1
SYMMETRY Symmetry
INVARIANTS TypeOK AssignedOnce CreditIsBacked FullReviewWindow
PROPERTY ImplementsRound
CHECK_DEADLOCK FALSE
