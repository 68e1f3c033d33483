SPECIFICATION Spec
CONSTANTS
    s1 = s1  s2 = s2  t1 = t1  t2 = t2  f1 = f1  f2 = f2  f3 = f3
    Students = {s1, s2}
    Tabs = {t1, t2}
    Staff = {f1}
    NumPeers = 1
    PatchFields = {"state"}
    MaxRows = 2
    MaxCopies = 2
    MaxTime = 0
SYMMETRY Symmetry
INVARIANT ReviewsJoinTwoRows
CHECK_DEADLOCK FALSE
