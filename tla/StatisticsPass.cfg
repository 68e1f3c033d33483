CONSTANTS
    a = a  b = b  c = c  r1 = r1  r2 = r2  j1 = j1  j2 = j2  f1 = f1
    Students = {a, b, c}
    Scores = {0, 1}
    TopSize = 2
    Views = {r1, r2}
    Jobs = {j1, j2}
    Forms = {f1}
    MaxEdits = 5
    MaxViews = 3
    MaxJobs = 2
SYMMETRY Symmetry
SPECIFICATION Spec
INVARIANTS TypeOK NumbersHaveACause WrappedAgrees
CHECK_DEADLOCK FALSE
