CONSTANTS
    a = a  b = b  r1 = r1  r2 = r2  c1 = c1  c2 = c2
    Learners = {a, b}
    Runs = {r1, r2}
    Callers = {c1, c2}
    Ticks = 2
    WeekAhead = 2
    FirstDue <- MCFirstDue
    MovedDue = {1, 4}
    ReviewDays = 1
    MaxTime = 2
    MaxChanges = 2
    MaxRuns = 2
    MaxCallbacks = 3
SYMMETRY Symmetry
SPECIFICATION MCSpec
INVARIANTS TypeOK RunLeavesNobody AuditIsTrue DuplicatesCounted
CHECK_DEADLOCK FALSE
