SPECIFICATION Spec
CONSTANTS
    Workers = {w1, w2}
    Students = {s1, s2}
    MaxRows = 2
    MaxQuestions = 3
    MaxRequests = 3
    MaxItems = 2
    MaxGiven = 1
SYMMETRY Symmetry
INVARIANTS TypeOK RefusedChangesNothing
PROPERTIES LossHasACause StateAsAsked
CHECK_DEADLOCK FALSE
