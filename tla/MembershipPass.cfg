CONSTANTS
    a = a  b = b  w1 = w1  w2 = w2
    Learners <- OneLearner
    Web <- TwoRequests
    Strict = TRUE
    MaxRows = 4
    MaxChanges = 3
    MaxSends = 1
    MaxDeaths = 1
SYMMETRY Symmetry
SPECIFICATION Spec
INVARIANTS TypeOK 
CHECK_DEADLOCK FALSE
