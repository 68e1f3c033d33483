CONSTANTS
    a = a  b = b  w1 = w1  w2 = w2
    Learners <- OneLearner
    Web <- OneRequest
    Strict = FALSE
    MaxRows = 4
    MaxChanges = 4
    MaxSends = 1
    MaxDeaths = 0
SPECIFICATION Spec
INVARIANTS ErasureReachesDatamailer
CHECK_DEADLOCK FALSE
