SPECIFICATION FairSpec
CONSTANTS
    o1 = o1  o2 = o2  w1 = w1  w2 = w2  r1 = r1  r2 = r2
    Objects = {o1}
    Web = {w1}
    Runs = {r1, r2}
    Outcomes = {"accepted", "lost", "unavailable", "rejected"}
    Strict = TRUE
    DispatchImmediately = TRUE
    Limit = 2
    MaxAttempts = 2
    MaxEvents = 2
    MaxCrashes = 1
    MaxRequeues = 1
INVARIANTS TypeOK OneSender AttemptsBounded
PROPERTIES DeliversAtLeastOnce EventsSettle
CHECK_DEADLOCK FALSE
