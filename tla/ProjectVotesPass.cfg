SPECIFICATION VoteSpec
CONSTANTS
    v1 = v1  v2 = v2  a = a  b = b  c = c  d = d  t1 = t1  t2 = t2
    Voters = {v1, v2}
    Submissions = {a, b, c, d}
    Tabs = {t1, t2}
    Limit = 2
SYMMETRY Symmetry
INVARIANTS VoteTypeOK OvershootBounded
CHECK_DEADLOCK FALSE
