CONSTANTS
    t1 = t1
    t2 = t2
    r1 = r1
    r2 = r2
    k1 = k1
    k2 = k2
    None = None
    Tab = {t1, t2}
    Request = {r1, r2}
    Call = {k1, k2}
    MaxPairs = 3
    AnswerIsNested = FALSE
SPECIFICATION Spec
CHECK_DEADLOCK FALSE
PROPERTY
    GrantKeepsTheSession
