CONSTANTS
    t1 = t1
    t2 = t2
    t3 = t3
    r1 = r1
    r2 = r2
    r3 = r3
    a = a
    b = b
    todo = todo
    done = done
    Keep = Keep
    NoReq = NoReq
    Task = {t1, t2}
    Existing = {t1, t2}
    Column = {todo}
    Home = todo
    Done = todo
    Value = {a}
    Req = {r1, r2, r3}
    Kinds = {"delete", "reorder"}
    PatchInputs = {}
    NoRowsMatches = TRUE
SPECIFICATION FairSpec
CHECK_DEADLOCK FALSE
PROPERTIES
    EveryRequestEnds
