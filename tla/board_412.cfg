CONSTANTS
    t1 = t1
    t2 = t2
    t3 = t3
    r1 = r1
    r2 = r2
    r3 = r3
    a = a
    b = b
    todo = todo
    done = done
    Keep = Keep
    NoReq = NoReq
    Task = {t1, t2}
    Existing = {t1}
    Column = {todo, done}
    Home = todo
    Done = done
    Value = {a}
    Req = {r1, r2}
    Kinds = {"patch", "overwrite"}
    PatchInputs <- Moves
    NoRowsMatches = FALSE
SPECIFICATION Spec
CHECK_DEADLOCK FALSE
INVARIANTS
    StaleIfMatchIsNot500
