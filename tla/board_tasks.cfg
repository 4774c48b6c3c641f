CONSTANTS
    t1 = t1
    t2 = t2
    t3 = t3
    r1 = r1
    r2 = r2
    r3 = r3
    a = a
    b = b
    todo = todo
    done = done
    Keep = Keep
    NoReq = NoReq
    Task = {t1, t2, t3}
    Existing = {t1, t2}
    Column = {todo, done}
    Home = todo
    Done = done
    Value = {a, b}
    Req = {r1, r2, r3}
    Kinds = {"patch", "overwrite", "create", "delete", "reorder", "dropColumn"}
    PatchInputs <- AllPatches
    NoRowsMatches = TRUE
SPECIFICATION Spec
ACTION_CONSTRAINT OneScenario
SYMMETRY RequestSymmetry
CHECK_DEADLOCK FALSE
INVARIANTS
    TypeOK
    
    ConflictShowsNewerRow
PROPERTIES
    NoLostUpdate
    
    ReorderIsAtomic
