CONSTANTS
    move1 = move1
    move2 = move2
    Columns = 3
    Existing = 2
    MyReorders = {move1}
    TheirReorders = {move2}
    MaxWrites = 1
    MaxLists = 1
SPECIFICATION ColumnsSpec
CHECK_DEADLOCK FALSE
PROPERTIES
    RefusedShowsCurrent
