CONSTANTS
    title = title
    description = description
    old = old
    mine = mine
    hers = hers
    Field = {title, description}
    Quick = {title}
    Suggested = {description}
    Value = {old, mine, hers}
    Mine = {mine}
    Theirs = {hers}
    Initial <- MCInitial
    MaxVersion = 4
    MaxSaves = 1
    RecognisesNoRows = TRUE
    move1 = move1
    move2 = move2
    Columns = 3
    Existing = 2
    MyReorders = {move1}
    TheirReorders = {move2}
    MaxWrites = 1
    MaxLists = 1
    teamA = teamA
    teamB = teamB
    a1 = a1
    b1 = b1
    b2 = b2
    Team = {teamA, teamB}
    Project = {a1, b1, b2}
    TeamOf <- MCTeamOf
    Part = {"tasks", "settings"}
    Nothing = Nothing
    MaxLoads = 2
    MaxActs = 2
    boardA = boardA
    boardB = boardB
    Board = {boardA, boardB}
    NoBoard = NoBoard
    MaxRuns = 3
    MaxBreaks = 2
    task1 = task1
    task2 = task2
    Task = {task1, task2}
    NoTask = NoTask
    PageSize = 1
    MaxComments = 1
    MaxChanges = 3
    MaxOps = 2
    envA = envA
    envB = envB
    docs = docs
    note = note
    Env = {envA, envB}
    NoEnv = NoEnv
    Root = Root
    Folder = {docs}
    File = {note}
    FolderOf <- MCFolderOf
    NoEntry = NoEntry
    MaxRequests = 2
    MaxStarts = 3
    ann = ann
    stream1 = stream1
    stream2 = stream2
    address = address
    Stream = {stream1, stream2}
    NoStream = NoStream
    Speaker = {ann}
    Candidate = {address}
    MaxOffers = 2
    MaxWire = 2
SPECIFICATION MCSpec
CHECK_DEADLOCK FALSE
INVARIANTS
    PagesTypeOK
    ScopeSettles
    OneStream
    UnreadOrCame
    ThreadIsWhole
    TreeIsOfTheEnvironment
    MicrophoneReleased
    MutedIsSilent
    
PROPERTIES
    
    MergeKeepsTheirs
    ForceReplacesWhatWasShown
    ReorderIsAsAsked
    RenameReplacesWhatWasHeld
    DeletedWasConfirmed
