CONSTANTS
    title = title
    description = description
    old = old
    mine = mine
    hers = hers
    Field = {title, description}
    Quick = {title}
    Suggested = {description}
    Value = {old, mine, hers}
    Mine = {mine}
    Theirs = {hers}
    Initial <- MCInitial
    MaxVersion = 4
    MaxSaves = 1
    RecognisesNoRows = TRUE
SPECIFICATION EditSpec
CHECK_DEADLOCK FALSE
PROPERTIES
    SavesReplaceWhatWasSeen
