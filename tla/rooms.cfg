CONSTANTS
    room1 = room1
    room2 = room2
    me = me
    bob = bob
    Room = {room1, room2}
    Person = {me, bob}
    Self = me
    Nowhere = Nowhere
    Limit = 1
    MaxLog = 2
    MaxGets = 2
    MaxActs = 2
    page1 = page1
    page2 = page2
    ann = ann
    Page = {page1, page2}
    User = {ann, bob}
    UserOf <- MCUserOf
    Tries <- MCTries
    MaxConn = 2
    Capacity = 2
    MaxTrouble = 1
SPECIFICATION MCSpec
CHECK_DEADLOCK FALSE
INVARIANTS
    RoomsTypeOK
    ShownAreOfTheRoom
    
    MembersAreSeen
PROPERTIES
    MessagesArrive
    LeftIsGone
