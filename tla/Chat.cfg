CONSTANTS
    a1 = a1
    a2 = a2
    MaxAccount = 3
    Agent = {a1, a2}
    InitPool <- TwoAgents
    MaxLogin = 3
    MaxChat = 1
    Nil = Nil
SPECIFICATION FairSpec
INVARIANTS
    TypeOK
    TableExact
    AuthorNamed
    Reached
PROPERTIES
    RightUser
    BroadcastEnds
CHECK_DEADLOCK FALSE
