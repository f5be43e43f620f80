CONSTANTS
    f1 = f1
    f2 = f2
    f3 = f3
    f4 = f4
    alice = alice
    bob = bob
    Nil = Nil
    Fd = {f1, f2, f3}
    Account = {alice, bob}
    AccountOf <- TwoAndOne
    BadToken = {}
    MaxAgent = 3
    InitPool = 1
    MaxClient = 3
    MaxClose = 2
    MaxFrame = 1
    Dropping = {f1, f2, f3}
    EarlyDrop = FALSE
    Speak = "forwarded"
    Discipline = "takeover"
SPECIFICATION FairSpec
PROPERTIES
    LoginServed
    AgentsReturn
CHECK_DEADLOCK FALSE
