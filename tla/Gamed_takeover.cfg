CONSTANTS
    f1 = f1
    f2 = f2
    f3 = f3
    f4 = f4
    alice = alice
    bob = bob
    Nil = Nil
    Fd = {f1, f2, f3, f4}
    Account = {alice, bob}
    AccountOf <- ThreeAndOne
    BadToken = {}
    MaxAgent = 3
    InitPool = 1
    MaxClient = 3
    MaxClose = 2
    MaxFrame = 2
    Dropping = {f1, f2, f4}
    EarlyDrop = FALSE
    Speak = "greeted"
    Discipline = "takeover"
SPECIFICATION Spec
INVARIANTS
    TypeOK
    PoolIdle
    OwnerRecorded
    
    
PROPERTIES
    NoMisdelivery
CHECK_DEADLOCK FALSE
