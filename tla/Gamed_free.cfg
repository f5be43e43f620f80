CONSTANTS
    f1 = f1
    f2 = f2
    f3 = f3
    f4 = f4
    alice = alice
    bob = bob
    Nil = Nil
    Fd = {f1, f2, f3}
    Account = {alice, bob}
    AccountOf <- AllOne
    BadToken = {f3}
    MaxAgent = 3
    InitPool = 1
    MaxClient = 2
    MaxClose = 2
    MaxFrame = 1
    Dropping = {f1, f2}
    EarlyDrop = TRUE
    Speak = "eager"
    Discipline = "free"
SPECIFICATION Spec
INVARIANTS
    Identity
CHECK_DEADLOCK FALSE
