CONSTANTS
    alice = alice
    bob = bob
    a1 = a1
    a2 = a2
    Nil = Nil
    Account = {alice, bob}
    Agent = {a1}
    MaxId = 3
    Bucket <- Apart
    Settled = TRUE
    MaxRpc = 2
    MaxFault = 1
SPECIFICATION Spec
SYMMETRY Symmetry
INVARIANTS
    TypeOK
    Owned
    ListedSaved
    NothingLost
