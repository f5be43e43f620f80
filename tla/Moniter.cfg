CONSTANTS
    s1 = s1
    s2 = s2
    s3 = s3
    s4 = s4
    Ser = {s1, s2, s3}
    Hanging = {s3}
    Nil = Nil
SPECIFICATION FairSpec
INVARIANTS
    AlarmExact
PROPERTIES
    AskedAgain
    DeadNoticed
CHECK_DEADLOCK FALSE
