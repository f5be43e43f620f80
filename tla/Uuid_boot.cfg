CONSTANTS
    s1 = s1
    s2 = s2
    a1 = a1
    a2 = a2
    Maker = {s1, s2}
    Agent = {a1}
    TimerTicks = 2
    SeqLimit = 3
    SidLimit = 3
    MaxClock = 3
    Late = FALSE
    Racing = FALSE
    Slack = 0
    Nil = Nil
SPECIFICATION Spec
INVARIANTS
    TypeOK
    
    
CHECK_DEADLOCK FALSE
