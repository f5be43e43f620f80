CONSTANTS
    Id = {1, 2}
    BBox <- OddBox
    Depth = 2
    Radius = 2
    Point <- FewPoints
    MaxObject = 3
    MaxUpdate = 2
SPECIFICATION Spec
INVARIANTS
    TypeOK
    QueryExact
    UnmovedSeeEachOther
    NoGhost
    Findable
CHECK_DEADLOCK FALSE
