SPECIFICATION Spec
CONSTANTS
    a = a  b = b  none = none  pos = pos  d1 = d1  d2 = d2
    NoFile = NoFile  NoCall = NoCall  NULL = NULL
    Objs = {o1, o2, o3, o4, o5}
    Packets <- MCPackets
    RfPackets <- MCRfPackets
    Blank <- MCBlank
    DupWindow = 0
    MaxLag = 1
    ttlDefault = 10
    FileLife = 1
    MaxTime = 1
    MaxItems = 4
SYMMETRY Symmetry
INVARIANTS TypeOK WellLinked NoLeak
PROPERTY ImplementsHistory
\* the clock and the list reach their bounds
CHECK_DEADLOCK FALSE
