SPECIFICATION Spec
CONSTANTS
    a = a  b = b  none = none  pos = pos  msg = msg  d1 = d1  d2 = d2
    long = long  short = short  piece = piece
    NoFile = NoFile  NoCall = NoCall
    Packets <- MCPackets
    RfPackets <- MCRfPackets
    Blank <- MCBlank
    cut <- MCcut
    Scraps <- MCScraps
    DupWindow = 1
    MaxLag = 1
    ttlDefault = 10
    FileLife = 1
    MaxTime = 2
    MaxItems = 3
    MaxRestarts = 1
VIEW View
INVARIANTS TypeOK KeyClashOnlyAtFront
PROPERTIES RecentDuplicateCaught NothingLostEarly RestartBringsBackWhatIsRead
\* the clock, the list and the restarts reach their bounds
CHECK_DEADLOCK FALSE
