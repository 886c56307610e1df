SPECIFICATION Spec
CONSTANTS
    Objs = {o1, o2, o3, o4}
    Keys = {x}
    AckThreads = {a1}
    SendSize = 1
    TncSize = 1
    tncPresent = TRUE
    ackRepeats = 1
    ttlDefault = 10
SYMMETRY Symmetry
INVARIANT AckIsThereToRepeat
