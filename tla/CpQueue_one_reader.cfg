SPECIFICATION FairSpec
CONSTANTS
    Size = 3
    Readers = {r1}
    Ptrs = {p1, p2}
    Cmds = {0}
    NULL = NULL
    MaxOverrun = 2
INVARIANTS TypeOK Contiguous ReadFindsData
PROPERTIES ImplementsFifo Drains
