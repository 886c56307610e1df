SPECIFICATION FairSpec
CONSTANTS
    Objs = {o1, o2, o3}
    Keys = {x}
    AckThreads = {a1}
    SendSize = 1
    TncSize = 1
    tncPresent = TRUE
    ackRepeats = 1
    ttlDefault = 10
INVARIANTS TypeOK OneOwner SentToClientsExists
PROPERTY TncQueueServed
