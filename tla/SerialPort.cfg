SPECIFICATION FairSpec
CONSTANTS
    Writers = {dequeue, sysop, main}
    main = main
    dequeue = dequeue
    Nobody = Nobody
    BufLimit = 3
INVARIANTS TypeOK PacketOfOneLine DivertedIsNotGated
PROPERTIES SentExactlyOnce WriteComReturns
\* after AsyncClose the process ends
CHECK_DEADLOCK FALSE
