\* Two threads at a time, but as many sessions one after another as one likes:
\* a thread that has ended accepts again.
SPECIFICATION FairSpec
CONSTANTS
    Threads = {t1, t2}
    Fds = {4, 5, 6}
    MaxClients = 2
    MaxOverruns = 2
    Shufflers = {t1, t2}
INVARIANTS TypeOK NoSlotOutlivesItsSession CountNeverOverstates
PROPERTY GreetingEnds
