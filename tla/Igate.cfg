\* One client after another, and one IGATE that sends as well.
SPECIFICATION IgFairSpec
CONSTANTS
    Threads = {t1}
    Fds = {4, 5, 6}
    MaxClients = 2
    MaxOverruns = 1
    Shufflers = {t1}
    Igates = {g1}
    LogsOn = {g1}
    RecvTimeout = 1
INVARIANTS IgTypeOK TableHoldsLiveConnections DelayFollowsFailures
PROPERTY DeadPeerIsNoticed
