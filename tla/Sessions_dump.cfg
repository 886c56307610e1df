SPECIFICATION Spec
CONSTANTS
    Threads = {t1, t2}
    Fds = {4, 5}
    MaxClients = 2
    MaxOverruns = 2
    Shufflers = {}
PROPERTY OffenderIsClosed
