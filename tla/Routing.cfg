SPECIFICATION Spec
CONSTANTS
    Stations <- MCStations
    Igates = {g1}
    Sessions = {s1}
    MyCall = "me"
    ServerCall = "aprsd"
    HeardOnRF <- MCHeardOnRF
    FromServers <- MCFromServers
    FromUsers <- MCFromUsers
    FromUDP <- MCFromUDP
    Logons <- MCLogons
    fmt_mic_e <- MCfmt_mic_e
    deny <- MCdeny
    rfcall = {"c"}
    posit_rfcall = {"c"}
    stsmDest_rfcall = {}
    igateMyCall = TRUE
    ttlDefault = 2
    QueueSize = 2
    Numbers = {1, 2, 3, 4}
    MaxTime = 3
    MaxInputs = 4
INVARIANTS TypeOK UnregisteredNotOnRF NothingReturns
VIEW View
PROPERTIES DestinationHeard PositPacedByHandler
CHECK_DEADLOCK FALSE
