SPECIFICATION Spec
CONSTANTS
    Stations <- MCStations
    Igates = {g1}
    Sessions = {}
    MyCall = "me"
    ServerCall = "aprsd"
    HeardOnRF <- MCHeardOnRF
    FromServers <- MCFromServers
    FromUsers <- MCFromUsers
    FromUDP <- MCFromUDP
    Logons <- MCLogons
    fmt_mic_e <- MCfmt_mic_e
    deny <- MCdeny
    rfcall = {}
    posit_rfcall = {"b"}
    stsmDest_rfcall = {"a"}
    igateMyCall = TRUE
    ttlDefault = 2
    QueueSize = 2
    Numbers = {1, 2, 3, 4}
    MaxTime = 2
    MaxInputs = 4
PROPERTY PositEveryTenMinutes
CHECK_DEADLOCK FALSE
