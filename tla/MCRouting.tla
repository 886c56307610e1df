------------------------------- MODULE MCRouting -------------------------------
(***************************************************************************)
(* Station a is in the range of the TNC; b sends from afar, over servers    *)
(* and as a user with or without a good password, and asks the server over  *)
(* the radio; c uses Mic-E and is sent to the radio full time, its posits   *)
(* also by main; k is a trusted UDP client.                                 *)
(***************************************************************************)
EXTENDS Routing

P(src, type, to, path) ==
    [src |-> src, type |-> type, to |-> to, path |-> path, unreg |-> FALSE]

MCStations == {"a", "b", "c", "k"}
MCHeardOnRF == {P("a", "mic_e", None, "rf"), P("b", "query", None, "rf")}
MCFromServers == {P("b", "posit", None, "TCPIP*"), P("b", "msg", "a", "TCPIP"),
                  P("c", "mic_e", None, "TCPIP*")}
MCFromUsers == {P("b", "msg", "a", "TCPIP")}
MCFromUDP == {P("k", "status", "TNC", "rf")}
MCLogons == {[call |-> "b", valid |-> v] : v \in BOOLEAN}
MCfmt_mic_e == [s \in MCStations \cup {"me"} |->
                   IF s = "a" THEN {"posit", "telemetry"} ELSE {"posit"}]
MCdeny == [s \in MCStations \cup {"me"} |-> "+"]

\* Messages are for a only: when the others were heard is never asked, and of a
\* only whether he was, and how long ago.
HeardA ==
    IF heard["a"] = Never THEN Never
    ELSE IF spared["a"] > heard["a"] THEN spared["a"] ELSE heard["a"]

\* A handler that only has the packet to the Internet to send has asked the list
\* all that a property is about.
Asks(h) == at[h] \notin {"idle", "inet"} \/ (at[h] = "inet" /\ packet[h].src \in rfcall)

\* Once the last packet has arrived nobody asks what the others have got; once
\* no handler asks the list any more, the queues are what is left.
View ==
    CASE inputs < MaxInputs -> <<shared, handlers, air, net, sent, HeardA, now, aged, inputs>>
      [] inputs = MaxInputs /\ \E h \in Threads : Asks(h) ->
            <<shared, handlers, sent, HeardA, now, aged>>
      [] OTHER -> <<sendQueue, tncQueue, handlers>>
==============================================================================
