-------------------------------- MODULE Routing --------------------------------
(***************************************************************************)
(* What goes from the Internet to the radio and back (aprsd.cpp: the       *)
(* packet handlers of TCPConnectThread and TCPSessionThread, sendOnRF,     *)
(* UDPServerThread, the beacons and schedule_posit2RF of main, DeQueue and *)
(* dequeueTNC; serialp.cpp: ReadCom; history.cpp: StationLocal, getPosit,  *)
(* timestamp; queryResp.cpp).                                              *)
(*                                                                         *)
(* The handlers run in threads of their own and meet in the history list   *)
(* and in the two queues, which they take the locks of one access at a     *)
(* time: a step of a handler ends before its next look at the list.        *)
(*                                                                         *)
(* The clock counts main's rounds of five minutes.  In each round main calls *)
(* DeleteOldItems once, at any moment: between a handler's look at the list *)
(* and what it does next, or with the queues full.  Within a round the      *)
(* handlers come to an end and the queues run empty once.                   *)
(***************************************************************************)
EXTENDS Integers, FiniteSets, SequencesExt, Lists

CONSTANTS
    Stations,         \* call signs
    Igates,           \* TCPConnectThreads
    Sessions,         \* TCPSessionThreads
    MyCall,           \* the call sign of the own TNC
    ServerCall,       \* the name the server answers queries under
    HeardOnRF,        \* what stations within the TNC's range send
    FromServers,      \* what other servers send on their own account
    FromUsers,        \* what users send
    FromUDP,          \* what trusted UDP clients send, to "TNC" or to all
    Logons,           \* the call signs users log on with, and whether the
                      \* password is good
    deny,             \* user.deny: "L", "R", or "+" for those not in it
    rfcall,           \* gate2rf: stations sent to the radio full time
    posit_rfcall,     \* posit2rf: stations whose posits main sends there
    stsmDest_rfcall,  \* msgdest2rf: destinations messages are sent to there
    fmt_mic_e,        \* what a station's Mic-E packets decode to
    igateMyCall,      \* what the own TNC sent is taken back
    ttlDefault,       \* rounds a packet stays in the history list
    QueueSize,        \* size of each queue
    Numbers,          \* serial numbers of posits
    MaxTime,          \* bound on the clock
    MaxInputs         \* bound on the packets that arrive

None == "none"
Threads == Igates \cup Sessions
Callers == Stations \cup {MyCall}

\* What routing depends on in the text of a packet.
Types == {"posit", "nmea", "msg", "query", "status", "mic_e", "telemetry"}
Paths == {"rf", "far", "TCPIP", "TCPIP*", "TCPXX*"}
Raw == [src : Callers, type : Types, to : Callers \cup {None, "TNC", ServerCall},
        path : Paths, unreg : BOOLEAN]

\* "This program trusts other versions of itself and APRServe to flag the paths
\* of data from unregistered Internet users" (aprsddoc.html 902).
ASSUME TrustAssumption ==
    /\ \A p \in FromServers : p.unreg => p.path = "TCPXX*"
    /\ \A p \in HeardOnRF \cup FromUsers \cup FromUDP : ~p.unreg
ASSUME RoutingAssumption ==
    /\ Numbers \subseteq Nat \ {0} /\ None \notin Stations
    /\ Igates \cap Sessions = {} /\ None \notin Threads
    /\ HeardOnRF \cup FromServers \cup FromUsers \cup FromUDP \subseteq Raw
    /\ deny \in [Callers -> {"+", "L", "R"}]
    /\ fmt_mic_e \in [Callers -> {{}, {"posit"}, {"posit", "telemetry"}}]
    /\ igateMyCall \in BOOLEAN
    /\ ttlDefault \in Nat \ {0} /\ QueueSize \in Nat

VARIABLES
    list,       \* the history list, from pHead to pTail
    sendQueue,
    tncQueue,
    now,        \* the clock
    at,         \* what each handler does next
    packet,     \* its atemp
    posit,      \* the copy that getPosit gave it
    user,       \* a session's userCall, verified and checkdeny
    air,        \* what the TNC has transmitted; digipeaters repeat it
    net,        \* what other servers have got from this one
    aged,       \* main has called DeleteOldItems in this round
    heard,      \* the round a station was last heard in directly
    spared,     \* the last round DeleteOldItems left a station's packet alone in,
                \* because it was the only one
    sent,       \* when each handler last sent the posit of a number
    inputs      \* how many packets have arrived

shared == <<list, sendQueue, tncQueue>>
handlers == <<at, packet, posit, user>>
world == <<air, net, heard, sent>>
clock == <<now, aged, spared>>
vars == <<shared, handlers, world, clock, inputs>>

Never == -2      \* timeRF 0: long before the server was started
TenMinutes == 2  \* 60*10 seconds
ttlTNC == 1      \* "This only exist  5 minutes for dup checking"
Nothing == [ID |-> 0]

\* The constructor.  Only the numbers of posits are ever compared; those that
\* are out of use are given out again.
Used == {e.ID : e \in ToSet(list) \cup ToSet(sendQueue) \cup ToSet(tncQueue)
                        \cup {posit[h] : h \in Threads}}
HasNumber == Numbers \ Used # {}

aprsString(p, mask, inet) ==
    [src |-> p.src, type |-> p.type, to |-> p.to, path |-> p.path, unreg |-> p.unreg,
     EchoMask |-> IF p.type = "msg" THEN mask \cup {"src3RDPARTY"} ELSE mask,
     reformatted |-> FALSE, timeRF |-> Never,
     ID |-> IF p.type \in {"posit", "nmea"} THEN CHOOSE n \in Numbers : n \notin Used ELSE 0,
     dest |-> None, ttl |-> 0, inet |-> inet]

stsmReformat(p) == [p EXCEPT !.reformatted = TRUE]

changePath(p, new, old) == IF p.path = old THEN [p EXCEPT !.path = new] ELSE p

\* The copy constructor; "serial number.  This one is NOT unique!!"
copy(p) ==
    [src |-> p.src, type |-> p.type, to |-> p.to, path |-> p.path, unreg |-> p.unreg,
     EchoMask |-> p.EchoMask, reformatted |-> p.reformatted, timeRF |-> p.timeRF,
     ID |-> p.ID, dest |-> p.dest, ttl |-> p.ttl, inet |-> p.inet]

\* A bug to look for: a full queue takes what it is given.
PutAlways(queue, p) == Append(queue, p)

\* A full queue deletes what it is given.
Put(queue, p) == IF Len(queue) < QueueSize THEN Append(queue, p) ELSE queue

\* What BroadcastString and the beacons send: a packet of the server itself.
Own(type, to, mask) ==
    aprsString([src |-> ServerCall, type |-> type, to |-> to, path |-> "TCPIP*",
                unreg |-> FALSE], mask, FALSE)

\* A query that names nobody gets one reply, a message that asks the server by
\* name an acknowledgement before it if it carries a line number.
queryResp(p, reply, queue) ==
    CASE p.type = "query" -> {Put(queue, reply)}
      [] p.type = "msg" /\ p.to = ServerCall ->
            {Put(queue, reply), Put(Put(queue, reply), reply)}
      [] OTHER -> {queue}

\* A Mic-E packet becomes a posit, perhaps with telemetry, or nothing if it is
\* too short.  Both are parsed anew, with the path the packet arrived with.
mic_e_Reformat(p, type) ==
    [aprsString([p EXCEPT !.type = type], p.EchoMask, p.inet)
        EXCEPT !.reformatted = p.reformatted]

reformatAndSendMicE(p, queue) ==
    LET decoded == fmt_mic_e[p.src]
        one == IF "posit" \in decoded THEN Put(queue, mic_e_Reformat(p, "posit"))
               ELSE queue
    IN  IF "telemetry" \in decoded THEN Put(one, mic_e_Reformat(p, "telemetry")) ELSE one
------------------------------------------------------------------------------
\* There is an entry from the TNC without GATE* and without three repetitions.
StationLocal(s) ==
    \E e \in ToSet(list) : e.src = s /\ "srcTNC" \in e.EchoMask /\ e.path # "far"

\* A copy of the newest posit of s that came in one of these ways.
getPosit(s, mask) ==
    LET I == {i \in DOMAIN list : /\ list[i].src = s
                                  /\ list[i].type \in {"posit", "nmea"}
                                  /\ list[i].EchoMask \cap mask # {}}
    IN  IF I = {} THEN Nothing ELSE copy(list[Max(I)])

\* A bug to look for: nothing is stamped.
timestampNot(id) == list

\* The newest entry of that number, be it the original or a copy.
timestamp(id) ==
    LET I == {i \in DOMAIN list : list[i].ID = id}
    IN  IF I = {} THEN list ELSE [list EXCEPT ![Max(I)].timeRF = now]

\* AddHistoryItem keeps a packet in place of the others of its kind, or finds
\* it a duplicate; whether an entry is young and says the same is left open.
SameKind(e, p) == e.src = p.src /\ e.type = p.type /\ e.dest = p.dest

Added(p) ==
    Append(IF Len(list) <= 1 THEN list
           ELSE Keeping(list, {e \in ToSet(list) : ~SameKind(e, p)}), p)

MayBeDuplicate(p) == \E e \in ToSet(list) : SameKind(e, p)

Init ==
    /\ list = <<>> /\ sendQueue = <<>> /\ tncQueue = <<>>
    /\ now = 0 /\ aged = FALSE /\ spared = [s \in Callers |-> Never]
    /\ at = [h \in Threads |-> "idle"]
    /\ packet = [h \in Threads |-> Nothing]
    /\ posit = [h \in Threads |-> Nothing]
    /\ user = [h \in Sessions |-> [call |-> None, verified |-> FALSE, checkdeny |-> "?"]]
    /\ air = {} /\ net = {}
    /\ heard = [s \in Callers |-> Never]
    /\ sent = [h \in Threads |-> [n \in Numbers |-> Never]]
    /\ inputs = 0

\* A new number forgets what was sent under it before.
NumberGiven(q, queue) ==
    LET new == {p.ID : p \in ToSet(q) \ ToSet(queue)} \ Used
    IN  sent' = [h \in Threads |-> [n \in Numbers |-> IF n \in new THEN Never ELSE sent[h][n]]]

Input ==
    /\ inputs < MaxInputs
    /\ HasNumber
    /\ inputs' = inputs + 1
------------------------------------------------------------------------------
(* The packets of a user or of another server.                             *)

\* atemp, and whether sendOnRF may be called for it.  A packet of a session
\* that is not verified is that of an unregistered user.
Verified(h) == h \in Igates \/ user[h].verified
MayUseRF(h) == h \in Igates \/ (user[h].verified /\ user[h].checkdeny = "+")
Marked(h, p) == IF Verified(h) THEN p ELSE [p EXCEPT !.unreg = TRUE]
Mask(h) == IF h \in Igates THEN {"srcIGATE"} ELSE {"srcUSERVALID"}

Answers(h, p) ==
    IF h \in Igates THEN queryResp(p, Own("msg", p.src, {"srcSYSTEM"}), sendQueue)
    ELSE {sendQueue}

\* The line is parsed, a query is answered: a user's over his own socket, which
\* changes nothing here.  sendOnRF is called and asks for the destination.
Receive(h, p) ==
    /\ at[h] = "idle"
    /\ Input
    /\ packet' = [packet EXCEPT ![h] = Marked(h, p)]
    /\ sendQueue' \in Answers(h, p)
    /\ LET gate == /\ p.type = "msg" /\ p.path # "TCPXX*" /\ MayUseRF(h)
                   /\ p.src \notin rfcall /\ deny[p.src] = "+"
                   /\ StationLocal(p.to) \/ p.to \in stsmDest_rfcall
       IN  at' = [at EXCEPT ![h] = IF gate THEN "source" ELSE "inet"]
    /\ UNCHANGED <<list, tncQueue, posit, user, world, clock>>

\* Then for the originator, who must not be near: the message is sent.
sendOnRF(h) ==
    /\ at[h] = "source"
    /\ IF StationLocal(packet[h].src)
       THEN /\ at' = [at EXCEPT ![h] = "inet"]
            /\ UNCHANGED tncQueue
       ELSE /\ at' = [at EXCEPT ![h] = "posit"]
            /\ tncQueue' = Put(tncQueue,
                               stsmReformat(aprsString(packet[h], Mask(h), TRUE)))
    /\ UNCHANGED <<list, sendQueue, packet, posit, user, world, clock, inputs>>

FindPosit(h) ==
    /\ at[h] = "posit"
    /\ posit' = [posit EXCEPT ![h] =
                    getPosit(packet[h].src, {"srcIGATE", "srcUSERVALID"})]
    /\ at' = [at EXCEPT ![h] = IF posit'[h] = Nothing THEN "inet" ELSE "stamp"]
    /\ UNCHANGED <<shared, packet, user, world, clock, inputs>>

\* "posit every 10 minutes only": the original is stamped, the copy sent.
SendPosit(h) ==
    /\ at[h] = "stamp"
    /\ IF now - posit[h].timeRF >= TenMinutes
       THEN /\ list' = timestamp(posit[h].ID)
            /\ tncQueue' = Put(tncQueue, stsmReformat(posit[h]))
            /\ sent' = [sent EXCEPT ![h][posit[h].ID] =
                           IF tncQueue' = tncQueue THEN @ ELSE now]
       ELSE UNCHANGED <<list, tncQueue, sent>>
    /\ posit' = [posit EXCEPT ![h] = Nothing]
    /\ at' = [at EXCEPT ![h] = "inet"]
    /\ UNCHANGED <<sendQueue, packet, user, air, net, heard, clock, inputs>>

\* A bug to look for: the two replacements in the wrong order.
UnregisteredPathSwapped(p) ==
    changePath(changePath(p, "TCPXX*", "TCPIP*"), "TCPIP*", "TCPIP")

UnregisteredPath(p) ==
    changePath(changePath(p, "TCPIP*", "TCPIP"), "TCPXX*", "TCPIP*")

\* An unregistered user's packet is for no one unless it is his own and TCPIP
\* is in its path.
OfUnregistered(h, p) ==
    LET mask == IF p.src = user[h].call /\ p.path \in {"TCPIP", "TCPIP*"}
                THEN {"srcUSER"} ELSE {}
    IN  [UnregisteredPath(aprsString(p, {}, TRUE)) EXCEPT !.EchoMask = mask]

\* What sendQueue becomes: a user whom user.deny lets only read adds nothing.
inetpacket(h, p) ==
    LET new == aprsString(p, Mask(h), TRUE) IN
    IF Verified(h)
    THEN IF p.type = "mic_e" THEN reformatAndSendMicE(new, sendQueue)
         ELSE Put(sendQueue, changePath(new, "TCPIP*", "TCPIP"))
    ELSE IF user[h].checkdeny = "L" THEN sendQueue
         ELSE Put(sendQueue, OfUnregistered(h, p))

\* For a message, a copy of its originator's posit for the message ports.
ThirdParty(p, queue) ==
    LET found == getPosit(p.src, {"srcIGATE", "srcUSERVALID", "srcTNC"}) IN
    IF p.type = "msg" /\ found # Nothing
    THEN Put(queue, [found EXCEPT !.EchoMask = {"src3RDPARTY"}]) ELSE queue

\* The packet to the Internet, then the posit.
ToInternet(h) ==
    /\ at[h] = "inet"
    /\ HasNumber
    /\ LET p == packet[h]
           queue == inetpacket(h, p)
       IN  /\ sendQueue' = IF h \in Sessions /\ p.src \in rfcall THEN queue
                           ELSE ThirdParty(p, queue)
           /\ NumberGiven(queue, sendQueue)
           /\ at' = [at EXCEPT ![h] = IF p.src \in rfcall THEN "always" ELSE "idle"]
           /\ packet' = IF p.src \in rfcall THEN packet
                        ELSE [packet EXCEPT ![h] = Nothing]
    /\ UNCHANGED <<list, tncQueue, posit, user, air, net, heard, clock, inputs>>

\* "Here's where the priviledged get their posits sent to RF full time."
Always(h) ==
    /\ at[h] = "always"
    /\ HasNumber
    /\ LET p == packet[h]
           RFpacket == stsmReformat(aprsString(p,
                          IF h \in Igates THEN {"srcIGATE"} ELSE {"srcUSER"}, TRUE))
       IN  IF ~MayUseRF(h) \/ p.path = "TCPXX*" \/ StationLocal(p.src)
           THEN UNCHANGED tncQueue
           ELSE tncQueue' = IF p.type = "mic_e" THEN reformatAndSendMicE(RFpacket, tncQueue)
                            ELSE Put(tncQueue, changePath(RFpacket, "TCPIP*", "TCPIP"))
    /\ NumberGiven(tncQueue', tncQueue)
    /\ at' = [at EXCEPT ![h] = "idle"]
    /\ packet' = [packet EXCEPT ![h] = Nothing]
    /\ UNCHANGED <<list, sendQueue, posit, user, air, net, heard, clock, inputs>>

\* A logon: verified with a good password, unless user.deny says "L".
Logon(h, l) ==
    /\ at[h] = "idle"
    /\ Input
    /\ user' = [user EXCEPT ![h] = [call |-> l.call, checkdeny |-> deny[l.call],
                    verified |-> l.valid /\ deny[l.call] # "L"]]
    /\ UNCHANGED <<shared, at, packet, posit, world, clock>>

Handler(h) ==
    \/ sendOnRF(h)
    \/ FindPosit(h)
    \/ SendPosit(h)
    \/ ToInternet(h)
    \/ Always(h)
------------------------------------------------------------------------------
(* The other producers.                                                    *)

\* A bug to look for: only the own call sign is recognised.
ComesBackByCall(p) == p.src = MyCall /\ ~igateMyCall

\* "don't igate packets which have been igated to RF and/or originated from
\* our own TNC"
ComesBack(p) == p.reformatted \/ (p.src = MyCall /\ ~igateMyCall)

\* ReadCom, with a packet of a station or one of the own TNC's that a
\* digipeater repeats.  A query is answered on the radio.
ReadCom(raw, inet, again) ==
    /\ Input
    /\ LET p == [aprsString(raw, {"srcTNC"}, inet) EXCEPT !.reformatted = again] IN
         /\ tncQueue' \in queryResp(p, stsmReformat(Own("msg", p.src, {})), tncQueue)
         /\ sendQueue' = IF ComesBack(p) THEN sendQueue
                         ELSE IF p.type = "mic_e" THEN reformatAndSendMicE(p, sendQueue)
                         ELSE Put(ThirdParty(p, sendQueue), p)
    /\ NumberGiven(sendQueue', sendQueue)
    /\ heard' = IF raw.path = "far" THEN heard ELSE [heard EXCEPT ![raw.src] = now]
    /\ UNCHANGED <<list, handlers, air, net, clock>>

Digipeated(p) == [src |-> MyCall, type |-> p.type, to |-> p.to, path |-> "rf",
                  unreg |-> p.unreg]

UDPServerThread(p) ==
    /\ Input
    /\ LET abuff == aprsString(p, {"srcUDP"}, FALSE) IN
       IF p.to = "TNC"
       THEN tncQueue' = Put(tncQueue, abuff) /\ UNCHANGED sendQueue
       ELSE sendQueue' = Put(sendQueue, abuff) /\ UNCHANGED tncQueue
    /\ NumberGiven(tncQueue' \o sendQueue', tncQueue \o sendQueue)
    /\ UNCHANGED <<list, handlers, air, net, heard, clock>>

\* The beacons of main.
NetBeacon ==
    /\ Input
    /\ sendQueue' = Put(sendQueue, Own("status", None, {"srcSYSTEM"}))
    /\ UNCHANGED <<list, tncQueue, handlers, world, clock>>

TncBeacon ==
    /\ Input
    /\ tncQueue' = Put(tncQueue, Own("status", None, {"srcSYSTEM"}))
    /\ UNCHANGED <<list, sendQueue, handlers, world, clock>>

\* One station every 14 seconds; the posit is not stamped.
schedule_posit2RF(s) ==
    /\ Input
    /\ LET abuff == getPosit(s, {"srcIGATE", "srcUSERVALID", "srcUSER"}) IN
         /\ abuff # Nothing
         /\ tncQueue' = Put(tncQueue, stsmReformat(abuff))
    /\ UNCHANGED <<list, sendQueue, handlers, world, clock>>
------------------------------------------------------------------------------
(* DeQueue and dequeueTNC, and main's rounds.                              *)

\* Other servers want what came from the radio and from users.
Passed(p) ==
    IF p.EchoMask \cap {"srcTNC", "srcUSER", "srcUSERVALID"} = {} THEN net
    ELSE net \cup {[src |-> p.src, type |-> p.type, to |-> p.to, path |-> p.path,
                    unreg |-> p.unreg]}

DeQueue ==
    /\ sendQueue # <<>>
    /\ sendQueue' = Tail(sendQueue)
    /\ LET abuff == [Head(sendQueue) EXCEPT !.dest = "INET", !.ttl = ttlDefault]
           noHist == \/ "src3RDPARTY" \in abuff.EchoMask /\ abuff.type = "posit"
                     \/ "srcSYSTEM" \in abuff.EchoMask
       IN  /\ \/ noHist /\ UNCHANGED list
              \/ ~noHist /\ list' = Added(abuff)
              \/ ~noHist /\ MayBeDuplicate(abuff) /\ UNCHANGED list
           /\ net' = Passed(abuff)
    /\ UNCHANGED <<tncQueue, handlers, air, heard, sent, clock, inputs>>

dequeueTNC ==
    /\ tncQueue # <<>>
    /\ tncQueue' = Tail(tncQueue)
    /\ LET abuff == [Head(tncQueue) EXCEPT !.dest = "TNC", !.ttl = ttlTNC, !.EchoMask = {}]
       IN  \/ MayBeDuplicate(abuff) /\ UNCHANGED <<list, air>>
           \/ /\ list' = Added(abuff)
              /\ air' = air \cup {[type |-> abuff.type, to |-> abuff.to,
                                   unreg |-> abuff.unreg, inet |-> abuff.inet,
                                   reformatted |-> abuff.reformatted]}
    /\ UNCHANGED <<sendQueue, handlers, net, heard, sent, clock, inputs>>

Older == [i \in DOMAIN list |-> [list[i] EXCEPT !.ttl = @ - 1]]

\* A bug to look for: the last round of an entry is one too many.
AgedLate == Keeping(Older, {e \in ToSet(Older) : e.ttl >= 0})

Aged == Keeping(Older, {e \in ToSet(Older) : e.ttl > 0})

\* Once in five minutes, whatever the other threads are doing.  A single entry
\* is left alone, but main counts before it takes the lock.
DeleteOldItems ==
    /\ ~aged
    /\ aged' = TRUE
    /\ \/ /\ Len(list) <= 1 /\ UNCHANGED list
          /\ spared' = [s \in Callers |->
                          IF \E e \in ToSet(list) : e.src = s THEN now ELSE spared[s]]
       \/ list # <<>> /\ list' = Aged /\ UNCHANGED spared
    /\ UNCHANGED <<sendQueue, tncQueue, handlers, world, now, inputs>>

\* The next five minutes.
Round ==
    /\ now < MaxTime
    /\ aged
    /\ sendQueue = <<>> /\ tncQueue = <<>>
    /\ \A h \in Threads : at[h] = "idle"
    /\ now' = now + 1
    /\ aged' = FALSE
    /\ UNCHANGED <<shared, handlers, world, spared, inputs>>

Next ==
    \/ \E h \in Igates, p \in FromServers \cup net : Receive(h, p)
    \/ \E h \in Sessions, p \in FromUsers : Receive(h, p)
    \/ \E h \in Sessions, l \in Logons : Logon(h, l)
    \/ \E h \in Threads : Handler(h)
    \/ \E p \in HeardOnRF : ReadCom(p, FALSE, FALSE)
    \/ \E p \in air : ReadCom(Digipeated(p), p.inet, p.reformatted)
    \/ \E p \in FromUDP : UDPServerThread(p)
    \/ NetBeacon
    \/ TncBeacon
    \/ \E s \in posit_rfcall : schedule_posit2RF(s)
    \/ DeQueue
    \/ dequeueTNC
    \/ DeleteOldItems
    \/ Round

Spec == Init /\ [][Next]_vars
------------------------------------------------------------------------------
Masks == {"src3RDPARTY", "srcIGATE", "srcUSERVALID", "srcUSER", "srcUDP", "srcTNC",
          "srcSYSTEM"}
Packets ==
    [src : Callers \cup {ServerCall}, type : Types, path : Paths, unreg : BOOLEAN,
     to : Callers \cup {None, "TNC", ServerCall}, EchoMask : SUBSET Masks,
     reformatted : BOOLEAN, timeRF : {Never} \cup Nat, ID : Numbers \cup {0},
     dest : {None, "INET", "TNC"}, ttl : Nat, inet : BOOLEAN]

TypeOK ==
    /\ list \in Seq(Packets)
    /\ sendQueue \in Seq(Packets) /\ Len(sendQueue) <= QueueSize
    /\ tncQueue \in Seq(Packets) /\ Len(tncQueue) <= QueueSize
    /\ now \in Nat
    /\ at \in [Threads -> {"idle", "source", "posit", "stamp", "inet", "always"}]
    /\ packet \in [Threads -> Raw \cup {Nothing}]
    /\ \A h \in Threads : at[h] = "idle" <=> packet[h] = Nothing
    /\ posit \in [Threads -> Packets \cup {Nothing}]
    /\ \A h \in Threads : at[h] = "stamp" <=> posit[h] # Nothing
    /\ net \subseteq Raw
    /\ aged \in BOOLEAN
    /\ heard \in [Callers -> {Never} \cup 0 .. now]
    /\ spared \in [Callers -> {Never} \cup 0 .. now]
    /\ sent \in [Threads -> [Numbers -> {Never} \cup 0 .. now]]

\* "Users of unregisterd client programs ... These messages will not go out on
\* the TNC RF channel" (aprsddoc.html 863-865), neither directly nor when other
\* servers send them back.
UnregisteredNotOnRF ==
    \A p \in ToSet(tncQueue) : p.type = "msg" => ~p.unreg

\* "This server will NOT igate a 3rd party _reformatted_ message from RF to the
\* Internet" (aprsddoc.html 859): what came from the Internet and was
\* transmitted does not return, even with igateMyCall (serialp.cpp 399-406).  UDP
\* clients are the owner's own programs and do not count as the Internet: what
\* they have transmitted is not reformatted, and igateMyCall does take it back.
NothingReturns ==
    \A p \in ToSet(sendQueue) : "srcTNC" \in p.EchoMask => ~p.inet

\* s was heard, and not longer ago than packets are kept; but the rounds in which
\* its packet was alone in the list do not count (history.cpp 196).
Recently(s) ==
    /\ heard[s] # Never
    /\ now - heard[s] <= ttlDefault \/ now - spared[s] <= ttlDefault

\* "The destination HAS been seen on the TNC RF data stream" (aprsddoc.html
\* 826-828): when a message is sent to the radio its destination was heard
\* there directly and recently, even though main ages the list after the look
\* at it and packets are stored, replaced and found to be duplicates all the
\* time (aprsd.cpp 2404, 3484-3488, history.cpp 303-340).
DestinationHeard ==
    [][\A h \in Threads : at[h] = "source" /\ at'[h] = "posit" =>
          packet[h].to \in stsmDest_rfcall \/ Recently(packet[h].to)]_vars

Sends(h) == at[h] = "stamp" /\ at'[h] = "inet" /\ tncQueue' # tncQueue
Sent(h) == sent[h][posit[h].ID]

\* No handler sends a posit on the radio twice within ten minutes, whatever the
\* others do with it and its copies (aprsd.cpp 2257-2270, 1565-1576): as long as
\* main does not send that station's posits, and but for NMEA sentences.
PositPacedByHandler ==
    [][\A h \in Threads :
          Sends(h) /\ posit[h].type = "posit" /\ posit[h].src \notin posit_rfcall =>
             now - Sent(h) >= TenMinutes]_vars

\* "During a series of messages the position packet will only be sent with a
\* message every 10 minutes unless the station emits and new one."
\* (aprsddoc.html 855)
PositEveryTenMinutes ==
    [][\A h \in Threads : Sends(h) =>
          \A g \in Threads : now - sent[g][posit[h].ID] >= TenMinutes]_vars
==============================================================================
