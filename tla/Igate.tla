--------------------------------- MODULE Igate ---------------------------------
(***************************************************************************)
(* The connections to other servers (aprsd.cpp: TCPConnectThread with      *)
(* recvline, one thread for each line "server" or "igate" of the           *)
(* configuration) together with the clients of module Sessions: they share *)
(* the table of sockets, pmtxSend, and the process's file descriptors.     *)
(*                                                                         *)
(* A thread resolves the name, connects, logs on, reads lines until the    *)
(* connection ends or nothing arrives for RecvTimeout seconds, and sleeps  *)
(* before the next attempt.  What it does with a line is the subject of    *)
(* module Routing.                                                         *)
(***************************************************************************)
EXTENDS Sessions, Sequences

CONSTANTS
    Igates,       \* the TCPConnectThreads
    LogsOn,       \* those with a user and a password, which send as well
    RecvTimeout   \* 300 seconds without a character end a connection

ASSUME IgatesAssumption == LogsOn \subseteq Igates
ASSUME RecvTimeoutAssumption == RecvTimeout \in Nat

VARIABLES
    at,            \* what each IGATE thread does
    clientSocket,  \* its descriptor, or the last one it had
    retryTimer,    \* its next delay, in minutes
    timeout,       \* recvline's seconds left
    peer,          \* whether the other server is "up" or has "vanished"
    waits          \* delays since the last connection; not in the code

igate == <<at, clientSocket, retryTimer, timeout, peer, waits>>
igVars == <<vars, igate>>

\* The delays in minutes that the documentation gives.  Their number is the
\* bound of waits.
Delays == <<1, 2, 4, 8, 16>>

IgInit ==
    /\ Init
    /\ at = [g \in Igates |-> "resolve"]
    /\ clientSocket = [g \in Igates |-> NoSocket]
    /\ retryTimer = [g \in Igates |-> 1]
    /\ timeout = [g \in Igates |-> RecvTimeout]
    /\ peer = [g \in Igates |-> "up"]
    /\ waits = [g \in Igates |-> 0]

Continue(g, l) == at' = [at EXCEPT ![g] = l]
------------------------------------------------------------------------------
\* gethostbyname2 fails: state stays 0.
Unresolved(g) ==
    /\ at[g] = "resolve"
    /\ Continue(g, "sleep")
    /\ UNCHANGED <<server, clientSocket, retryTimer, timeout, peer, waits>>

\* socket(), the result of which is not looked at.
OpenSocket(g) ==
    /\ at[g] = "resolve"
    /\ LET s == IF Fds \ open = {} THEN NoSocket ELSE Min(Fds \ open) IN
         /\ clientSocket' = [clientSocket EXCEPT ![g] = s]
         /\ open' = IF s = NoSocket THEN open ELSE open \cup {s}
    /\ Continue(g, "connect")
    /\ UNCHANGED <<sessions, ConnectedClients, fd, pc, bc, pmtxSendFile,
                   retryTimer, timeout, peer, waits>>

\* connect() returns -1: state 0, and the socket is left open.
ConnectFails(g) ==
    /\ at[g] = "connect"
    /\ Continue(g, "sleep")
    /\ UNCHANGED <<server, clientSocket, retryTimer, timeout, peer, waits>>

Connected(g) ==
    /\ at[g] = "connect"
    /\ clientSocket[g] \in open
    /\ peer' = [peer EXCEPT ![g] = "up"]
    /\ Continue(g, "logon")
    /\ UNCHANGED <<server, clientSocket, retryTimer, timeout, waits>>

\* A bug to look for: the delay goes on growing from where it was.
LogonKeepsDelay(g) ==
    /\ at[g] = "logon"
    /\ IF g \in LogsOn
       THEN SendFree /\ AddSession(clientSocket[g])
       ELSE UNCHANGED <<sessions, ConnectedClients>>
    /\ timeout' = [timeout EXCEPT ![g] = RecvTimeout]
    /\ waits' = [waits EXCEPT ![g] = 0]
    /\ Continue(g, "receive")
    /\ UNCHANGED <<open, fd, pc, bc, pmtxSendFile, clientSocket, retryTimer, peer>>

\* With a user: the logon text and AddSession under pmtxSend.  A full table is
\* only logged.  Then the first turn of the loop, which resets the delay.
Logon(g) ==
    /\ at[g] = "logon"
    /\ IF g \in LogsOn
       THEN SendFree /\ AddSession(clientSocket[g])
       ELSE UNCHANGED <<sessions, ConnectedClients>>
    /\ retryTimer' = [retryTimer EXCEPT ![g] = 1]
    /\ timeout' = [timeout EXCEPT ![g] = RecvTimeout]
    /\ waits' = [waits EXCEPT ![g] = 0]
    /\ Continue(g, "receive")
    /\ UNCHANGED <<open, fd, pc, bc, pmtxSendFile, clientSocket, peer>>

\* A descriptor that was closed once too often and given out again is also
\* another thread's, whose characters arrive here then.
Shared(g) ==
    \/ \E t \in Threads : fd[t] = clientSocket[g]
    \/ \E h \in Igates \ {g} : at[h] \in {"receive", "drop"} /\ clientSocket[h] = clientSocket[g]

\* A character that counts, or the <CR> that ends a line and lets the loop
\* begin the next.  Line feeds and NULs change nothing.
ReceiveChar(g) ==
    /\ at[g] = "receive"
    /\ clientSocket[g] \in open
    /\ peer[g] = "up" \/ Shared(g)
    /\ retryTimer' = [retryTimer EXCEPT ![g] = 1]
    /\ timeout' = [timeout EXCEPT ![g] = RecvTimeout]
    /\ UNCHANGED <<server, at, clientSocket, peer, waits>>

\* A bug to look for: every turn of the loop starts the timer anew.
NothingToReceiveAnew(g) ==
    /\ at[g] = "receive"
    /\ clientSocket[g] \in open
    /\ timeout' = [timeout EXCEPT ![g] = RecvTimeout - 1]
    /\ UNCHANGED <<server, at, clientSocket, retryTimer, peer, waits>>

\* EWOULDBLOCK: sleep(1), and if(timeout-- <= 0) the connection is given up.
NothingToReceive(g) ==
    /\ at[g] = "receive"
    /\ clientSocket[g] \in open
    /\ IF timeout[g] <= 0
       THEN Continue(g, "drop") /\ UNCHANGED timeout
       ELSE UNCHANGED at /\ timeout' = [timeout EXCEPT ![g] = @ - 1]
    /\ UNCHANGED <<server, clientSocket, retryTimer, peer, waits>>

\* recv() returns 0, or an error, as it must when the descriptor is closed.
ReceiveFails(g) ==
    /\ at[g] = "receive"
    /\ clientSocket[g] \in open => peer[g] = "up" \/ Shared(g)
    /\ Continue(g, "drop")
    /\ UNCHANGED <<server, clientSocket, retryTimer, timeout, peer, waits>>

\* A bug to look for: the socket is closed and stays in the table.
DropKeepsSlot(g) ==
    /\ at[g] = "drop"
    /\ SendFree
    /\ open' = open \ {clientSocket[g]}
    /\ Continue(g, "sleep")
    /\ UNCHANGED <<sessions, ConnectedClients, fd, pc, bc, pmtxSendFile,
                   clientSocket, retryTimer, timeout, peer, waits>>

Drop(g) ==
    /\ at[g] = "drop"
    /\ SendFree
    /\ DeleteSession(clientSocket[g])
    /\ open' = open \ {clientSocket[g]}
    /\ Continue(g, "sleep")
    /\ UNCHANGED <<fd, pc, bc, pmtxSendFile,
                   clientSocket, retryTimer, timeout, peer, waits>>

\* A bug to look for: the delay is not limited.
RetryUnlimited(g) ==
    /\ at[g] = "sleep"
    /\ retryTimer' = [retryTimer EXCEPT ![g] = Min({32, 2 * @})]
    /\ waits' = [waits EXCEPT ![g] = Min({Len(Delays) - 1, @ + 1})]
    /\ Continue(g, "resolve")
    /\ UNCHANGED <<server, clientSocket, timeout, peer>>

\* sleep(retryTimer), after which it doubles, up to 16 minutes.
Retry(g) ==
    /\ at[g] = "sleep"
    /\ retryTimer' = [retryTimer EXCEPT ![g] = IF 2 * @ >= 16 THEN 16 ELSE 2 * @]
    /\ waits' = [waits EXCEPT ![g] = IF @ + 1 < Len(Delays) THEN @ + 1 ELSE @]
    /\ Continue(g, "resolve")
    /\ UNCHANGED <<server, clientSocket, timeout, peer>>

\* The other server, or the network to it, is gone without a word.
Vanish(g) ==
    /\ at[g] = "receive"
    /\ peer' = [peer EXCEPT ![g] = "vanished"]
    /\ UNCHANGED <<server, at, clientSocket, retryTimer, timeout, waits>>

recvline(g) ==
    \/ ReceiveChar(g)
    \/ NothingToReceive(g)
    \/ ReceiveFails(g)

TCPConnectThread(g) ==
    \/ Unresolved(g)
    \/ OpenSocket(g)
    \/ ConnectFails(g)
    \/ Connected(g)
    \/ Logon(g)
    \/ recvline(g)
    \/ Drop(g)
    \/ Retry(g)

Clients ==
    /\ \/ \E t \in Threads : Session(t)
       \/ BcStart
       \/ Walk
    /\ UNCHANGED igate

Servers == \E g \in Igates : TCPConnectThread(g) \/ Vanish(g)

IgNext == (Clients \/ Servers) /\ UNCHANGED welcomeFile

IgSpec == IgInit /\ [][IgNext]_igVars

\* recv() does not block and sleeps end; a walk over the table ends, and
\* pmtxSend, which Logon and Drop wait for, is free after each walk.
IgFairness ==
    /\ WF_igVars(Walk /\ UNCHANGED igate /\ UNCHANGED welcomeFile)
    /\ \A g \in Igates :
         /\ WF_igVars(recvline(g) /\ UNCHANGED welcomeFile)
         /\ WF_igVars(Retry(g) /\ UNCHANGED welcomeFile)
         /\ SF_igVars(Drop(g) /\ UNCHANGED welcomeFile)

IgFairSpec == IgSpec /\ IgFairness
------------------------------------------------------------------------------
IgTypeOK ==
    /\ TypeOK
    /\ at \in [Igates -> {"resolve", "connect", "logon", "receive", "drop", "sleep"}]
    /\ clientSocket \in [Igates -> Fds \cup {NoSocket}]
    /\ retryTimer \in [Igates -> 1 .. 16]
    /\ timeout \in [Igates -> 0 .. RecvTimeout]
    /\ peer \in [Igates -> {"up", "vanished"}]
    /\ waits \in [Igates -> 0 .. Len(Delays) - 1]

InTable(g) == at[g] \in {"receive", "drop"} /\ g \in LogsOn

\* Whoever connects, breaks off, is dumped and takes over the descriptors of
\* others: what DeQueue sends to is the socket of a client or of an IGATE that
\* is served by a thread of its own (aprsd.cpp 575-618, 2194, 2357).
TableHoldsLiveConnections ==
    \A i \in Occupied :
        \/ \E t \in Threads : pc[t] # "none" /\ fd[t] = sessions[i].Socket
        \/ \E g \in Igates : InTable(g) /\ clientSocket[g] = sessions[i].Socket

\* "After a connection drops it will attempt to reconnect after 1 minute. If
\* that attempt fails it will try again in 2 minutes. The time will double each
\* time until it hits 16 minutes." (aprsddoc.html 618-621, aprsd.cpp 2112-2383)
DelayFollowsFailures ==
    \A g \in Igates : at[g] = "sleep" => retryTimer[g] = Delays[waits[g] + 1]

\* A connection whose other end has silently gone is given up, taken out of
\* the table and tried again, however busy the table is, unless a client was
\* given its descriptor meanwhile (aprsd.cpp 2041-2050, 2356-2383).
DeadPeerIsNoticed ==
    \A g \in Igates :
        (at[g] = "receive" /\ peer[g] = "vanished") ~> (at[g] = "resolve" \/ Shared(g))
==============================================================================
