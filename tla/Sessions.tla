------------------------------- MODULE Sessions -------------------------------
(***************************************************************************)
(* The table of connected clients (aprsd.cpp: sessions[], AddSession,      *)
(* DeleteSession), the threads that live in it (TCPSessionThread with      *)
(* SendFiletoClient and endSession) and the thread that walks it           *)
(* (DeQueue's SendToAllClients).                                           *)
(*                                                                         *)
(* AddSession and DeleteSession run under pmtxAddDelSess and are atomic.   *)
(* SendToAllClients holds pmtxSend for its whole walk, and reads           *)
(* sessions[i].Socket anew for the test, for send(), for DeleteSession(),  *)
(* and for shutdown() and close(), each of which is a step of its own:     *)
(* a session thread may call AddSession or DeleteSession in between, since *)
(* only endSession takes pmtxSend as well.                                 *)
(*                                                                         *)
(* Sockets are file descriptors: accept() returns the lowest closed one,   *)
(* so a descriptor closed once too often is another client's.              *)
(***************************************************************************)
EXTENDS Integers, FiniteSets, FiniteSetsExt

CONSTANTS
    Threads,      \* TCPSessionThread instances that may exist at a time
    Fds,          \* file descriptors, positive integers
    MaxClients,   \* size of the table
    MaxOverruns,  \* 50: packets in a row a client may fail to take
    Shufflers     \* threads of users who leave and rejoin the table while
                  \* connected: with <Esc>, or as a "monitor" program

ASSUME FdsAssumption == Fds \subseteq Nat
ASSUME MaxClientsAssumption == MaxClients \in Nat \ {0}

VARIABLES
    sessions,          \* the table
    ConnectedClients,  \* the number of users the server reports
    open,              \* the descriptors that are open
    fd,                \* the descriptor each thread was started with
    pc,                \* what each session thread does
    bc,                \* DeQueue in SendToAllClients
    pmtxSendFile,      \* who holds the lock around SendFiletoClient
    welcomeFile        \* whether welcome.txt is there; nothing changes it

server == <<sessions, ConnectedClients, open, fd, pc, bc, pmtxSendFile>>
vars == <<server, welcomeFile>>

Slots == 0 .. MaxClients - 1
NoSocket == -1
Free == [Socket |-> NoSocket, overruns |-> 0]
Nobody == "nobody"

Init ==
    /\ sessions = [i \in Slots |-> Free]
    /\ ConnectedClients = 0
    /\ open = {}
    /\ fd = [t \in Threads |-> NoSocket]
    /\ pc = [t \in Threads |-> "none"]
    /\ bc = [at |-> "idle", i |-> 0, bad |-> NoSocket]
    /\ pmtxSendFile = Nobody
    /\ welcomeFile \in BOOLEAN

SlotsOf(s) == {i \in Slots : sessions[i].Socket = s}
Occupied == Slots \ SlotsOf(NoSocket)

\* pmtxSend is held by DeQueue from the first slot to the last, and by the
\* session threads within single actions.
SendFree == bc.at = "idle"

Goto(t, l) == pc' = [pc EXCEPT ![t] = l]

\* if (sessions[i].Socket == -1) break; for the first such i, if any.
AddSession(s) ==
    IF SlotsOf(NoSocket) = {}
    THEN UNCHANGED <<sessions, ConnectedClients>>
    ELSE /\ sessions' = [sessions EXCEPT ![Min(SlotsOf(NoSocket))] =
                                       [Socket |-> s, overruns |-> 0]]
         /\ ConnectedClients' = ConnectedClients + 1

\* Bugs to look for: the count may become negative, or counts calls and not
\* slots.
DeleteSessionUnclamped(s) ==
    /\ sessions' = [i \in Slots |->
           IF sessions[i].Socket = s
           THEN [sessions[i] EXCEPT !.Socket = NoSocket] ELSE sessions[i]]
    /\ ConnectedClients' = ConnectedClients - Cardinality(SlotsOf(s))

DeleteSessionCountsOne(s) ==
    /\ sessions' = [i \in Slots |->
           IF sessions[i].Socket = s
           THEN [sessions[i] EXCEPT !.Socket = NoSocket] ELSE sessions[i]]
    /\ ConnectedClients' = Max({0, ConnectedClients - 1})

\* Every slot whose Socket is s, also when s is -1.
DeleteSession(s) ==
    /\ sessions' = [i \in Slots |->
           IF sessions[i].Socket = s
           THEN [sessions[i] EXCEPT !.Socket = NoSocket] ELSE sessions[i]]
    /\ ConnectedClients' = Max({0, ConnectedClients - Cardinality(SlotsOf(s))})

------------------------------------------------------------------------------
\* TCPServerThread accepts a connection and starts a session thread.
Accept(t) ==
    /\ pc[t] = "none"
    /\ Fds \ open # {}
    /\ LET s == Min(Fds \ open) IN
         /\ open' = open \cup {s}
         /\ fd' = [fd EXCEPT ![t] = s]
    /\ Goto(t, "greet")
    /\ UNCHANGED <<sessions, ConnectedClients, bc, pmtxSendFile>>

\* The sign-on text, the beacon and the history, each a send() that can fail.
Greet(t) ==
    /\ pc[t] = "greet"
    /\ SendFree
    /\ \/ fd[t] \in open /\ Goto(t, "welcome")
       \/ Goto(t, "end")
    /\ UNCHANGED <<sessions, ConnectedClients, open, fd, bc, pmtxSendFile>>

LockSendFile(t) ==
    /\ pc[t] = "welcome"
    /\ pmtxSendFile = Nobody
    /\ pmtxSendFile' = t
    /\ Goto(t, "sendfile")
    /\ UNCHANGED <<sessions, ConnectedClients, open, fd, bc>>

\* SendFiletoClient returns -1 as soon as the file cannot be opened, and does
\* not give the lock back.
FileMissing(t) ==
    /\ pc[t] = "sendfile"
    /\ ~welcomeFile
    /\ Goto(t, "end")
    /\ UNCHANGED <<sessions, ConnectedClients, open, fd, bc, pmtxSendFile>>

FileSent(t) ==
    /\ pc[t] = "sendfile"
    /\ welcomeFile
    /\ SendFree
    /\ fd[t] \in open
    /\ pmtxSendFile' = Nobody
    /\ Goto(t, "add")
    /\ UNCHANGED <<sessions, ConnectedClients, open, fd, bc>>

\* A bug to look for: the lock is not given back when send() fails.
FileFailsLocked(t) ==
    /\ pc[t] = "sendfile"
    /\ welcomeFile
    /\ SendFree
    /\ open' = open \ {fd[t]}
    /\ Goto(t, "end")
    /\ UNCHANGED <<sessions, ConnectedClients, fd, bc, pmtxSendFile>>

\* When send() fails, SendFiletoClient closes the socket, and endSession will
\* close it again.
FileFails(t) ==
    /\ pc[t] = "sendfile"
    /\ welcomeFile
    /\ SendFree
    /\ open' = open \ {fd[t]}
    /\ pmtxSendFile' = Nobody
    /\ Goto(t, "end")
    /\ UNCHANGED <<sessions, ConnectedClients, fd, bc>>

\* The session joins the table, or is told that the server is full.
Join(t) ==
    /\ pc[t] = "add"
    /\ AddSession(fd[t])
    /\ Goto(t, IF SlotsOf(NoSocket) = {} THEN "end" ELSE "online")
    /\ UNCHANGED <<open, fd, bc, pmtxSendFile>>

\* <Esc> takes the session out of the table while its user logs on to the TNC.
EnterTnc(t) ==
    /\ pc[t] = "online"
    /\ t \in Shufflers
    /\ DeleteSession(fd[t])
    /\ Goto(t, "tnc")
    /\ UNCHANGED <<open, fd, bc, pmtxSendFile>>

\* <Esc> again, or a wrong password: back into the table, if there is room.
LeaveTnc(t) ==
    /\ pc[t] = "tnc"
    /\ AddSession(fd[t])
    /\ Goto(t, "online")
    /\ UNCHANGED <<open, fd, bc, pmtxSendFile>>

\* A good password while another session has the TNC: the session is added to
\* the table but stays where it is, since "State == BASE;" assigns nothing.
TncBusy(t) ==
    /\ pc[t] = "tnc"
    /\ \E u \in Threads \ {t} : pc[u] = "tnc"
    /\ AddSession(fd[t])
    /\ UNCHANGED <<open, fd, pc, bc, pmtxSendFile>>

\* A "monitor" program logs on: DeleteSession, then AddSession.
MonitorLogon(t) ==
    /\ pc[t] = "online"
    /\ t \in Shufflers
    /\ DeleteSession(fd[t])
    /\ Goto(t, "rejoin")
    /\ UNCHANGED <<open, fd, bc, pmtxSendFile>>

Rejoin(t) ==
    /\ pc[t] = "rejoin"
    /\ AddSession(fd[t])
    /\ Goto(t, "online")
    /\ UNCHANGED <<open, fd, bc, pmtxSendFile>>

\* The client hangs up or its socket fails.
HangUp(t) ==
    /\ pc[t] \in {"online", "tnc"}
    /\ Goto(t, "end")
    /\ UNCHANGED <<sessions, ConnectedClients, open, fd, bc, pmtxSendFile>>

\* A bug to look for: the socket is closed and stays in the table.
endSessionKeepsSlot(t) ==
    /\ pc[t] = "end"
    /\ SendFree
    /\ open' = open \ {fd[t]}
    /\ fd' = [fd EXCEPT ![t] = NoSocket]
    /\ Goto(t, "none")
    /\ UNCHANGED <<sessions, ConnectedClients, bc, pmtxSendFile>>

endSession(t) ==
    /\ pc[t] = "end"
    /\ SendFree
    /\ DeleteSession(fd[t])
    /\ open' = open \ {fd[t]}
    /\ fd' = [fd EXCEPT ![t] = NoSocket]
    /\ Goto(t, "none")
    /\ UNCHANGED <<bc, pmtxSendFile>>

------------------------------------------------------------------------------
\* SendToAllClients.  Which slots want the packet is left open.
NextSlot ==
    bc' = IF bc.i + 1 = MaxClients
          THEN [at |-> "idle", i |-> 0, bad |-> NoSocket]
          ELSE [at |-> "scan", i |-> bc.i + 1, bad |-> NoSocket]

BcStart ==
    /\ SendFree
    /\ bc' = [bc EXCEPT !.at = "scan", !.i = 0]
    /\ UNCHANGED <<sessions, ConnectedClients, open, fd, pc, pmtxSendFile>>

BcSkip ==
    /\ bc.at = "scan"
    /\ NextSlot
    /\ UNCHANGED <<sessions, ConnectedClients, open, fd, pc, pmtxSendFile>>

BcSelect ==
    /\ bc.at = "scan"
    /\ sessions[bc.i].Socket # NoSocket
    /\ bc' = [bc EXCEPT !.at = "send"]
    /\ UNCHANGED <<sessions, ConnectedClients, open, fd, pc, pmtxSendFile>>

BcSent ==
    /\ bc.at = "send"
    /\ sessions[bc.i].Socket \in open
    /\ sessions' = [sessions EXCEPT ![bc.i].overruns = 0]
    /\ NextSlot
    /\ UNCHANGED <<ConnectedClients, open, fd, pc, pmtxSendFile>>

\* EAGAIN: the client does not take the data now.
BcAgain ==
    /\ bc.at = "send"
    /\ sessions[bc.i].Socket \in open
    /\ sessions' = [sessions EXCEPT ![bc.i].overruns = @ + 1]
    /\ IF sessions[bc.i].overruns + 1 >= MaxOverruns
       THEN bc' = [bc EXCEPT !.at = "dump", !.bad = sessions[bc.i].Socket]
       ELSE NextSlot
    /\ UNCHANGED <<ConnectedClients, open, fd, pc, pmtxSendFile>>

\* Any other error; certain when the descriptor is closed, or is -1 by now.
BcError ==
    /\ bc.at = "send"
    /\ bc' = [bc EXCEPT !.at = "dump", !.bad = sessions[bc.i].Socket]
    /\ UNCHANGED <<sessions, ConnectedClients, open, fd, pc, pmtxSendFile>>

BcDump ==
    /\ bc.at = "dump"
    /\ DeleteSession(sessions[bc.i].Socket)
    /\ bc' = [bc EXCEPT !.at = "close"]
    /\ UNCHANGED <<open, fd, pc, pmtxSendFile>>

\* shutdown(sessions[i].Socket), close(sessions[i].Socket).
BcClose ==
    /\ bc.at = "close"
    /\ open' = open \ {sessions[bc.i].Socket}
    /\ NextSlot
    /\ UNCHANGED <<sessions, ConnectedClients, fd, pc, pmtxSendFile>>

Walk == BcSkip \/ BcSelect \/ BcSent \/ BcAgain \/ BcError \/ BcDump \/ BcClose

Greeting(t) ==
    \/ Greet(t)
    \/ LockSendFile(t)
    \/ FileMissing(t)
    \/ FileSent(t)
    \/ FileFails(t)
    \/ Join(t)
    \/ endSession(t)

Session(t) ==
    \/ Accept(t)
    \/ Greeting(t)
    \/ EnterTnc(t)
    \/ LeaveTnc(t)
    \/ TncBusy(t)
    \/ MonitorLogon(t)
    \/ Rejoin(t)
    \/ HangUp(t)

Next ==
    /\ \/ \E t \in Threads : Session(t)
       \/ BcStart
       \/ Walk
    /\ UNCHANGED welcomeFile

Spec == Init /\ [][Next]_vars

\* A walk over the table ends, since send() does not block.  A thread that
\* waits for a mutex time and again finds it free gets it in the end: the
\* holders of pmtxSend sleep between two walks (DeQueue waits for sendQueue).
Fairness ==
    /\ WF_server(Walk)
    /\ \A t \in Threads : SF_server(Greeting(t))

FairSpec == Spec /\ Fairness
------------------------------------------------------------------------------
TypeOK ==
    /\ sessions \in [Slots -> [Socket : Fds \cup {NoSocket}, overruns : Nat]]
    /\ ConnectedClients \in Nat
    /\ open \subseteq Fds
    /\ fd \in [Threads -> Fds \cup {NoSocket}]
    /\ pc \in [Threads -> {"none", "greet", "welcome", "sendfile", "add",
                           "online", "tnc", "rejoin", "end"}]
    /\ bc \in [at : {"idle", "scan", "send", "dump", "close"},
               i : Slots, bad : Fds \cup {NoSocket}]
    /\ pmtxSendFile \in Threads \cup {Nobody}
    /\ welcomeFile \in BOOLEAN

\* No slot outlives the session it was filled for: whatever order threads
\* join, leave and are dumped in, a Socket in the table is the descriptor of
\* a session thread that has not ended (aprsd.cpp 599-618, 988-1058).
NoSlotOutlivesItsSession ==
    \A i \in Occupied : \E t \in Threads :
        pc[t] # "none" /\ fd[t] = sessions[i].Socket

\* The number of users reported is never above the number of table entries,
\* however DeleteSession calls and dumps interleave (aprsd.cpp 587, 610-611).
CountNeverOverstates == ConnectedClients <= Cardinality(Occupied)

\* "Take it out of the list", "Close the offending socket" (aprsd.cpp
\* 696-698): the socket that failed is closed, and no other.
OffenderIsClosed == [][BcClose => open' = open \ {bc.bad}]_vars

\* A client that was accepted is online or disconnected before long: no
\* session hangs in its greeting, whoever holds pmtxSend and pmtxSendFile
\* meanwhile, as long as there is a welcome.txt (aprsd.cpp 1161-1213,
\* 2427-2479).
GreetingEnds ==
    welcomeFile =>
        \A t \in Threads : pc[t] = "greet" ~> pc[t] \in {"online", "none"}
==============================================================================
