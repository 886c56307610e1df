------------------------------ MODULE SerialPort ------------------------------
(***************************************************************************)
(* The serial port of the TNC (serialp.cpp).  One thread, ReadCom, does    *)
(* all the input and output.  The others hand it their text in txbuffer:   *)
(* WriteCom fills it, sets txrdy and sleeps until ReadCom has cleared it,  *)
(* all under pmtxWriteTNC.                                                 *)
(*                                                                         *)
(* ReadCom collects what the TNC says in buf, a character at a time, and   *)
(* makes a packet of it at the end of a line or when the TNC pauses.  When *)
(* a sysop has the TNC each character goes to charQueue as well.           *)
(* TncSysopMode is set and cleared by the session threads at any moment    *)
(* (module TncSysop); ReadCom reads it for each character and once more    *)
(* before it makes a packet.                                               *)
(*                                                                         *)
(* main sets up the TNC before it completes the configuration.  When the   *)
(* operator quits, it writes to the TNC a last time and closes the port    *)
(* (SendFiletoTNC, serverQuit, AsyncClose).                                *)
(***************************************************************************)
EXTENDS TncMode, Naturals, Sequences

CONSTANTS
    Writers,  \* threads that call WriteCom: DeQueue, the sysops' sessions, main
    main,     \* the main thread, which writes when it starts and when it quits
    dequeue,  \* the thread DeQueue
    Nobody,
    BufLimit  \* BUFSIZE - 4, the characters kept of a line

ASSUME WritersAssumption == {main, dequeue} \subseteq Writers /\ Nobody \notin Writers
ASSUME BufLimitAssumption == BufLimit \in Nat \ {0}

VARIABLES
    pc,            \* where each writer is in WriteCom
    pmtxWriteTNC,  \* who holds the mutex
    txbuffer,      \* whose text is in it
    txrdy,
    written,       \* how often the text of each writer's call was sent
    rc,            \* where ReadCom is
    buf,           \* the characters kept of the line: the line each came from,
                   \* whether charQueue was given it too
    line,          \* the line the TNC is in, modulo 2
    packet,        \* the characters of the packet that was made just now
    configComplete,
    CloseAsync,
    ttySwrite, ttySread,  \* the two descriptors of the port are open
    phase          \* where main is; from "run" on the TNC counts as present

writing == <<pc, pmtxWriteTNC, txbuffer, txrdy, written>>
reading == <<rc, buf, line, packet>>
config  == <<TncSysopMode, configComplete>>
closing == <<CloseAsync, ttySwrite, ttySread, phase>>
vars == <<writing, reading, config, closing>>

Init ==
    /\ pc = [w \in Writers |-> "out"]
    /\ pmtxWriteTNC = Nobody
    /\ txbuffer = Nobody
    /\ txrdy = FALSE
    /\ written = [w \in Writers |-> 0]
    /\ rc = "tx"
    /\ buf = <<>>
    /\ line = 0
    /\ packet = <<>>
    /\ TncSysopMode = FALSE
    /\ configComplete = FALSE
    /\ CloseAsync = FALSE
    /\ ttySwrite = TRUE
    /\ ttySread = TRUE
    /\ phase = "setup"

Goto(w, l) == pc' = [pc EXCEPT ![w] = l]

------------------------------------------------------------------------------
\* main writes from SendFiletoTNC only.  DeQueue may write as soon as
\* tncPresent is set, a session when there are sessions.
MayWrite(w) ==
    CASE w = main    -> phase \in {"setup", "quit"}
      [] w = dequeue -> phase # "setup"
      [] OTHER       -> configComplete

\* WriteCom
Call(w) ==
    /\ pc[w] = "out"
    /\ MayWrite(w)
    /\ Goto(w, "lock")
    /\ written' = [written EXCEPT ![w] = 0]
    /\ UNCHANGED <<pmtxWriteTNC, txbuffer, txrdy, reading, config, closing>>

\* AsyncClose deletes the mutex when it has closed ttySwrite: it may hold
\* nobody back from then on.
Copy(w) ==
    /\ pc[w] = "lock"
    /\ pmtxWriteTNC = Nobody \/ ~ttySwrite
    /\ pmtxWriteTNC' = w
    /\ txbuffer' = w
    /\ Goto(w, "copied")
    /\ UNCHANGED <<txrdy, written, reading, config, closing>>

SetReady(w) ==
    /\ pc[w] = "copied"
    /\ txrdy' = TRUE
    /\ Goto(w, "wait")
    /\ UNCHANGED <<pmtxWriteTNC, txbuffer, written, reading, config, closing>>

\* main goes on when SendFiletoTNC returns.
Afterwards == IF phase = "setup" THEN "run" ELSE "restored"

\* Bugs to look for: nobody waits for ReadCom, or the mutex is kept.
ReturnAtOnce(w) ==
    /\ pc[w] = "wait"
    /\ pmtxWriteTNC' = Nobody
    /\ Goto(w, "out")
    /\ phase' = IF w = main THEN Afterwards ELSE phase
    /\ UNCHANGED <<txbuffer, txrdy, written, reading, config,
                   CloseAsync, ttySwrite, ttySread>>

ReturnLocked(w) ==
    /\ pc[w] = "wait"
    /\ ~txrdy
    /\ Goto(w, "out")
    /\ phase' = IF w = main THEN Afterwards ELSE phase
    /\ UNCHANGED <<pmtxWriteTNC, txbuffer, txrdy, written, reading, config,
                   CloseAsync, ttySwrite, ttySread>>

Return(w) ==
    /\ pc[w] = "wait"
    /\ ~txrdy
    /\ pmtxWriteTNC' = Nobody
    /\ Goto(w, "out")
    /\ phase' = IF w = main THEN Afterwards ELSE phase
    /\ UNCHANGED <<txbuffer, txrdy, written, reading, config,
                   CloseAsync, ttySwrite, ttySread>>

------------------------------------------------------------------------------
\* ReadCom
Nothing ==
    /\ rc = "tx"
    /\ ~txrdy
    /\ rc' = "read"
    /\ UNCHANGED <<writing, buf, line, packet, config, closing>>

\* write(ttySwrite,txbuffer,len)
Transmit ==
    /\ rc = "tx"
    /\ txrdy
    /\ rc' = "sent"
    /\ written' = IF ttySwrite /\ txbuffer # Nobody
                  THEN [written EXCEPT ![txbuffer] = @ + 1] ELSE written
    /\ UNCHANGED <<pc, pmtxWriteTNC, txbuffer, txrdy, buf, line, packet,
                   config, closing>>

ClearReady ==
    /\ rc = "sent"
    /\ txrdy' = FALSE
    /\ rc' = "read"
    /\ UNCHANGED <<pc, pmtxWriteTNC, txbuffer, written, buf, line, packet,
                   config, closing>>

Char(end) == [line |-> line, shown |-> TncSysopMode, end |-> end]

\* A bug to look for: buf is one character too short.
StoredLate(c) == IF Len(buf) <= BufLimit THEN Append(buf, c) ELSE <<>>

\* if (i < (BUFSIZE-4)) buf[i++] = c; else i = 0;
Stored(c) == IF Len(buf) < BufLimit THEN Append(buf, c) ELSE <<>>

\* A bug to look for: in single char mode the whole line is kept.
KeepAll(c) == Stored(c)

\* if (TncSysopMode) i = 1; the first character of the line stays in its place.
Keep(c) ==
    IF TncSysopMode THEN <<IF buf = <<>> THEN c ELSE buf[1]>> ELSE Stored(c)

\* A character within a line.  When ttySread has been closed read() returns -1,
\* which as a size_t counts as a character too.
ReadChar ==
    /\ rc = "read"
    /\ buf' = Keep(Char(FALSE))
    /\ packet' = <<>>
    /\ rc' = "tx"
    /\ UNCHANGED <<writing, line, config, closing>>

\* <CR> or <LF>
ReadEnd ==
    /\ rc = "read"
    /\ ttySread
    /\ buf' = Keep(Char(TRUE))
    /\ line' = 1 - line
    /\ packet' = <<>>
    /\ rc' = "end"
    /\ UNCHANGED <<writing, config, closing>>

\* The TNC says nothing for 0.1 seconds.  If it stopped within a line, what
\* there is of it is taken for a line.
Pause ==
    /\ rc = "read"
    /\ ttySread
    /\ ~CloseAsync
    /\ packet' = <<>>
    /\ rc' = IF buf = <<>> THEN "tx" ELSE "timeout"
    /\ UNCHANGED <<writing, buf, line, config, closing>>

\* if (CloseAsync) pthread_exit(0);
ReadComExit ==
    /\ rc = "read"
    /\ ttySread
    /\ CloseAsync
    /\ rc' = "exited"
    /\ UNCHANGED <<writing, buf, line, packet, config, closing>>

\* What the packet is made of: buf[i-1] is overwritten by the <CR> at the end
\* of a line.
Said == IF rc = "timeout" THEN buf ELSE SubSeq(buf, 1, Len(buf) - 1)

IsLine == buf # <<>> /\ ~buf[1].end

\* A bug to look for: i is reset when a packet was made only.
MakePacketKeepRest ==
    /\ rc \in {"end", "timeout"}
    /\ IF IsLine /\ ~TncSysopMode /\ configComplete
       THEN packet' = Said /\ buf' = <<>>
       ELSE UNCHANGED <<packet, buf>>
    /\ rc' = IF phase = "closed" THEN "exited" ELSE "tx"
    /\ UNCHANGED <<writing, line, config, closing>>

\* The packet is handed to sendQueue (module PacketFlow); i = 0.  The outer
\* loop ends when ShutDownServer is set.
MakePacket ==
    /\ rc \in {"end", "timeout"}
    /\ packet' = IF IsLine /\ ~TncSysopMode /\ configComplete
                 THEN Said ELSE packet
    /\ buf' = <<>>
    /\ rc' = IF phase = "closed" THEN "exited" ELSE "tx"
    /\ UNCHANGED <<writing, line, config, closing>>

ReadCom ==
    \/ Nothing \/ Transmit \/ ClearReady
    \/ ReadChar \/ ReadEnd \/ Pause \/ ReadComExit
    \/ MakePacket

------------------------------------------------------------------------------
\* The session threads give the TNC to a sysop and take it back.  They start
\* when main has completed the configuration, and set up the TNC.
Divert ==
    /\ configComplete
    /\ TncSysopMode' = ~TncSysopMode
    /\ UNCHANGED <<writing, reading, configComplete, closing>>

Configured ==
    /\ phase = "run"
    /\ ~configComplete
    /\ configComplete' = TRUE
    /\ UNCHANGED <<writing, reading, TncSysopMode, closing>>

\* SendFiletoTNC calls WriteCom for a ctrl-C, then writes the lines of the file
\* itself; it does nothing if it cannot open the file.
NoFileForTNC ==
    /\ phase \in {"setup", "quit"}
    /\ pc[main] = "out"
    /\ phase' = Afterwards
    /\ UNCHANGED <<writing, reading, config, CloseAsync, ttySwrite, ttySread>>

\* serverQuit: SendFiletoTNC, then AsyncClose, and the process ends.
Quit ==
    /\ phase = "run"
    /\ configComplete
    /\ phase' = "quit"
    /\ UNCHANGED <<writing, reading, config, CloseAsync, ttySwrite, ttySread>>

\* while(threadAck = FALSE) does not wait for ReadCom.
Close ==
    /\ phase = "restored"
    /\ CloseAsync' = TRUE
    /\ phase' = "close"
    /\ UNCHANGED <<writing, reading, config, ttySwrite, ttySread>>

\* close(ttySwrite); delete pmtxWriteTNC;
CloseWrite ==
    /\ phase = "close"
    /\ ttySwrite
    /\ ttySwrite' = FALSE
    /\ UNCHANGED <<writing, reading, config, CloseAsync, ttySread, phase>>

\* close(ttySread); ShutDownServer = TRUE;
CloseRead ==
    /\ phase = "close"
    /\ ~ttySwrite
    /\ ttySread' = FALSE
    /\ phase' = "closed"
    /\ UNCHANGED <<writing, reading, config, CloseAsync, ttySwrite>>

Next ==
    \/ \E w \in Writers : Call(w) \/ Copy(w) \/ SetReady(w) \/ Return(w)
    \/ ReadCom
    \/ Divert \/ Configured
    \/ NoFileForTNC \/ Quit \/ Close \/ CloseWrite \/ CloseRead

Spec == Init /\ [][Next]_vars

\* The serial port always answers within 0.1 seconds, if only with nothing.
\* Who waits for pmtxWriteTNC time and again when it is free gets it: DeQueue
\* and a sysop's session do other things between two calls.
Fairness ==
    /\ WF_vars(ReadCom)
    /\ \A w \in Writers : SF_vars(Copy(w)) /\ WF_vars(SetReady(w)) /\ WF_vars(Return(w))

FairSpec == Spec /\ Fairness
------------------------------------------------------------------------------
Chars == [line : {0, 1}, shown : BOOLEAN, end : BOOLEAN]

WritingOK ==
    /\ pc \in [Writers -> {"out", "lock", "copied", "wait"}]
    /\ pmtxWriteTNC \in Writers \cup {Nobody}
    /\ txbuffer \in Writers \cup {Nobody}
    /\ txrdy \in BOOLEAN
    /\ written \in [Writers -> Nat]

ReadingOK ==
    /\ rc \in {"tx", "sent", "read", "end", "timeout", "exited"}
    /\ buf \in Seq(Chars) /\ Len(buf) <= BufLimit
    /\ packet \in Seq(Chars)
    /\ line \in {0, 1}

FlagsOK ==
    /\ TncSysopMode \in BOOLEAN /\ configComplete \in BOOLEAN
    /\ CloseAsync \in BOOLEAN /\ ttySwrite \in BOOLEAN /\ ttySread \in BOOLEAN
    /\ phase \in {"setup", "run", "quit", "restored", "close", "closed"}

TypeOK == WritingOK /\ ReadingOK /\ FlagsOK

\* Whoever returns from WriteCom had its text sent to the TNC exactly once -
\* not zero times, not twice, not another's text - unless the port was closed
\* meanwhile (serialp.cpp 237-256, 308-313).
SentExactlyOnce ==
    [][\A w \in Writers :
         pc[w] = "wait" /\ pc'[w] = "out" /\ ttySwrite => written[w] = 1]_vars

\* A packet is never made of the pieces of two lines, wherever the TNC pauses
\* and whenever a sysop comes and goes (serialp.cpp 339-344, 368, 432).
PacketOfOneLine ==
    \A i, j \in DOMAIN packet : packet[i].line = packet[j].line

\* Of what was shown to a sysop, at most the first character of a line gets
\* into a packet: everything behind it is dropped (serialp.cpp 340-344).
DivertedIsNotGated == \A i \in DOMAIN packet : packet[i].shown => i = 1

\* Nobody is stuck in WriteCom while the port is open, whatever the TNC says
\* or does not say (serialp.cpp 250, 308-318).
WriteComReturns ==
    \A w \in Writers : pc[w] = "lock" ~> pc[w] = "out" \/ CloseAsync
==============================================================================
