-------------------------- MODULE SerialPort_proofs --------------------------
(***************************************************************************)
(* The serial port, for any number of writers and any length of a line:    *)
(* its types, that a packet is made of one line and of nothing that was    *)
(* shown to a sysop, and that WriteCom sends each text exactly once.  At   *)
(* the end, the same for the sysops who have the TNC (module TncSysop).    *)
(***************************************************************************)
EXTENDS SerialPort, TncSysop, SequenceTheorems, TLAPS

USE WritersAssumption, BufLimitAssumption

LEMMA CharIsChar ==
    ASSUME TypeOK, NEW e \in BOOLEAN
    PROVE  /\ Char(e) \in Chars
           /\ Char(e).line = line /\ Char(e).shown = TncSysopMode
  BY DEF TypeOK, ReadingOK, FlagsOK, Char, Chars

\* What is kept of a line after one more character: all of it and the
\* character, its first character only, or nothing.
LEMMA KeepEffect ==
    ASSUME TypeOK, NEW c \in Chars
    PROVE  /\ Keep(c) \in Seq(Chars)
           /\ Len(Keep(c)) <= BufLimit
           /\ \A i \in DOMAIN Keep(c) :
                 Keep(c)[i] = c \/ (i \in DOMAIN buf /\ Keep(c)[i] = buf[i])
           /\ TncSysopMode => \A i \in DOMAIN Keep(c) : i = 1
<1>1. buf \in Seq(Chars) /\ Len(buf) \in Nat /\ Len(buf) <= BufLimit
  BY DEF TypeOK, ReadingOK
<1>2. CASE TncSysopMode
  <2>1. PICK d \in Chars : Keep(c) = <<d>> /\ (d = c \/ (buf # <<>> /\ d = buf[1]))
    BY <1>1, <1>2 DEF Keep
  <2> QED
    BY <1>1, <2>1
<1>3. CASE ~TncSysopMode /\ Len(buf) < BufLimit
  <2>1. Keep(c) = Append(buf, c)
    BY <1>3 DEF Keep, Stored
  <2> QED
    BY <1>1, <1>3, <2>1
<1>4. CASE ~TncSysopMode /\ ~(Len(buf) < BufLimit)
  <2>1. Keep(c) = <<>>
    BY <1>4 DEF Keep, Stored
  <2> QED
    BY <2>1
<1> QED
  BY <1>2, <1>3, <1>4

\* The packet is the beginning of what was kept.
LEMMA SaidEffect ==
    ASSUME TypeOK, IsLine
    PROVE  /\ Said \in Seq(Chars)
           /\ \A i \in DOMAIN Said : i \in DOMAIN buf /\ Said[i] = buf[i]
<1>1. buf \in Seq(Chars) /\ Len(buf) \in Nat \ {0}
  BY DEF TypeOK, ReadingOK, IsLine
<1>2. CASE rc = "timeout"
  BY <1>1, <1>2 DEF Said
<1>3. CASE rc # "timeout"
  <2>1. Said = SubSeq(buf, 1, Len(buf) - 1)
    BY <1>3 DEF Said
  <2>2. \A i \in 1 .. Len(buf) - 1 : buf[i] \in Chars
    BY <1>1
  <2> QED
    BY <1>1, <2>1, <2>2
<1> QED
  BY <1>2, <1>3

------------------------------------------------------------------------------
\* Line by line: what is in buf came from the line the TNC is in, or, at its
\* end, from the one it has just left.
BufOfOneLine ==
    \A i \in DOMAIN buf : buf[i].line = IF rc = "end" THEN 1 - line ELSE line

\* The characters behind the first that a sysop saw are not kept.
ShownIsFirst == \A i \in DOMAIN buf : buf[i].shown => i = 1

ReadInv ==
    /\ TypeOK
    /\ BufOfOneLine /\ ShownIsFirst
    /\ PacketOfOneLine /\ DivertedIsNotGated

\* Who is between the two ends of WriteCom's critical section.
Inside == {w \in Writers : pc[w] \in {"copied", "wait"}}

\* Until AsyncClose deletes the mutex: one writer at a time is inside, the text
\* in txbuffer is its own, and txrdy and the position of ReadCom tell how often
\* it was sent.  Nothing is to be sent when nobody is inside.
WriteInv ==
    ttySwrite =>
        /\ \A w \in Writers : pc[w] = "lock" => written[w] = 0
        /\ \A w \in Inside :
              /\ pmtxWriteTNC = w /\ txbuffer = w
              /\ pc[w] = "copied" => ~txrdy
              /\ written[w] = IF pc[w] = "wait" /\ (rc = "sent" \/ ~txrdy) THEN 1 ELSE 0
        /\ rc = "sent" => txrdy
        /\ txrdy => \E w \in Writers : pc[w] = "wait"

IInv == ReadInv /\ WriteInv

------------------------------------------------------------------------------
\* The writers' steps change nothing that is read.
LEMMA WritersKeepTypes ==
    ASSUME TypeOK, NEW w \in Writers, Call(w) \/ Copy(w) \/ SetReady(w) \/ Return(w)
    PROVE  TypeOK'
<1>1. UNCHANGED <<reading, config>>
  BY DEF Call, Copy, SetReady, Return
<1>2. ReadingOK'
  BY <1>1 DEF TypeOK, reading, ReadingOK
<1>3. FlagsOK'
  BY <1>1 DEF TypeOK, config, FlagsOK, Call, Copy, SetReady, Return, closing,
     Afterwards
<1>4. WritingOK'
  <2> USE DEF TypeOK, WritingOK, Goto
  <2>1. CASE Call(w)
    BY <2>1 DEF Call
  <2>2. CASE Copy(w)
    BY <2>2 DEF Copy
  <2>3. CASE SetReady(w)
    BY <2>3 DEF SetReady
  <2>4. CASE Return(w)
    BY <2>4 DEF Return
  <2> QED
    BY <2>1, <2>2, <2>3, <2>4
<1> QED
  BY <1>2, <1>3, <1>4 DEF TypeOK

LEMMA ReadComKeepsTypes ==
    ASSUME TypeOK, ReadCom
    PROVE  TypeOK'
<1>1. UNCHANGED <<config, closing>>
  BY DEF ReadCom, Nothing, Transmit, ClearReady, ReadChar, ReadEnd, Pause, ReadComExit,
     MakePacket
<1>2. FlagsOK'
  BY <1>1 DEF TypeOK, FlagsOK, config, closing
<1>3. CASE Nothing \/ Pause \/ ReadComExit
  <2>1. WritingOK'
    BY <1>3 DEF TypeOK, WritingOK, Nothing, Pause, ReadComExit, writing
  <2>2. ReadingOK'
    BY <1>3, EmptySeq DEF TypeOK, ReadingOK, Nothing, Pause, ReadComExit
  <2> QED
    BY <1>2, <2>1, <2>2 DEF TypeOK
<1>4. CASE Transmit \/ ClearReady
  <2>1. WritingOK'
    <3>1. written' \in [Writers -> Nat]
      BY <1>4 DEF TypeOK, WritingOK, Transmit, ClearReady
    <3>2. UNCHANGED <<pc, pmtxWriteTNC, txbuffer>> /\ txrdy' \in BOOLEAN
      BY <1>4 DEF TypeOK, WritingOK, Transmit, ClearReady
    <3> QED
      BY <3>1, <3>2 DEF TypeOK, WritingOK
  <2>2. ReadingOK'
    BY <1>4 DEF TypeOK, ReadingOK, Transmit, ClearReady
  <2> QED
    BY <1>2, <2>1, <2>2 DEF TypeOK
<1>5. CASE ReadChar \/ ReadEnd
  <2>1. PICK c \in Chars : buf' = Keep(c)
    BY <1>5, CharIsChar DEF ReadChar, ReadEnd
  <2>2. buf' \in Seq(Chars) /\ Len(buf') <= BufLimit
    BY <2>1, KeepEffect
  <2>3. packet' \in Seq(Chars)
    BY <1>5, EmptySeq DEF ReadChar, ReadEnd
  <2>4. rc' \in {"tx", "end"} /\ line' \in {0, 1}
    <3>1. rc' \in {"tx", "end"} /\ (line' = line \/ line' = 1 - line)
      BY <1>5 DEF ReadChar, ReadEnd
    <3> QED
      BY <3>1 DEF TypeOK, ReadingOK
  <2>5. WritingOK'
    BY <1>5 DEF TypeOK, WritingOK, ReadChar, ReadEnd, writing
  <2> QED
    BY <1>2, <2>2, <2>3, <2>4, <2>5 DEF TypeOK, ReadingOK
<1>6. CASE MakePacket
  <2>1. packet' \in Seq(Chars)
    BY <1>6, SaidEffect DEF MakePacket, TypeOK, ReadingOK
  <2>2. buf' \in Seq(Chars) /\ Len(buf') <= BufLimit
    BY <1>6, EmptySeq DEF MakePacket
  <2>3. rc' \in {"tx", "exited"} /\ line' \in {0, 1}
    BY <1>6 DEF MakePacket, TypeOK, ReadingOK
  <2>4. WritingOK'
    BY <1>6 DEF TypeOK, WritingOK, MakePacket, writing
  <2> QED
    BY <1>2, <2>1, <2>2, <2>3, <2>4 DEF TypeOK, ReadingOK
<1> QED
  BY <1>3, <1>4, <1>5, <1>6 DEF ReadCom

LEMMA ReadComKeepsLines ==
    ASSUME ReadInv, ReadCom
    PROVE  BufOfOneLine' /\ ShownIsFirst' /\ PacketOfOneLine' /\ DivertedIsNotGated'
<1> USE DEF ReadInv, BufOfOneLine, ShownIsFirst, PacketOfOneLine, DivertedIsNotGated
<1>1. CASE Nothing \/ Transmit \/ ClearReady
  BY <1>1 DEF Nothing, Transmit, ClearReady
<1>2. CASE ReadChar \/ ReadEnd
  <2>1. PICK c \in Chars : buf' = Keep(c) /\ c.line = line /\ c.shown = TncSysopMode
    BY <1>2, CharIsChar DEF ReadChar, ReadEnd
  <2>2. \A i \in DOMAIN buf' :
          buf'[i] = c \/ (i \in DOMAIN buf /\ buf'[i] = buf[i])
    BY <2>1, KeepEffect
  <2>3. TncSysopMode => \A i \in DOMAIN buf' : i = 1
    BY <2>1, KeepEffect
  <2>4. \A i \in DOMAIN buf' : buf'[i].line = line
    BY <1>2, <2>1, <2>2 DEF ReadChar, ReadEnd
  <2>5. BufOfOneLine'
    <3>1. CASE ReadChar
      BY <2>4, <3>1 DEF ReadChar
    <3>2. CASE ReadEnd
      <4>1. line' = 1 - line /\ rc' = "end" /\ line \in {0, 1}
        BY <3>2 DEF ReadEnd, TypeOK, ReadingOK
      <4> QED
        BY <2>4, <4>1
    <3> QED
      BY <1>2, <3>1, <3>2
  <2>6. ShownIsFirst'
    <3> SUFFICES ASSUME NEW i \in DOMAIN buf', buf'[i].shown PROVE i = 1
      OBVIOUS
    <3>1. CASE TncSysopMode
      BY <3>1, <2>3
    <3>2. CASE ~TncSysopMode
      <4>1. buf'[i] # c
        BY <2>1, <3>2
      <4> QED
        BY <4>1, <2>2
    <3> QED
      BY <3>1, <3>2
  <2>7. packet' = <<>>
    BY <1>2 DEF ReadChar, ReadEnd
  <2> QED
    BY <2>5, <2>6, <2>7
<1>3. CASE Pause \/ ReadComExit
  BY <1>3 DEF Pause, ReadComExit
<1>4. CASE MakePacket
  <2>1. buf' = <<>>
    BY <1>4 DEF MakePacket
  <2>2. CASE packet' = packet
    BY <2>1, <2>2
  <2>3. CASE IsLine /\ packet' = Said
    BY <2>1, <2>3, SaidEffect
  <2> QED
    BY <1>4, <2>2, <2>3 DEF MakePacket
<1> QED
  BY <1>1, <1>2, <1>3, <1>4 DEF ReadCom

LEMMA WritersKeepWriteInv ==
    ASSUME TypeOK, WriteInv, NEW w \in Writers,
           Call(w) \/ Copy(w) \/ SetReady(w) \/ Return(w)
    PROVE  WriteInv'
<1> USE DEF TypeOK, WritingOK, WriteInv, Inside, Goto, reading, closing
<1>1. CASE Call(w)
  BY <1>1 DEF Call
<1>2. CASE Copy(w)
  BY <1>2 DEF Copy
<1>3. CASE SetReady(w)
  BY <1>3 DEF SetReady
<1>4. CASE Return(w)
  BY <1>4 DEF Return
<1> QED
  BY <1>1, <1>2, <1>3, <1>4

LEMMA ReadComKeepsWriteInv ==
    ASSUME TypeOK, WriteInv, ReadCom
    PROVE  WriteInv'
<1> USE DEF TypeOK, WritingOK, ReadingOK, WriteInv, Inside, writing, closing
<1>1. CASE Nothing
  BY <1>1 DEF Nothing
<1>2. CASE Transmit
  BY <1>2 DEF Transmit
<1>3. CASE ClearReady
  BY <1>3 DEF ClearReady
<1>4. CASE ReadChar \/ ReadEnd \/ Pause \/ ReadComExit \/ MakePacket
  BY <1>4 DEF ReadChar, ReadEnd, Pause, ReadComExit, MakePacket
<1> QED
  BY <1>1, <1>2, <1>3, <1>4 DEF ReadCom

LEMMA IInvHolds == Spec => []IInv
<1>1. Init => IInv
  <2> SUFFICES ASSUME Init PROVE IInv
    OBVIOUS
  <2>1. TypeOK
    <3>1. pc \in [Writers -> {"out", "lock", "copied", "wait"}]
      BY DEF Init
    <3>2. written \in [Writers -> Nat]
      BY DEF Init
    <3>3. WritingOK
      BY <3>1, <3>2 DEF Init, WritingOK
    <3>4. ReadingOK
      BY EmptySeq DEF Init, ReadingOK
    <3>5. FlagsOK
      BY DEF Init, FlagsOK
    <3> QED
      BY <3>3, <3>4, <3>5 DEF TypeOK
  <2>2. BufOfOneLine /\ ShownIsFirst /\ PacketOfOneLine /\ DivertedIsNotGated
    BY DEF Init, BufOfOneLine, ShownIsFirst, PacketOfOneLine, DivertedIsNotGated
  <2>3. WriteInv
    BY DEF Init, WriteInv, Inside
  <2> QED
    BY <2>1, <2>2, <2>3 DEF IInv, ReadInv
<1>2. IInv /\ [Next]_vars => IInv'
  <2> SUFFICES ASSUME IInv, [Next]_vars PROVE IInv'
    OBVIOUS
  <2> USE DEF IInv, ReadInv
  <2>1. ASSUME NEW w \in Writers, Call(w) \/ Copy(w) \/ SetReady(w) \/ Return(w)
        PROVE  IInv'
    <3>1. UNCHANGED reading
      BY <2>1 DEF Call, Copy, SetReady, Return
    <3> QED
      BY <2>1, <3>1, WritersKeepTypes, WritersKeepWriteInv
         DEF reading, BufOfOneLine, ShownIsFirst, PacketOfOneLine, DivertedIsNotGated
  <2>2. CASE ReadCom
    BY <2>2, ReadComKeepsTypes, ReadComKeepsLines, ReadComKeepsWriteInv
  <2>3. CASE Divert \/ Configured \/ NoFileForTNC \/ Quit \/ Close \/ CloseWrite \/ CloseRead
    <3>1. TypeOK'
      <4>1. UNCHANGED <<writing, reading>>
        BY <2>3 DEF Divert, Configured, NoFileForTNC, Quit, Close, CloseWrite, CloseRead
      <4>2. WritingOK' /\ ReadingOK'
        BY <4>1 DEF TypeOK, WritingOK, ReadingOK, writing, reading
      <4>3. FlagsOK'
        BY <2>3 DEF TypeOK, FlagsOK, config, closing, Divert, Configured, NoFileForTNC, Quit, Close,
           CloseWrite, CloseRead, Afterwards
      <4> QED
        BY <4>2, <4>3 DEF TypeOK
    <3>2. UNCHANGED <<writing, reading>> /\ (ttySwrite' => ttySwrite)
      BY <2>3 DEF Divert, Configured, NoFileForTNC, Quit, Close, CloseWrite, CloseRead, closing
    <3>3. WriteInv'
      BY <3>2 DEF writing, reading, WriteInv, Inside
    <3> QED
      BY <3>1, <3>2, <3>3 DEF reading, BufOfOneLine, ShownIsFirst, PacketOfOneLine,
         DivertedIsNotGated
  <2>4. CASE UNCHANGED vars
    BY <2>4 DEF vars, writing, reading, config, closing, TypeOK, WritingOK, ReadingOK, FlagsOK, WriteInv, Inside,
       BufOfOneLine, ShownIsFirst, PacketOfOneLine, DivertedIsNotGated
  <2> QED
    BY <2>1, <2>2, <2>3, <2>4 DEF Next
<1> QED
  BY <1>1, <1>2, PTL DEF Spec

\* The variables have their types; in particular buf never outgrows the
\* BUFSIZE - 4 characters ReadCom keeps of a line (serialp.cpp 339-344).
THEOREM TypeCorrect == Spec => []TypeOK
<1>1. IInv => TypeOK
  BY DEF IInv, ReadInv
<1> QED
  BY <1>1, IInvHolds, PTL

\* A packet is never made of the pieces of two lines, wherever the TNC pauses
\* and whenever a sysop comes and goes (serialp.cpp 339-344, 368, 432).
THEOREM PacketsAreLines == Spec => []PacketOfOneLine
<1>1. IInv => PacketOfOneLine
  BY DEF IInv, ReadInv
<1> QED
  BY <1>1, IInvHolds, PTL

\* What a sysop was shown of a line is not gated, but for its first character
\* (serialp.cpp 340-344).
THEOREM ShownIsNotGated == Spec => []DivertedIsNotGated
<1>1. IInv => DivertedIsNotGated
  BY DEF IInv, ReadInv
<1> QED
  BY <1>1, IInvHolds, PTL

\* WriteCom returns when its own text was sent, once, as long as the port is
\* open (serialp.cpp 237-256, 308-313).
THEOREM TextsAreSentOnce == Spec => SentExactlyOnce
<1>1. IInv /\ [Next]_vars =>
        [\A w \in Writers :
           pc[w] = "wait" /\ pc'[w] = "out" /\ ttySwrite => written[w] = 1]_vars
  <2> SUFFICES ASSUME IInv, Next, NEW w \in Writers,
                      pc[w] = "wait", pc'[w] = "out", ttySwrite
               PROVE  written[w] = 1
    OBVIOUS
  <2>1. PICK v \in Writers : Call(v) \/ Copy(v) \/ SetReady(v) \/ Return(v)
    BY DEF Next, ReadCom, Nothing, Transmit, ClearReady, ReadChar, ReadEnd, Pause,
       ReadComExit, MakePacket, Divert, Configured, NoFileForTNC, Quit, Close, CloseWrite, CloseRead,
       writing
  <2>2. Return(w)
    BY <2>1 DEF Call, Copy, SetReady, Return, Goto, IInv, ReadInv, TypeOK, WritingOK
  <2> QED
    BY <2>2 DEF Return, IInv, WriteInv, Inside
<1> QED
  BY <1>1, IInvHolds, PTL DEF Spec, SentExactlyOnce

------------------------------------------------------------------------------
(***************************************************************************)
(* Who sets TncSysopMode: the remote control of the TNC, for any number of *)
(* session threads.                                                        *)
(*                                                                         *)
(* SysopHasTheTnc speaks of moments at which no thread is between its two  *)
(* assignments.  Inductive is what holds at every moment: while a session  *)
(* is remote and nobody meddled, the TNC is diverted, and it is muted or a *)
(* remote session is on its way to mute it or to give it back.             *)
(***************************************************************************)
OnItsWay == \E t \in Remote : place[t] \in {"mute", "free"}

HasItOrSoon == Remote # {} /\ ~meddled => TncSysopMode /\ (tncMute \/ OnItsWay)

SysopInv == SysopTypeOK /\ HasItOrSoon /\ DivertedToSomeone

\* The types, and that no thread has ended between two assignments, hold in
\* every reachable state (aprsd.cpp 1309-1350, 1678-1790).
THEOREM SysopTypes == SysopSpec => []SysopTypeOK
<1>1. SysopInit => SysopTypeOK
  BY DEF SysopInit, SysopTypeOK
<1>2. SysopTypeOK /\ [SysopNext]_sysopVars => SysopTypeOK'
  <2> SUFFICES ASSUME SysopTypeOK, [SysopNext]_sysopVars PROVE SysopTypeOK'
    OBVIOUS
  <2>1. CASE UNCHANGED sysopVars
    BY <2>1 DEF sysopVars, SysopTypeOK
  <2>2. ASSUME NEW t \in Threads, Enters(t) \/ Leaves(t), Remembered(t)
        PROVE  SysopTypeOK'
    <3>1. meddled' \in BOOLEAN /\ dropped' \in BOOLEAN
      BY <2>2 DEF Remembered
    <3> USE DEF SysopTypeOK, Idle, GoOn, Tell, shared
    <3>2. CASE Connect(t) BY <3>1, <3>2 DEF Connect
    <3>3. CASE EscEnter(t) BY <3>1, <3>3 DEF EscEnter
    <3>4. CASE UserName(t) BY <3>1, <3>4 DEF UserName
    <3>5. CASE PasswordWrong(t) BY <3>1, <3>5 DEF PasswordWrong
    <3>6. CASE PasswordBusy(t) BY <3>1, <3>6 DEF PasswordBusy
    <3>7. CASE PasswordGood(t) BY <3>1, <3>7 DEF PasswordGood
    <3>8. CASE Take(t) BY <3>1, <3>8 DEF Take
    <3>9. CASE Mute(t) BY <3>1, <3>9 DEF Mute
    <3>10. CASE EscLeave(t) BY <3>1, <3>10 DEF EscLeave
    <3>11. CASE Free(t) BY <3>1, <3>11 DEF Free
    <3>12. CASE Disconnect(t) BY <3>1, <3>12 DEF Disconnect
    <3> QED
      BY <2>2, <3>2, <3>3, <3>4, <3>5, <3>6, <3>7, <3>8, <3>9, <3>10, <3>11,
         <3>12 DEF Enters, Leaves
  <2> QED
    BY <2>1, <2>2 DEF SysopNext
<1> QED
  BY <1>1, <1>2, PTL DEF SysopSpec

\* What a step before Take does: it moves an idle thread whose session is not
\* remote, and leaves the two variables alone.
Approaches(t) ==
    \/ Connect(t) \/ EscEnter(t) \/ UserName(t) \/ PasswordWrong(t)
    \/ PasswordBusy(t) \/ PasswordGood(t)

LEMMA ApproachChangesNothing ==
    ASSUME SysopTypeOK, NEW t \in Threads, Approaches(t)
    PROVE  /\ Remote' = Remote
           /\ UNCHANGED shared
           /\ \A u \in Remote : place'[u] = place[u]
           /\ place[t] = "idle"
<1>1. UNCHANGED shared /\ place[t] = "idle" /\ State[t] # "REMOTE"
  BY DEF Approaches, Connect, EscEnter, UserName, PasswordWrong, PasswordBusy,
     PasswordGood, Idle
<1>2. \A u \in Threads \ {t} : State'[u] = State[u] /\ place'[u] = place[u]
  BY DEF SysopTypeOK, Approaches, Connect, EscEnter, UserName, PasswordWrong,
     PasswordBusy, PasswordGood, Tell, GoOn
<1>3. State'[t] # "REMOTE"
  BY <1>1 DEF SysopTypeOK, Approaches, Connect, EscEnter, UserName, PasswordWrong,
     PasswordBusy, PasswordGood, Tell, Idle
<1> QED
  BY <1>1, <1>2, <1>3 DEF Remote

\* A remote session is left by its own steps only, and these take the TNC from
\* nobody, or else somebody has meddled.
LEMMA StepKeepsTnc ==
    ASSUME SysopTypeOK, HasItOrSoon, NEW t \in Threads,
           Enters(t) \/ Leaves(t), Remembered(t)
    PROVE  HasItOrSoon'
<1> SUFFICES ASSUME Remote' # {}, ~meddled'
             PROVE  TncSysopMode' /\ (tncMute' \/ OnItsWay')
  BY DEF HasItOrSoon
<1>1. ~meddled /\ (Leaves(t) => Remote \subseteq {t})
  BY DEF Remembered
<1>2. CASE Approaches(t)
  <2>1. Remote # {} /\ UNCHANGED shared /\ (\A u \in Remote : place'[u] = place[u])
    BY <1>2, ApproachChangesNothing
  <2>2. TncSysopMode /\ (tncMute \/ OnItsWay)
    BY <1>1, <2>1 DEF HasItOrSoon
  <2>3. OnItsWay => OnItsWay'
    BY <1>2, <2>1, ApproachChangesNothing DEF OnItsWay
  <2> QED
    BY <2>1, <2>2, <2>3 DEF shared
<1>3. CASE Take(t)
  <2>1. TncSysopMode' /\ State'[t] = "REMOTE" /\ place'[t] = "mute"
    BY <1>3 DEF Take, GoOn, SysopTypeOK
  <2> QED
    BY <2>1 DEF OnItsWay, Remote
<1>4. CASE Mute(t)
  <2>1. tncMute' /\ TncSysopMode' = TncSysopMode
    BY <1>4 DEF Mute
  <2>2. State[t] = "REMOTE"
    BY <1>4 DEF Mute, SysopTypeOK
  <2>3. TncSysopMode
    BY <1>1, <2>2 DEF HasItOrSoon, Remote
  <2> QED
    BY <2>1, <2>3
<1>5. CASE EscLeave(t)
  <2>1. UNCHANGED <<State, TncSysopMode>> /\ place'[t] = "free"
    BY <1>5 DEF EscLeave, GoOn, SysopTypeOK
  <2>2. Remote' = Remote /\ Remote = {t}
    BY <1>1, <1>5, <2>1 DEF Remote, Leaves
  <2> QED
    BY <1>1, <2>1, <2>2 DEF HasItOrSoon, OnItsWay
<1>6. CASE Free(t) \/ Disconnect(t)
  <2>1. \A u \in Threads \ {t} : State'[u] = State[u]
    BY <1>6 DEF Free, Disconnect, Tell, SysopTypeOK
  <2>2. State'[t] # "REMOTE"
    BY <1>6 DEF Free, Disconnect, Tell, SysopTypeOK
  <2>3. Remote' = {}
    BY <1>1, <1>6, <2>1, <2>2 DEF Remote, Leaves
  <2> QED
    BY <2>3
<1> QED
  BY <1>2, <1>3, <1>4, <1>5, <1>6 DEF Enters, Leaves, Approaches

\* A session leaves REMOTE only together with the diversion, or because its
\* user could not be told.
LEMMA StepKeepsDiverted ==
    ASSUME SysopTypeOK, DivertedToSomeone, NEW t \in Threads,
           Enters(t) \/ Leaves(t), Remembered(t)
    PROVE  DivertedToSomeone'
<1> SUFFICES ASSUME TncSysopMode', ~dropped' PROVE Remote' # {}
  BY DEF DivertedToSomeone
<1>1. ~dropped /\ ~(place[t] = "mute" /\ State'[t] = "none")
  BY DEF Remembered
<1>2. CASE Approaches(t)
  BY <1>1, <1>2, ApproachChangesNothing DEF DivertedToSomeone, shared
<1>3. CASE Take(t)
  BY <1>3 DEF Take, Remote, SysopTypeOK
<1>4. CASE Mute(t)
  <2>1. State'[t] = "REMOTE"
    BY <1>1, <1>4 DEF Mute, Tell, SysopTypeOK
  <2> QED
    BY <2>1 DEF Remote
<1>5. CASE EscLeave(t)
  BY <1>1, <1>5 DEF EscLeave, DivertedToSomeone, Remote
<1>6. CASE Free(t) \/ Disconnect(t)
  BY <1>6 DEF Free, Disconnect
<1> QED
  BY <1>2, <1>3, <1>4, <1>5, <1>6 DEF Enters, Leaves, Approaches

LEMMA SysopInvHolds == SysopSpec => []SysopInv
<1>1. SysopInit => SysopInv
  BY DEF SysopInit, SysopInv, SysopTypeOK, HasItOrSoon, DivertedToSomeone, Remote
<1>2. SysopTypeOK /\ HasItOrSoon /\ DivertedToSomeone /\ [SysopNext]_sysopVars
        => HasItOrSoon' /\ DivertedToSomeone'
  <2> SUFFICES ASSUME SysopTypeOK, HasItOrSoon, DivertedToSomeone, [SysopNext]_sysopVars
               PROVE  HasItOrSoon' /\ DivertedToSomeone'
    OBVIOUS
  <2>1. CASE UNCHANGED sysopVars
    BY <2>1 DEF sysopVars, HasItOrSoon, OnItsWay, DivertedToSomeone, Remote
  <2>2. CASE SysopNext
    BY <2>2, StepKeepsTnc, StepKeepsDiverted DEF SysopNext
  <2> QED
    BY <2>1, <2>2
<1>3. SysopSpec => []SysopTypeOK
  BY SysopTypes
<1> QED
  BY <1>1, <1>2, <1>3, PTL DEF SysopSpec, SysopInv

\* However many users log in, quit, hang up and lose their connections, who is
\* in remote mode has the TNC until another user's <Esc> or disconnection takes
\* it from him (aprsd.cpp 945, 1337-1338, 1725-1728, 1788).
THEOREM SysopKeepsTheTnc == SysopSpec => []SysopHasTheTnc
<1>1. SysopInv => SysopHasTheTnc
  BY DEF SysopInv, HasItOrSoon, OnItsWay, SysopHasTheTnc, Settled, Remote
<1> QED
  BY <1>1, SysopInvHolds, PTL

\* The output of the TNC is diverted to somebody, unless a sysop lost his
\* connection right when he was told that he has the TNC (aprsd.cpp 1725-1730).
THEOREM DiversionHasAReader == SysopSpec => []DivertedToSomeone
<1>1. SysopInv => DivertedToSomeone
  BY DEF SysopInv
<1> QED
  BY <1>1, SysopInvHolds, PTL
==============================================================================
