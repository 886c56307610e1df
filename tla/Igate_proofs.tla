----------------------------- MODULE Igate_proofs -----------------------------
(***************************************************************************)
(* The table of clients, for any size of the table and any number of       *)
(* threads and descriptors: its types, that no entry outlives the session  *)
(* it was made for, and that the number of users is never overstated;      *)
(* first without IGATE connections (Spec), then with any number of them    *)
(* in the same table (IgSpec).                                             *)
(*                                                                         *)
(* Only AddSession and DeleteSession change who is in the table; two       *)
(* lemmas say how, and everything else rests on them.                      *)
(***************************************************************************)
EXTENDS Igate, FiniteSetTheorems, WellFoundedInduction, TLAPS

USE FdsAssumption, MaxClientsAssumption

\* A session thread that has not ended was started with a real descriptor.
HasDescriptor == \A t \in Threads : pc[t] # "none" => fd[t] \in Fds

\* Every entry is that of a live session or of a socket in X: the sockets of
\* others who use the table, which no session's action changes.
LiveOr(X) ==
    \A i \in Occupied :
        \/ \E t \in Threads : pc[t] # "none" /\ fd[t] = sessions[i].Socket
        \/ sessions[i].Socket \in X

InvOr(X) ==
    /\ TypeOK
    /\ HasDescriptor
    /\ LiveOr(X)
    /\ CountNeverOverstates

IInv == InvOr({})

\* The lowest free slot and the lowest closed descriptor exist.
LEMMA MinIsMember ==
    ASSUME NEW S, S \subseteq Nat, S # {}
    PROVE  Min(S) \in S
<1>1. \E x \in S : \A y \in S : ~(<<y, x>> \in OpToRel(<, Nat))
  BY NatLessThanWellFounded, WFMin
<1>2. \E x \in S : \A y \in S : x =< y
  <2>1. PICK x \in S : \A y \in S : ~(<<y, x>> \in OpToRel(<, Nat))
    BY <1>1
  <2>2. \A y \in S : ~(y < x)
    BY <2>1 DEF OpToRel
  <2> QED
    BY <2>2
<1> QED
  BY <1>2 DEF Min

\* if (ConnectedClients < 0) ConnectedClients = 0;
LEMMA MaxWithZero ==
    ASSUME NEW n \in Int
    PROVE  Max({0, n}) = IF n < 0 THEN 0 ELSE n
<1> DEFINE m == IF n < 0 THEN 0 ELSE n
<1>1. m \in {0, n} /\ \A y \in {0, n} : m >= y
  OBVIOUS
<1>2. \A x \in {0, n} : (\A y \in {0, n} : x >= y) => x = m
  OBVIOUS
<1> QED
  BY <1>1, <1>2 DEF Max

LEMMA SlotSetsAreFinite ==
    /\ IsFiniteSet(Slots)
    /\ \A s : IsFiniteSet(SlotsOf(s)) /\ Cardinality(SlotsOf(s)) \in Nat
    /\ IsFiniteSet(Occupied) /\ Cardinality(Occupied) \in Nat
<1>1. IsFiniteSet(Slots)
  BY FS_Interval DEF Slots
<1>2. (\A s : SlotsOf(s) \in SUBSET Slots) /\ Occupied \in SUBSET Slots
  BY DEF SlotsOf, Occupied
<1> QED
  BY <1>1, <1>2, FS_Subset, FS_CardinalityType

------------------------------------------------------------------------------
\* AddSession fills a free slot with s, or does nothing when there is none.
LEMMA AddSessionEffect ==
    ASSUME TypeOK, NEW s \in Fds, AddSession(s)
    PROVE  /\ sessions' \in [Slots -> [Socket : Fds \cup {NoSocket}, overruns : Nat]]
           /\ ConnectedClients' \in Nat
           /\ \A i \in Slots : sessions'[i].Socket \in {sessions[i].Socket, s}
           /\ CountNeverOverstates => CountNeverOverstates'
<1> USE DEF TypeOK
<1>1. CASE SlotsOf(NoSocket) = {}
  BY <1>1 DEF AddSession, CountNeverOverstates, Occupied, SlotsOf
<1>2. CASE SlotsOf(NoSocket) # {}
  <2> DEFINE k == Min(SlotsOf(NoSocket))
  <2>1. k \in SlotsOf(NoSocket)
    <3>1. SlotsOf(NoSocket) \subseteq Nat
      BY DEF SlotsOf, Slots
    <3> QED
      BY <1>2, <3>1, MinIsMember
  <2> HIDE DEF k
  <2>2. /\ sessions' = [sessions EXCEPT ![k] = [Socket |-> s, overruns |-> 0]]
        /\ ConnectedClients' = ConnectedClients + 1
    BY <1>2 DEF AddSession, k
  <2>3. k \in Slots /\ sessions[k].Socket = NoSocket /\ s # NoSocket
    BY <2>1 DEF SlotsOf, NoSocket
  <2>4. Occupied' = Occupied \cup {k} /\ k \notin Occupied
    BY <2>2, <2>3 DEF Occupied, SlotsOf
  <2>5. Cardinality(Occupied') = Cardinality(Occupied) + 1
    BY <2>4, SlotSetsAreFinite, FS_AddElement
  <2>6. CountNeverOverstates => CountNeverOverstates'
    BY <2>2, <2>5, SlotSetsAreFinite DEF CountNeverOverstates
  <2> QED
    BY <2>2, <2>3, <2>6
<1> QED
  BY <1>1, <1>2

\* DeleteSession empties the slots of s; for s = -1, which is what a slot that
\* was emptied meanwhile is deleted with, only the count can change.
LEMMA DeleteSessionEffect ==
    ASSUME TypeOK, NEW s \in Fds \cup {NoSocket}, DeleteSession(s)
    PROVE  /\ sessions' \in [Slots -> [Socket : Fds \cup {NoSocket}, overruns : Nat]]
           /\ ConnectedClients' \in Nat
           /\ \A i \in Slots : sessions'[i].Socket =
                 IF sessions[i].Socket = s THEN NoSocket ELSE sessions[i].Socket
           /\ CountNeverOverstates => CountNeverOverstates'
<1> USE DEF TypeOK
<1>1. /\ sessions' = [i \in Slots |->
            IF sessions[i].Socket = s
            THEN [sessions[i] EXCEPT !.Socket = NoSocket] ELSE sessions[i]]
      /\ ConnectedClients' = Max({0, ConnectedClients - Cardinality(SlotsOf(s))})
  BY DEF DeleteSession
<1>2. Cardinality(SlotsOf(s)) \in Nat /\ Cardinality(Occupied) \in Nat
  BY SlotSetsAreFinite
<1>3. ConnectedClients' = IF ConnectedClients - Cardinality(SlotsOf(s)) < 0 THEN 0
                          ELSE ConnectedClients - Cardinality(SlotsOf(s))
  <2>1. ConnectedClients - Cardinality(SlotsOf(s)) \in Int
    BY <1>2
  <2> QED
    BY <1>1, <2>1, MaxWithZero
<1>4. \A i \in Slots : sessions'[i].Socket =
        IF sessions[i].Socket = s THEN NoSocket ELSE sessions[i].Socket
  BY <1>1
<1>5. /\ Cardinality(Occupied') \in Nat
      /\ Cardinality(Occupied') = IF s = NoSocket THEN Cardinality(Occupied)
                                  ELSE Cardinality(Occupied) - Cardinality(SlotsOf(s))
  <2>1. CASE s = NoSocket
    <3>1. Occupied' = Occupied
      BY <2>1, <1>4 DEF Occupied, SlotsOf
    <3> QED
      BY <2>1, <3>1, <1>2
  <2>2. CASE s # NoSocket
    <3>1. Occupied' = Occupied \ SlotsOf(s) /\ Occupied \cap SlotsOf(s) = SlotsOf(s)
      BY <2>2, <1>4 DEF Occupied, SlotsOf
    <3> QED
      BY <2>2, <3>1, SlotSetsAreFinite, FS_Difference, FS_CardinalityType
  <2> QED
    BY <2>1, <2>2
<1>6. CountNeverOverstates => CountNeverOverstates'
  BY <1>2, <1>3, <1>5 DEF CountNeverOverstates
<1>7. sessions' \in [Slots -> [Socket : Fds \cup {NoSocket}, overruns : Nat]]
  BY <1>1
<1> QED
  BY <1>2, <1>3, <1>4, <1>6, <1>7

------------------------------------------------------------------------------
\* What the actions of session threads leave alone.
LEMMA AcceptTakesAClosedDescriptor ==
    ASSUME TypeOK, NEW t \in Threads, Accept(t)
    PROVE  /\ fd'[t] \in Fds /\ open' \subseteq Fds
           /\ fd' = [fd EXCEPT ![t] = fd'[t]]
<1>1. Min(Fds \ open) \in Fds \ open
  <2>1. Fds \ open \subseteq Nat /\ Fds \ open # {}
    BY DEF Accept
  <2> QED
    BY <2>1, MinIsMember
<1> DEFINE s == Min(Fds \ open)
<1>2. open' = open \cup {s} /\ fd' = [fd EXCEPT ![t] = s]
  BY DEF Accept
<1> HIDE DEF s
<1>3. s \in Fds
  BY <1>1 DEF s
<1> QED
  BY <1>2, <1>3 DEF TypeOK

LEMMA SessionKeepsInvOr ==
    ASSUME NEW X, InvOr(X), NEW t \in Threads, Session(t), UNCHANGED welcomeFile
    PROVE  InvOr(X)'
<1> USE DEF InvOr, TypeOK, HasDescriptor, Goto
<1>1. CASE Accept(t)
  <2>1. TypeOK'
    BY <1>1, AcceptTakesAClosedDescriptor DEF Accept
  <2>2. HasDescriptor'
    BY <1>1, AcceptTakesAClosedDescriptor DEF Accept
  <2>3. LiveOr(X)'
    <3>1. pc[t] = "none" /\ UNCHANGED sessions
      BY <1>1 DEF Accept
    <3>2. \A u \in Threads \ {t} : pc'[u] = pc[u] /\ fd'[u] = fd[u]
      BY <1>1, AcceptTakesAClosedDescriptor DEF Accept
    <3> QED
      BY <3>1, <3>2 DEF LiveOr, Occupied, SlotsOf
  <2>4. CountNeverOverstates'
    BY <1>1 DEF Accept, CountNeverOverstates, Occupied, SlotsOf
  <2> QED
    BY <2>1, <2>2, <2>3, <2>4
<1>2. ASSUME pc[t] # "none", pc'[t] # "none", UNCHANGED <<fd, bc>>, open' \subseteq open,
             UNCHANGED <<sessions, ConnectedClients>>,
             pc' \in [Threads -> {"none", "greet", "welcome", "sendfile", "add",
                                  "online", "tnc", "rejoin", "end"}],
             \A u \in Threads \ {t} : pc'[u] = pc[u],
             pmtxSendFile' \in Threads \cup {Nobody}
      PROVE  InvOr(X)'
  BY <1>2 DEF LiveOr, CountNeverOverstates, Occupied, SlotsOf
<1>3. CASE Greet(t)
  BY <1>3, <1>2 DEF Greet
<1>4. CASE LockSendFile(t)
  BY <1>4, <1>2 DEF LockSendFile
<1>5. CASE FileMissing(t)
  BY <1>5, <1>2 DEF FileMissing
<1>6. CASE FileSent(t)
  BY <1>6, <1>2 DEF FileSent
<1>7. CASE FileFails(t)
  BY <1>7, <1>2 DEF FileFails
<1>8. CASE HangUp(t)
  BY <1>8, <1>2 DEF HangUp
<1>9. ASSUME AddSession(fd[t]) \/ DeleteSession(fd[t]), pc[t] # "none", pc'[t] # "none",
             UNCHANGED <<fd, open, bc, pmtxSendFile>>,
             pc' \in [Threads -> {"none", "greet", "welcome", "sendfile", "add",
                                  "online", "tnc", "rejoin", "end"}],
             \A u \in Threads \ {t} : pc'[u] = pc[u]
      PROVE  InvOr(X)'
  <2>1. fd[t] \in Fds
    BY <1>9
  <2>2. /\ sessions' \in [Slots -> [Socket : Fds \cup {NoSocket}, overruns : Nat]]
        /\ ConnectedClients' \in Nat
        /\ \A i \in Slots : sessions'[i].Socket \in {sessions[i].Socket, fd[t], NoSocket}
        /\ CountNeverOverstates'
    <3>1. CASE AddSession(fd[t])
      BY <2>1, <3>1, AddSessionEffect
    <3>2. CASE DeleteSession(fd[t])
      BY <2>1, <3>2, DeleteSessionEffect
    <3> QED
      BY <1>9, <3>1, <3>2
  <2>3. LiveOr(X)'
    BY <1>9, <2>2 DEF LiveOr, Occupied, SlotsOf
  <2> QED
    BY <1>9, <2>2, <2>3
<1>10. CASE Join(t)
  BY <1>10, <1>9 DEF Join
<1>11. CASE EnterTnc(t)
  BY <1>11, <1>9 DEF EnterTnc
<1>12. CASE LeaveTnc(t)
  BY <1>12, <1>9 DEF LeaveTnc
<1>13. CASE TncBusy(t)
  BY <1>13, <1>9 DEF TncBusy
<1>14. CASE MonitorLogon(t)
  BY <1>14, <1>9 DEF MonitorLogon
<1>15. CASE Rejoin(t)
  BY <1>15, <1>9 DEF Rejoin
<1>16. CASE endSession(t)
  <2>1. fd[t] \in Fds /\ DeleteSession(fd[t])
    BY <1>16 DEF endSession
  <2>2. /\ sessions' \in [Slots -> [Socket : Fds \cup {NoSocket}, overruns : Nat]]
        /\ ConnectedClients' \in Nat
        /\ \A i \in Slots : sessions'[i].Socket =
              IF sessions[i].Socket = fd[t] THEN NoSocket ELSE sessions[i].Socket
        /\ CountNeverOverstates'
    BY <2>1, DeleteSessionEffect
  <2>3. LiveOr(X)'
    <3>1. \A i \in Occupied' : i \in Occupied /\ sessions[i].Socket # fd[t]
                              /\ sessions'[i].Socket = sessions[i].Socket
      BY <2>2 DEF Occupied, SlotsOf
    <3>2. \A u \in Threads \ {t} : pc'[u] = pc[u] /\ fd'[u] = fd[u]
      BY <1>16 DEF endSession
    <3> QED
      BY <3>1, <3>2 DEF LiveOr
  <2>4. TypeOK' /\ HasDescriptor'
    BY <1>16, <2>2 DEF endSession
  <2> QED
    BY <2>2, <2>3, <2>4
<1> QED
  BY <1>1, <1>3, <1>4, <1>5, <1>6, <1>7, <1>8, <1>10, <1>11, <1>12, <1>13, <1>14,
     <1>15, <1>16 DEF Session, Greeting

\* DeQueue changes the table only by DeleteSession and by counting overruns.
LEMMA DeQueueKeepsInvOr ==
    ASSUME NEW X, InvOr(X), BcStart \/ Walk, UNCHANGED welcomeFile
    PROVE  InvOr(X)'
<1> USE DEF InvOr, TypeOK, HasDescriptor
<1>1. bc' \in [at : {"idle", "scan", "send", "dump", "close"},
               i : Slots, bad : Fds \cup {NoSocket}]
  <2>1. bc.i \in Slots /\ bc.i + 1 # MaxClients => bc.i + 1 \in Slots
    BY DEF Slots
  <2>2. 0 \in Slots /\ NoSocket \in Fds \cup {NoSocket}
    BY DEF Slots
  <2>3. NextSlot => bc' \in [at : {"idle", "scan", "send", "dump", "close"},
                             i : Slots, bad : Fds \cup {NoSocket}]
    BY <2>1, <2>2 DEF NextSlot
  <2> QED
    BY <2>1, <2>2, <2>3 DEF BcStart, Walk, BcSkip, BcSelect, BcSent, BcAgain,
       BcError, BcDump, BcClose
<1>2. /\ open' \subseteq Fds
      /\ UNCHANGED <<fd, pc, pmtxSendFile>>
  BY DEF BcStart, Walk, BcSkip, BcSelect, BcSent, BcAgain, BcError, BcDump, BcClose
<1>3. CASE BcDump
  <2>1. sessions[bc.i].Socket \in Fds \cup {NoSocket} /\ DeleteSession(sessions[bc.i].Socket)
    BY <1>3 DEF BcDump
  <2>2. /\ sessions' \in [Slots -> [Socket : Fds \cup {NoSocket}, overruns : Nat]]
        /\ ConnectedClients' \in Nat
        /\ \A i \in Slots : sessions'[i].Socket \in {sessions[i].Socket, NoSocket}
        /\ CountNeverOverstates'
    BY <2>1, DeleteSessionEffect
  <2>3. LiveOr(X)'
    BY <1>2, <2>2 DEF LiveOr, Occupied, SlotsOf
  <2> QED
    BY <1>1, <1>2, <2>2, <2>3
<1>4. CASE ~BcDump
  <2>1. /\ UNCHANGED ConnectedClients
        /\ sessions' \in [Slots -> [Socket : Fds \cup {NoSocket}, overruns : Nat]]
        /\ \A i \in Slots : sessions'[i].Socket = sessions[i].Socket
    BY <1>4 DEF BcStart, Walk, BcSkip, BcSelect, BcSent, BcAgain, BcError, BcClose
  <2>2. Occupied' = Occupied
    BY <2>1 DEF Occupied, SlotsOf
  <2>3. LiveOr(X)' /\ CountNeverOverstates'
    BY <1>2, <2>1, <2>2 DEF LiveOr, CountNeverOverstates, Occupied
  <2> QED
    BY <1>1, <1>2, <2>1, <2>3
<1> QED
  BY <1>3, <1>4

LEMMA IInvHolds == Spec => []IInv
<1>1. Init => IInv
  <2> SUFFICES ASSUME Init PROVE IInv
    OBVIOUS
  <2>1. 0 \in Slots
    BY DEF Slots
  <2>2. TypeOK /\ HasDescriptor
    BY <2>1 DEF Init, TypeOK, HasDescriptor, Free
  <2>3. Occupied = {}
    BY DEF Init, Occupied, SlotsOf, Free
  <2>4. LiveOr({}) /\ CountNeverOverstates
    BY <2>3, FS_EmptySet DEF Init, LiveOr, CountNeverOverstates
  <2> QED
    BY <2>2, <2>4 DEF IInv, InvOr
<1>2. IInv /\ [Next]_vars => IInv'
  <2> SUFFICES ASSUME IInv, [Next]_vars PROVE IInv'
    OBVIOUS
  <2>1. CASE Next
    BY <2>1, SessionKeepsInvOr, DeQueueKeepsInvOr DEF Next, IInv
  <2>2. CASE UNCHANGED vars
    BY <2>2 DEF vars, server, IInv, InvOr, TypeOK, HasDescriptor, LiveOr,
       CountNeverOverstates, Occupied, SlotsOf
  <2> QED
    BY <2>1, <2>2
<1> QED
  BY <1>1, <1>2, PTL DEF Spec

\* The types hold; in particular the number of users never gets negative,
\* although DeleteSession counts down for slots that are free already
\* (aprsd.cpp 599-618).
THEOREM TypeCorrect == Spec => []TypeOK
<1>1. IInv => TypeOK
  BY DEF IInv, InvOr
<1> QED
  BY <1>1, IInvHolds, PTL

\* Whatever joins, leaves, dumps and reuses of descriptors interleave, no
\* packet is sent to a descriptor that no live session was started with
\* (aprsd.cpp 599-618, 662-703, 988-1058).
THEOREM TableHoldsLiveSessions == Spec => []NoSlotOutlivesItsSession
<1>1. IInv => NoSlotOutlivesItsSession
  BY DEF IInv, InvOr, LiveOr, NoSlotOutlivesItsSession
<1> QED
  BY <1>1, IInvHolds, PTL

\* The number of users is never overstated, in whatever order descriptors are
\* added, deleted and deleted again (aprsd.cpp 575-618).
THEOREM UsersAreNotOverstated == Spec => []CountNeverOverstates
<1>1. IInv => CountNeverOverstates
  BY DEF IInv, InvOr
<1> QED
  BY <1>1, IInvHolds, PTL

------------------------------------------------------------------------------
(* With the IGATE connections.                                             *)

\* A thread past connect() has a real descriptor, which the table may name.
IgHasDescriptor ==
    \A g \in Igates : at[g] \in {"logon", "receive", "drop"} => clientSocket[g] \in Fds

IgTypes ==
    /\ at \in [Igates -> {"resolve", "connect", "logon", "receive", "drop", "sleep"}]
    /\ clientSocket \in [Igates -> Fds \cup {NoSocket}]
    /\ timeout \in [Igates -> 0 .. RecvTimeout]
    /\ peer \in [Igates -> {"up", "vanished"}]
    /\ waits \in [Igates -> 0 .. 4]

\* The delay never leaves the documented sequence, also while connected.
DelayInStep ==
    /\ retryTimer = [g \in Igates |-> Delays[waits[g] + 1]]
    /\ \A g \in Igates : at[g] = "receive" => waits[g] = 0

\* The sockets that IGATEs may have in the table.
IgateSockets == {clientSocket[g] : g \in {h \in Igates : InTable(h)}}

IgInv ==
    /\ InvOr(IgateSockets)
    /\ IgHasDescriptor
    /\ IgTypes
    /\ DelayInStep

\* What the IGATE threads do to their own variables, except for the delay.
LEMMA ServersKeepTypes ==
    ASSUME IgInv, NEW g \in Igates, TCPConnectThread(g) \/ Vanish(g)
    PROVE  IgTypes' /\ IgHasDescriptor'
<1> USE DEF IgInv, IgTypes, IgHasDescriptor, Continue
<1>1. CASE OpenSocket(g)
  <2> DEFINE s == IF Fds \ open = {} THEN NoSocket ELSE Min(Fds \ open)
  <2>1. clientSocket' = [clientSocket EXCEPT ![g] = s] /\ at' = [at EXCEPT ![g] = "connect"]
    BY <1>1 DEF OpenSocket
  <2>2. s \in Fds \cup {NoSocket}
    <3>1. Fds \ open \subseteq Nat
      OBVIOUS
    <3> QED
      BY <3>1, MinIsMember
  <2> HIDE DEF s
  <2> QED
    BY <1>1, <2>1, <2>2 DEF OpenSocket
<1>2. CASE ~OpenSocket(g)
  <2>1. open \subseteq Fds
    BY DEF InvOr, TypeOK
  <2>2. RecvTimeout \in 0 .. RecvTimeout /\ Len(Delays) = 5
    BY RecvTimeoutAssumption DEF Delays
  <2>3. clientSocket' = clientSocket
    BY <1>2 DEF TCPConnectThread, recvline, Unresolved, ConnectFails, Connected,
       Logon, ReceiveChar, NothingToReceive, ReceiveFails, Drop, Retry, Vanish
  <2>4. timeout' \in [Igates -> 0 .. RecvTimeout]
    BY <1>2, <2>2 DEF TCPConnectThread, recvline, Unresolved, ConnectFails, Connected,
       Logon, ReceiveChar, NothingToReceive, ReceiveFails, Drop, Retry, Vanish
  <2>5. peer' \in [Igates -> {"up", "vanished"}]
    BY <1>2 DEF TCPConnectThread, recvline, Unresolved, ConnectFails, Connected,
       Logon, ReceiveChar, NothingToReceive, ReceiveFails, Drop, Retry, Vanish
  <2>6. waits' \in [Igates -> 0 .. 4]
    BY <1>2, <2>2 DEF TCPConnectThread, recvline, Unresolved, ConnectFails, Connected,
       Logon, ReceiveChar, NothingToReceive, ReceiveFails, Drop, Retry, Vanish
  <2>7. at' \in [Igates -> {"resolve", "connect", "logon", "receive", "drop", "sleep"}]
    BY <1>2 DEF TCPConnectThread, recvline, Unresolved, ConnectFails, Connected,
       Logon, ReceiveChar, NothingToReceive, ReceiveFails, Drop, Retry, Vanish
  <2>8. IgHasDescriptor'
    BY <1>2, <2>1, <2>3 DEF TCPConnectThread, recvline, Unresolved, ConnectFails, Connected,
       Logon, ReceiveChar, NothingToReceive, ReceiveFails, Drop, Retry, Vanish
  <2> QED
    BY <2>3, <2>4, <2>5, <2>6, <2>7, <2>8
<1> QED
  BY <1>1, <1>2

\* 1, 2, 4, 8, 16, 16, ... after each reset.
LEMMA ServersKeepDelay ==
    ASSUME IgInv, NEW g \in Igates, TCPConnectThread(g) \/ Vanish(g)
    PROVE  DelayInStep'
<1> USE DEF IgInv, IgTypes, DelayInStep, Continue
<1>1. CASE Retry(g)
  <2>1. waits[g] \in {0, 1, 2, 3, 4} /\ Len(Delays) = 5
    BY DEF Delays
  <2>2. \A k \in {0, 1, 2, 3, 4} :
            Delays[(IF k + 1 < 5 THEN k + 1 ELSE k) + 1] =
            IF 2 * Delays[k + 1] >= 16 THEN 16 ELSE 2 * Delays[k + 1]
    BY DEF Delays
  <2> DEFINE w == IF waits[g] + 1 < 5 THEN waits[g] + 1 ELSE waits[g]
             r == IF 2 * retryTimer[g] >= 16 THEN 16 ELSE 2 * retryTimer[g]
  <2>3. waits' = [waits EXCEPT ![g] = w] /\ retryTimer' = [retryTimer EXCEPT ![g] = r]
    BY <1>1, <2>1 DEF Retry
  <2>4. r = Delays[w + 1]
    BY <2>1, <2>2
  <2> HIDE DEF w, r
  <2>5. retryTimer' = [h \in Igates |-> Delays[waits'[h] + 1]]
    BY <2>3, <2>4
  <2> QED
    BY <1>1, <2>3, <2>5 DEF Retry
<1>2. CASE Logon(g)
  BY <1>2 DEF Logon, Delays
<1>3. CASE ReceiveChar(g)
  BY <1>3 DEF ReceiveChar, Delays
<1>4. CASE ~(Retry(g) \/ Logon(g) \/ ReceiveChar(g))
  BY <1>4 DEF TCPConnectThread, recvline, Unresolved, OpenSocket, ConnectFails, Connected,
     NothingToReceive, ReceiveFails, Drop, Vanish
<1> QED
  BY <1>1, <1>2, <1>3, <1>4

------------------------------------------------------------------------------
\* The set of sockets in the table, seen from its owners.
LEMMA ServersKeepTable ==
    ASSUME IgInv, NEW g \in Igates, TCPConnectThread(g) \/ Vanish(g), UNCHANGED welcomeFile
    PROVE  InvOr(IgateSockets)'
<1> USE DEF IgInv, IgTypes, IgHasDescriptor, InvOr, TypeOK, HasDescriptor, Continue
<1>1. UNCHANGED <<fd, pc, bc, pmtxSendFile>>
  BY DEF TCPConnectThread, recvline, Unresolved, OpenSocket, ConnectFails, Connected,
     Logon, ReceiveChar, NothingToReceive, ReceiveFails, Drop, Retry, Vanish, server
<1>2. open' \subseteq Fds
  <2>1. CASE OpenSocket(g)
    <3>1. Fds \ open # {} => Min(Fds \ open) \in Fds
      BY MinIsMember
    <3> QED
      BY <2>1, <3>1, ZenonT(60) DEF OpenSocket
  <2>2. CASE ~OpenSocket(g)
    BY <2>2 DEF TCPConnectThread, recvline, Unresolved, ConnectFails, Connected,
       Logon, ReceiveChar, NothingToReceive, ReceiveFails, Drop, Retry, Vanish, server
  <2> QED
    BY <2>1, <2>2
<1>3. ASSUME UNCHANGED <<sessions, ConnectedClients>>, IgateSockets \subseteq IgateSockets'
      PROVE  InvOr(IgateSockets)'
  <2>1. Occupied' = Occupied
    BY <1>3 DEF Occupied, SlotsOf
  <2>2. LiveOr(IgateSockets)'
    BY <1>1, <1>3, <2>1 DEF LiveOr
  <2> QED
    BY <1>1, <1>2, <1>3, <2>1, <2>2 DEF CountNeverOverstates
<1>4. CASE Logon(g) /\ g \in LogsOn
  <2>1. clientSocket[g] \in Fds /\ AddSession(clientSocket[g])
    BY <1>4 DEF Logon
  <2>2. /\ sessions' \in [Slots -> [Socket : Fds \cup {NoSocket}, overruns : Nat]]
        /\ ConnectedClients' \in Nat
        /\ \A i \in Slots : sessions'[i].Socket \in {sessions[i].Socket, clientSocket[g]}
        /\ CountNeverOverstates'
    BY <2>1, AddSessionEffect
  <2>3. IgateSockets \cup {clientSocket[g]} \subseteq IgateSockets'
    BY <1>4 DEF Logon, IgateSockets, InTable
  <2>4. LiveOr(IgateSockets)'
    BY <1>1, <2>2, <2>3 DEF LiveOr, Occupied, SlotsOf
  <2> QED
    BY <1>1, <1>2, <2>2, <2>4
<1>5. CASE Drop(g)
  <2>1. clientSocket[g] \in Fds /\ DeleteSession(clientSocket[g])
    BY <1>5 DEF Drop
  <2>2. /\ sessions' \in [Slots -> [Socket : Fds \cup {NoSocket}, overruns : Nat]]
        /\ ConnectedClients' \in Nat
        /\ \A i \in Slots : sessions'[i].Socket =
              IF sessions[i].Socket = clientSocket[g] THEN NoSocket ELSE sessions[i].Socket
        /\ CountNeverOverstates'
    BY <2>1, DeleteSessionEffect
  <2>3. IgateSockets \ {clientSocket[g]} \subseteq IgateSockets'
    BY <1>5 DEF Drop, IgateSockets, InTable
  <2>4. LiveOr(IgateSockets)'
    BY <1>1, <2>2, <2>3 DEF LiveOr, Occupied, SlotsOf
  <2> QED
    BY <1>1, <1>2, <2>2, <2>4
<1>6. CASE Logon(g) /\ g \notin LogsOn
  BY <1>6, <1>3 DEF Logon, IgateSockets, InTable
<1>7. CASE OpenSocket(g)
  <2>1. at[g] = "resolve" /\ at' = [at EXCEPT ![g] = "connect"]
        /\ \A h \in Igates \ {g} : clientSocket'[h] = clientSocket[h]
    BY <1>7 DEF OpenSocket
  <2> QED
    BY <1>7, <1>3, <2>1 DEF OpenSocket, IgateSockets, InTable
<1>8. CASE Unresolved(g) \/ ConnectFails(g) \/ Connected(g) \/ recvline(g) \/ Retry(g) \/ Vanish(g)
  <2>1. UNCHANGED <<sessions, ConnectedClients, clientSocket>>
    BY <1>8 DEF Unresolved, ConnectFails, Connected, recvline, ReceiveChar,
       NothingToReceive, ReceiveFails, Retry, Vanish, server
  <2>2. \A h \in Igates : InTable(h) => InTable(h)'
    BY <1>8 DEF Unresolved, ConnectFails, Connected, recvline, ReceiveChar,
       NothingToReceive, ReceiveFails, Retry, Vanish, InTable
  <2> QED
    BY <1>3, <2>1, <2>2 DEF IgateSockets
<1> QED
  BY <1>4, <1>5, <1>6, <1>7, <1>8 DEF TCPConnectThread

LEMMA IgInvHolds == IgSpec => []IgInv
<1>1. IgInit => IgInv
  <2> SUFFICES ASSUME IgInit PROVE IgInv
    OBVIOUS
  <2>1. InvOr(IgateSockets)
    <3>1. 0 \in Slots
      BY DEF Slots
    <3>2. TypeOK /\ HasDescriptor
      BY <3>1 DEF IgInit, Init, TypeOK, HasDescriptor, Free
    <3>3. Occupied = {}
      BY DEF IgInit, Init, Occupied, SlotsOf, Free
    <3> QED
      BY <3>2, <3>3, FS_EmptySet DEF IgInit, Init, InvOr, LiveOr, CountNeverOverstates
  <2>2. IgHasDescriptor /\ IgTypes
    BY RecvTimeoutAssumption DEF IgInit, IgHasDescriptor, IgTypes
  <2>3. DelayInStep
    BY DEF IgInit, DelayInStep, Delays
  <2> QED
    BY <2>1, <2>2, <2>3 DEF IgInv
<1>2. IgInv /\ [IgNext]_igVars => IgInv'
  <2> SUFFICES ASSUME IgInv, [IgNext]_igVars PROVE IgInv'
    OBVIOUS
  <2>1. ASSUME UNCHANGED igate PROVE (IgHasDescriptor /\ IgTypes /\ DelayInStep)'
    BY <2>1 DEF IgInv, igate, IgHasDescriptor, IgTypes, DelayInStep
  <2>2. ASSUME UNCHANGED igate PROVE IgateSockets' = IgateSockets
    BY <2>2 DEF igate, IgateSockets, InTable
  <2>3. CASE Clients /\ UNCHANGED welcomeFile
    <3>1. UNCHANGED igate
      BY <2>3 DEF Clients
    <3>2. PICK X : X = IgateSockets
      OBVIOUS
    <3>3. InvOr(X)
      BY <3>2 DEF IgInv
    <3>4. InvOr(X)'
      BY <2>3, <3>3, SessionKeepsInvOr, DeQueueKeepsInvOr DEF Clients
    <3>5. InvOr(IgateSockets)'
      BY <3>1, <3>2, <3>4, <2>2 DEF InvOr, LiveOr
    <3> QED
      BY <3>1, <3>5, <2>1 DEF IgInv
  <2>4. CASE Servers /\ UNCHANGED welcomeFile
    BY <2>4, ServersKeepTypes, ServersKeepDelay, ServersKeepTable DEF Servers, IgInv
  <2>5. CASE UNCHANGED igVars
    <3>1. UNCHANGED igate /\ UNCHANGED vars
      BY <2>5 DEF igVars
    <3>2. InvOr(IgateSockets)'
      BY <3>1, <2>2 DEF IgInv, vars, server, InvOr, TypeOK, HasDescriptor, LiveOr,
         CountNeverOverstates, Occupied, SlotsOf
    <3> QED
      BY <3>1, <3>2, <2>1 DEF IgInv
  <2> QED
    BY <2>3, <2>4, <2>5 DEF IgNext
<1> QED
  BY <1>1, <1>2, PTL DEF IgSpec

\* The types hold with any number of IGATEs (aprsd.cpp 2083-2387).
THEOREM IgTypeCorrect == IgSpec => []IgTypeOK
<1>1. IgInv => IgTypeOK
  <2> SUFFICES ASSUME IgInv PROVE IgTypeOK
    OBVIOUS
  <2>1. \A k \in 0 .. 4 : Delays[k + 1] \in 1 .. 16
    BY DEF Delays
  <2>2. retryTimer \in [Igates -> 1 .. 16]
    BY <2>1 DEF IgInv, IgTypes, DelayInStep
  <2>3. Len(Delays) - 1 = 4
    BY DEF Delays
  <2> QED
    BY <2>2, <2>3 DEF IgInv, IgTypes, IgTypeOK, InvOr
<1> QED
  BY <1>1, IgInvHolds, PTL

\* With any number of clients and IGATEs that come, break off, are dumped and
\* take over each other's descriptors, DeQueue only sends to sockets that a
\* client's or an IGATE's thread serves (aprsd.cpp 575-618, 2194, 2357).
THEOREM TableIsLive == IgSpec => []TableHoldsLiveConnections
<1>1. IgInv => TableHoldsLiveConnections
  BY DEF IgInv, InvOr, LiveOr, IgateSockets, TableHoldsLiveConnections
<1> QED
  BY <1>1, IgInvHolds, PTL

\* Each delay is the one that the documentation gives for the number of
\* attempts since the last connection (aprsd.cpp 2112-2383).
THEOREM DelayIsDocumented == IgSpec => []DelayFollowsFailures
<1>1. IgInv => DelayFollowsFailures
  BY DEF IgInv, DelayInStep, DelayFollowsFailures
<1> QED
  BY <1>1, IgInvHolds, PTL

\* IGATEs in the table do not make the number of users overstated, although
\* they are counted as users too (aprsd.cpp 587, 610-611).
THEOREM UsersAreNotOverstatedWithIgates == IgSpec => []CountNeverOverstates
<1>1. IgInv => CountNeverOverstates
  BY DEF IgInv, InvOr
<1> QED
  BY <1>1, IgInvHolds, PTL
==============================================================================
