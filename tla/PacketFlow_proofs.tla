-------------------------- MODULE PacketFlow_proofs --------------------------
(***************************************************************************)
(* The life of the packets, for any number of objects and of repeaters and *)
(* any size of the queues: every object has one owner, and what is sent to *)
(* the clients exists while it is sent.                                    *)
(***************************************************************************)
EXTENDS PacketFlow, Lists_proofs

USE ConfigAssumption

\* What DeQueue owns itself: the packet it has taken from a queue and neither
\* stored nor deleted.
Held == IF dq.at \in {"tnc", "net", "netsenddrop"} THEN {dq.abuff} ELSE {}

\* The objects of A are divided between four owners.
Divided(A, S, T, H, D) ==
    /\ A = S \cup T \cup H \cup D
    /\ S \cap T = {} /\ S \cap H = {} /\ S \cap D = {}
    /\ T \cap H = {} /\ T \cap D = {} /\ H \cap D = {}

Owned ==
    /\ NoTwice(sendQueue) /\ NoTwice(tncQueue) /\ NoTwice(hist)
    /\ Divided(alive, Elements(sendQueue), Elements(tncQueue), Elements(hist), Held)

\* A repeater that has copied its packet knows the key of the ack.
AckHasKey == \A a \in AckThreads : ack[a].at = "repeat" => ack[a].key \in Keys

IInv == TypeOK /\ AckHasKey /\ Owned

------------------------------------------------------------------------------
LEMMA ListedIsElements == ASSUME NEW X, NEW s \in Seq(X) PROVE ToSet(s) = Elements(s)
<1>1. DOMAIN s = 1 .. Len(s)
  OBVIOUS
<1> QED
  BY <1>1 DEF ToSet, Elements

LEMMA PacketIsContents ==
    ASSUME NEW key \in Keys, NEW kind \in Kinds, NEW allowdup \in BOOLEAN
    PROVE  Packet(key, kind, allowdup) \in Contents
  BY DEF Packet, Contents

LEMMA NewEffect ==
    ASSUME HeapOK, NEW o \in Objs, NEW packet \in Contents, New(o, packet)
    PROVE  HeapOK' /\ alive' = alive \cup {o}
  BY DEF HeapOK, New, alive

LEMMA DeleteEffect ==
    ASSUME HeapOK, NEW gone, Delete(gone)
    PROVE  HeapOK' /\ alive' = alive \ gone
  BY DEF HeapOK, Delete, alive, Restrict

\* AddHistoryItem moves the packet into the list and deletes what it replaces.
LEMMA KeepEffect ==
    ASSUME HeapOK, hist \in Seq(Objs), NoTwice(hist), Elements(hist) \subseteq alive,
           NEW o \in alive, o \notin Elements(hist),
           NEW dest \in {destINET, destTNC}, NEW ttl \in Nat, Keep(o, dest, ttl)
    PROVE  /\ HeapOK' /\ hist' \in Seq(Objs) /\ NoTwice(hist')
           /\ o \in alive' /\ heap'[o].ttl = ttl
           /\ \E gone \in SUBSET Elements(hist) :
                 /\ alive' = alive \ gone
                 /\ Elements(hist') = (Elements(hist) \ gone) \cup {o}
<1> DEFINE gone == IF Len(hist) <= 1 THEN {} ELSE Listed(o, dest)
           left == Keeping(hist, alive \ gone)
<1>1. gone \subseteq Elements(hist)
  BY ListedIsElements DEF Listed
<1>2. /\ hist' = Append(left, o)
      /\ heap' = [h \in alive \ gone |->
                    IF h = o THEN [heap[o] EXCEPT !.dest = dest, !.ttl = ttl] ELSE heap[h]]
  BY DEF Keep
<1> HIDE DEF gone
<1>3. left \in Seq(Objs) /\ NoTwice(left) /\ Elements(left) = Elements(hist) \cap (alive \ gone)
  BY KeepingElements
<1> HIDE DEF left
<1>4. o \in Objs /\ o \notin Elements(left)
  BY <1>3 DEF HeapOK
<1>5. /\ hist' \in Seq(Objs) /\ NoTwice(hist')
      /\ Elements(hist') = Elements(left) \cup {o}
  BY <1>2, <1>3, <1>4, AppendElements
<1>6. alive' = alive \ gone /\ o \in alive'
  BY <1>1, <1>2 DEF alive
<1>7. /\ heap[o] \in Contents
      /\ [heap[o] EXCEPT !.dest = dest, !.ttl = ttl] \in Contents
      /\ [heap[o] EXCEPT !.dest = dest, !.ttl = ttl].ttl = ttl
  BY DEF HeapOK, Contents
<1>8. HeapOK'
  BY <1>2, <1>6, <1>7 DEF HeapOK
<1>9. heap'[o].ttl = ttl
  BY <1>2, <1>6, <1>7
<1>10. Elements(hist') = (Elements(hist) \ gone) \cup {o}
  BY <1>3, <1>5
<1> QED
  BY <1>1, <1>5, <1>6, <1>8, <1>9, <1>10

\* Ageing deletes entries of the list and nothing that has more than five
\* minutes left.
LEMMA AgeEffect ==
    ASSUME HeapOK, hist \in Seq(Objs), NoTwice(hist), Elements(hist) \subseteq alive,
           DeleteOldItems
    PROVE  /\ HeapOK' /\ hist' \in Seq(Objs) /\ NoTwice(hist')
           /\ \A h \in alive : heap[h].ttl > AgeStep => h \in alive'
           /\ \E gone \in SUBSET Elements(hist) :
                 alive' = alive \ gone /\ Elements(hist') = Elements(hist) \ gone
<1> DEFINE old == {o \in ToSet(hist) : heap[o].ttl <= AgeStep}
<1>1. old \subseteq Elements(hist) /\ \A h \in alive : heap[h].ttl > AgeStep => h \notin old
  BY ListedIsElements DEF HeapOK, Contents, AgeStep
<1>2. /\ hist' = Keeping(hist, alive \ old)
      /\ heap' = [o \in alive \ old |->
                    IF o \in ToSet(hist) THEN [heap[o] EXCEPT !.ttl = @ - AgeStep] ELSE heap[o]]
  BY DEF DeleteOldItems
<1>3. \A o \in (alive \ old) \cap ToSet(hist) : heap[o].ttl > AgeStep
  BY DEF HeapOK, Contents, AgeStep
<1> HIDE DEF old
<1>4. /\ hist' \in Seq(Objs) /\ NoTwice(hist')
      /\ Elements(hist') = Elements(hist) \cap (alive \ old)
  BY <1>2, KeepingElements
<1>5. alive' = alive \ old
  BY <1>2 DEF alive
<1>6. ASSUME NEW o \in (alive \ old) \cap ToSet(hist)
      PROVE  [heap[o] EXCEPT !.ttl = @ - AgeStep] \in Contents
  <2>1. heap[o] \in Contents
    BY DEF HeapOK
  <2>2. heap[o].ttl - AgeStep \in Nat
    BY <1>3, <2>1 DEF Contents, AgeStep
  <2> QED
    BY <2>1, <2>2 DEF Contents
<1>7. HeapOK'
  BY <1>2, <1>5, <1>6 DEF HeapOK
<1>8. Elements(hist') = Elements(hist) \ old
  BY <1>4
<1> QED
  BY <1>1, <1>4, <1>5, <1>7, <1>8

LEMMA WriteSendEffect ==
    ASSUME HeapOK, sendQueue \in Seq(Objs), Len(sendQueue) <= SendSize,
           NoTwice(sendQueue), Elements(sendQueue) \subseteq alive,
           NEW o \in Objs, NEW packet \in Contents, WriteSend(o, packet)
    PROVE  /\ HeapOK' /\ sendQueue' \in Seq(Objs) /\ Len(sendQueue') <= SendSize
           /\ NoTwice(sendQueue') /\ \A h \in alive : heap'[h] = heap[h]
           /\ \E new \in SUBSET {o} :
                 /\ new \cap alive = {} /\ alive' = alive \cup new
                 /\ Elements(sendQueue') = Elements(sendQueue) \cup new
<1>1. CASE Len(sendQueue) < SendSize
  <2>1. o \notin alive /\ New(o, packet) /\ sendQueue' = Append(sendQueue, o)
    BY <1>1 DEF WriteSend
  <2>2. HeapOK' /\ alive' = alive \cup {o} /\ \A h \in alive : heap'[h] = heap[h]
    BY <2>1, NewEffect DEF New
  <2>3. /\ sendQueue' \in Seq(Objs) /\ Len(sendQueue') = Len(sendQueue) + 1
        /\ NoTwice(sendQueue') /\ Elements(sendQueue') = Elements(sendQueue) \cup {o}
    BY <2>1, AppendElements
  <2>4. Len(sendQueue') <= SendSize
    BY <1>1, <2>3
  <2> QED
    BY <2>1, <2>2, <2>3, <2>4
<1>2. CASE ~(Len(sendQueue) < SendSize)
  <2>1. heap' = heap /\ sendQueue' = sendQueue
    BY <1>2 DEF WriteSend
  <2>2. alive' = alive /\ HeapOK'
    BY <2>1 DEF alive, HeapOK
  <2>3. /\ {} \cap alive = {} /\ alive' = alive \cup {}
        /\ Elements(sendQueue') = Elements(sendQueue) \cup {}
    BY <2>1, <2>2
  <2> QED
    BY <2>1, <2>2, <2>3
<1> QED
  BY <1>1, <1>2

LEMMA WriteTncEffect ==
    ASSUME HeapOK, tncQueue \in Seq(Objs), Len(tncQueue) <= TncSize,
           NoTwice(tncQueue), Elements(tncQueue) \subseteq alive,
           NEW o \in Objs, NEW packet \in Contents, WriteTnc(o, packet)
    PROVE  /\ HeapOK' /\ tncQueue' \in Seq(Objs) /\ Len(tncQueue') <= TncSize
           /\ NoTwice(tncQueue') /\ \A h \in alive : heap'[h] = heap[h]
           /\ \E new \in SUBSET {o} :
                 /\ new \cap alive = {} /\ alive' = alive \cup new
                 /\ Elements(tncQueue') = Elements(tncQueue) \cup new
<1>1. CASE Len(tncQueue) < TncSize
  <2>1. o \notin alive /\ New(o, packet) /\ tncQueue' = Append(tncQueue, o)
    BY <1>1 DEF WriteTnc
  <2>2. HeapOK' /\ alive' = alive \cup {o} /\ \A h \in alive : heap'[h] = heap[h]
    BY <2>1, NewEffect DEF New
  <2>3. /\ tncQueue' \in Seq(Objs) /\ Len(tncQueue') = Len(tncQueue) + 1
        /\ NoTwice(tncQueue') /\ Elements(tncQueue') = Elements(tncQueue) \cup {o}
    BY <2>1, AppendElements
  <2>4. Len(tncQueue') <= TncSize
    BY <1>1, <2>3
  <2> QED
    BY <2>1, <2>2, <2>3, <2>4
<1>2. CASE ~(Len(tncQueue) < TncSize)
  <2>1. heap' = heap /\ tncQueue' = tncQueue
    BY <1>2 DEF WriteTnc
  <2>2. alive' = alive /\ HeapOK'
    BY <2>1 DEF alive, HeapOK
  <2>3. /\ {} \cap alive = {} /\ alive' = alive \cup {}
        /\ Elements(tncQueue') = Elements(tncQueue) \cup {}
    BY <2>1, <2>2
  <2> QED
    BY <2>1, <2>2, <2>3
<1> QED
  BY <1>1, <1>2

------------------------------------------------------------------------------
\* What the steps need of the lists.
LEMMA ListFacts ==
    ASSUME IInv
    PROVE  /\ HeapOK
           /\ sendQueue \in Seq(Objs) /\ Len(sendQueue) <= SendSize /\ NoTwice(sendQueue)
           /\ tncQueue \in Seq(Objs) /\ Len(tncQueue) <= TncSize /\ NoTwice(tncQueue)
           /\ hist \in Seq(Objs) /\ NoTwice(hist)
           /\ Elements(sendQueue) \subseteq alive /\ Elements(tncQueue) \subseteq alive
           /\ Elements(hist) \subseteq alive /\ Held \subseteq alive
           /\ Divided(alive, Elements(sendQueue), Elements(tncQueue), Elements(hist), Held)
  BY DEF IInv, TypeOK, ListsOK, Owned, Divided

LEMMA InitIInv == Init => IInv
<1> SUFFICES ASSUME Init PROVE IInv
  OBVIOUS
<1>1. HeapOK
  BY DEF Init, HeapOK, alive
<1>2. ListsOK
  BY DEF Init, ListsOK
<1>3. ThreadsOK
  BY DEF Init, ThreadsOK, NoAck
<1>4. AckHasKey
  BY DEF Init, AckHasKey, NoAck
<1>5. Elements(<<>>) = {} /\ NoTwice(<<>>)
  BY DEF Elements, NoTwice
<1>6. Owned
  BY <1>5 DEF Init, Owned, Divided, Held, alive
<1> QED
  BY <1>1, <1>2, <1>3, <1>4, <1>6 DEF IInv, TypeOK

LEMMA ProduceInetStep ==
    ASSUME IInv, NEW o \in Objs, ProduceInet(o), UNCHANGED RF_ALLOW
    PROVE  IInv'
<1>1. PICK packet \in Contents : WriteSend(o, packet)
  <2>1. PICK key \in Keys, kind \in {"packet", "status"} :
            WriteSend(o, Packet(key, kind, FALSE))
    BY DEF ProduceInet
  <2> QED
    BY <2>1, PacketIsContents DEF Kinds
<1>2. UNCHANGED <<tncQueue, hist, dq, due, ack, aged, RF_ALLOW>>
  BY DEF ProduceInet
<1>3. /\ HeapOK' /\ sendQueue' \in Seq(Objs) /\ Len(sendQueue') <= SendSize
      /\ NoTwice(sendQueue')
  BY <1>1, ListFacts, WriteSendEffect
<1>4. PICK new \in SUBSET {o} :
        /\ new \cap alive = {} /\ alive' = alive \cup new
        /\ Elements(sendQueue') = Elements(sendQueue) \cup new
  BY <1>1, ListFacts, WriteSendEffect
<1>5. ListsOK' /\ ThreadsOK'
  BY <1>2, <1>3 DEF IInv, TypeOK, ListsOK, ThreadsOK
<1>6. AckHasKey'
  BY <1>2 DEF IInv, AckHasKey
<1>7. Held' = Held /\ tncQueue' = tncQueue /\ hist' = hist
  BY <1>2 DEF Held
<1>8. Owned'
  BY <1>3, <1>4, <1>7, ListFacts DEF Owned, Divided
<1> QED
  BY <1>3, <1>5, <1>6, <1>8 DEF IInv, TypeOK

\* A packet that is written to tncQueue, by a producer or a repeater.
LEMMA WriteTncStep ==
    ASSUME IInv, NEW o \in Objs, NEW packet \in Contents, WriteTnc(o, packet),
           UNCHANGED <<sendQueue, hist, dq>>, ThreadsOK', AckHasKey'
    PROVE  IInv'
<1>1. /\ HeapOK' /\ tncQueue' \in Seq(Objs) /\ Len(tncQueue') <= TncSize
      /\ NoTwice(tncQueue')
  BY ListFacts, WriteTncEffect
<1>2. PICK new \in SUBSET {o} :
        /\ new \cap alive = {} /\ alive' = alive \cup new
        /\ Elements(tncQueue') = Elements(tncQueue) \cup new
  BY ListFacts, WriteTncEffect
<1>3. ListsOK'
  BY <1>1 DEF IInv, TypeOK, ListsOK
<1>4. Held' = Held /\ sendQueue' = sendQueue /\ hist' = hist
  BY DEF Held
<1>5. Owned'
  BY <1>1, <1>2, <1>4, ListFacts DEF Owned, Divided
<1> QED
  BY <1>1, <1>3, <1>5 DEF IInv, TypeOK

LEMMA ProduceTncStep ==
    ASSUME IInv, NEW o \in Objs, ProduceTnc(o), UNCHANGED RF_ALLOW
    PROVE  IInv'
<1>1. PICK packet \in Contents : WriteTnc(o, packet)
  <2>1. PICK key \in Keys, kind \in {"packet", "ack", "udp"} :
            WriteTnc(o, Packet(key, kind, FALSE))
    BY DEF ProduceTnc
  <2> QED
    BY <2>1, PacketIsContents DEF Kinds
<1>2. UNCHANGED <<sendQueue, hist, dq, due, ack, aged, RF_ALLOW>>
  BY DEF ProduceTnc
<1>3. ThreadsOK' /\ AckHasKey'
  BY <1>2 DEF IInv, TypeOK, ThreadsOK, AckHasKey
<1> QED
  BY <1>1, <1>2, <1>3, WriteTncStep

LEMMA AckRepeatStep ==
    ASSUME IInv, NEW a \in AckThreads, AckRepeat(a), UNCHANGED RF_ALLOW
    PROVE  IInv'
<1>1. ack[a].at = "repeat" /\ ack[a].left > 0 /\ ack[a].key \in Keys
  BY DEF AckRepeat, IInv, AckHasKey
<1>2. PICK o \in Objs : WriteTnc(o, Packet(ack[a].key, "ack", TRUE))
  BY DEF AckRepeat
<1>3. Packet(ack[a].key, "ack", TRUE) \in Contents
  BY <1>1, PacketIsContents DEF Kinds
<1>4. /\ ack' = [ack EXCEPT ![a].left = @ - 1]
      /\ UNCHANGED <<sendQueue, hist, dq, due, aged, RF_ALLOW>>
  BY DEF AckRepeat
<1>5. ThreadsOK'
  BY <1>1, <1>4 DEF IInv, TypeOK, ThreadsOK
<1>6. AckHasKey'
  BY <1>4 DEF IInv, TypeOK, ThreadsOK, AckHasKey
<1> QED
  BY <1>2, <1>3, <1>4, <1>5, <1>6, WriteTncStep

\* Steps that leave the objects and the lists alone and change nothing that
\* DeQueue owns.
LEMMA NothingMoves ==
    ASSUME IInv, UNCHANGED <<heap, sendQueue, tncQueue, hist>>, Held' = Held,
           ThreadsOK', AckHasKey'
    PROVE  IInv'
<1>1. alive' = alive /\ HeapOK' /\ ListsOK'
  BY DEF IInv, TypeOK, HeapOK, ListsOK, alive
<1>2. Owned'
  BY <1>1, ListFacts DEF Owned, Divided
<1> QED
  BY <1>1, <1>2 DEF IInv, TypeOK

\* The steps of DeQueue that change no object and no list.
LEMMA QuietSteps ==
    ASSUME IInv, UNCHANGED RF_ALLOW,
           \/ Spacing \/ NotDue \/ TncStartRepeater \/ TncNoRepeater \/ TncSend
           \/ \E a \in AckThreads : AckCopy(a) \/ AckEnd(a)
    PROVE  IInv'
<1> USE DEF At, Go, Return
<1>1. CASE Spacing
  BY <1>1, NothingMoves DEF Spacing, IInv, TypeOK, ThreadsOK, AckHasKey, Held
<1>2. CASE NotDue
  BY <1>2, NothingMoves DEF NotDue, IInv, TypeOK, ThreadsOK, AckHasKey, Held
<1>3. CASE TncStartRepeater
  <2>1. PICK a \in AckThreads :
          ack' = [ack EXCEPT ![a] = [at |-> "start", p |-> dq.abuff,
                                     left |-> ackRepeats, key |-> None]]
    BY <1>3 DEF TncStartRepeater
  <2>2. ThreadsOK' /\ AckHasKey'
    BY <1>3, <2>1 DEF TncStartRepeater, IInv, TypeOK, ThreadsOK, AckHasKey
  <2>3. UNCHANGED <<heap, sendQueue, tncQueue, hist>> /\ Held' = Held
    BY <1>3 DEF TncStartRepeater, Held, IInv, TypeOK, ThreadsOK
  <2> QED
    BY <2>2, <2>3, NothingMoves
<1>4. CASE TncNoRepeater
  <2>1. ThreadsOK' /\ AckHasKey'
    BY <1>4 DEF TncNoRepeater, IInv, TypeOK, ThreadsOK, AckHasKey
  <2>2. UNCHANGED <<heap, sendQueue, tncQueue, hist>> /\ Held' = Held
    BY <1>4 DEF TncNoRepeater, Held, IInv, TypeOK, ThreadsOK
  <2> QED
    BY <2>1, <2>2, NothingMoves
<1>5. CASE TncSend
  BY <1>5, NothingMoves DEF TncSend, IInv, TypeOK, ThreadsOK, AckHasKey, Held
<1>6. ASSUME NEW a \in AckThreads, AckCopy(a) PROVE IInv'
  <2>1. PICK key \in Keys :
          ack' = [ack EXCEPT ![a].at = "repeat", ![a].p = None, ![a].key = key]
    BY <1>6 DEF AckCopy
  <2> DEFINE Repeater == [at : {"none", "start", "repeat"}, p : Objs \cup {None},
                          left : Nat, key : Keys \cup {None}]
             copied == [ack[a] EXCEPT !.at = "repeat", !.p = None, !.key = key]
  <2>2. ack \in [AckThreads -> Repeater] /\ copied \in Repeater
    BY DEF IInv, TypeOK, ThreadsOK
  <2>3. copied.at = "repeat" /\ copied.key = key
    BY <2>2
  <2>4. ack' = [ack EXCEPT ![a] = copied]
    BY <2>1, <2>2
  <2> HIDE DEF copied, Repeater
  <2>5. ack' \in [AckThreads -> Repeater] /\ ack'[a] = copied
        /\ \A b \in AckThreads : b # a => ack'[b] = ack[b]
    BY <2>2, <2>4
  <2>6. ThreadsOK' /\ AckHasKey'
    <3>1. ThreadsOK'
      BY <1>6, <2>5 DEF AckCopy, IInv, TypeOK, ThreadsOK, Repeater
    <3>2. AckHasKey'
      BY <2>3, <2>5 DEF IInv, AckHasKey
    <3> QED
      BY <3>1, <3>2
  <2>7. UNCHANGED <<heap, sendQueue, tncQueue, hist>> /\ Held' = Held
    BY <1>6 DEF AckCopy, Held
  <2> QED
    BY <2>6, <2>7, NothingMoves
<1>7. ASSUME NEW a \in AckThreads, AckEnd(a) PROVE IInv'
  <2>1. ThreadsOK' /\ AckHasKey'
    BY <1>7 DEF AckEnd, NoAck, IInv, TypeOK, ThreadsOK, AckHasKey
  <2>2. UNCHANGED <<heap, sendQueue, tncQueue, hist>> /\ Held' = Held
    BY <1>7 DEF AckEnd, Held
  <2> QED
    BY <2>1, <2>2, NothingMoves
<1> QED
  BY <1>1, <1>2, <1>3, <1>4, <1>5, <1>6, <1>7

\* DeQueue takes a packet from a queue: the queue's packet becomes its own.
LEMMA TakeSteps ==
    ASSUME IInv, UNCHANGED RF_ALLOW, PollTnc \/ TakeInet
    PROVE  IInv'
<1> USE DEF At, Go
<1>1. CASE PollTnc
  <2>1. UNCHANGED <<heap, sendQueue, hist, ack, aged>> /\ due' = FALSE
    BY <1>1 DEF PollTnc
  <2>2. Held = {} /\ AckHasKey'
    BY <1>1, <2>1 DEF PollTnc, Held, IInv, AckHasKey
  <2>3. CASE tncQueue = <<>>
    <3>1. UNCHANGED tncQueue /\ dq' = [dq EXCEPT !.at = "wait"]
      BY <1>1, <2>3 DEF PollTnc
    <3>2. ThreadsOK' /\ Held' = {}
      BY <2>1, <3>1 DEF IInv, TypeOK, ThreadsOK, Held
    <3> QED
      BY <2>1, <2>2, <3>1, <3>2, NothingMoves
  <2>4. CASE tncQueue # <<>>
    <3>1. dq' = [at |-> "tnc", abuff |-> Head(tncQueue)] /\ tncQueue' = Tail(tncQueue)
      BY <1>1, <2>4 DEF PollTnc
    <3>2. /\ Head(tncQueue) \in Elements(tncQueue) /\ Head(tncQueue) \in Objs
          /\ tncQueue' \in Seq(Objs) /\ Len(tncQueue') = Len(tncQueue) - 1
          /\ NoTwice(tncQueue') /\ Elements(tncQueue') = Elements(tncQueue) \ {Head(tncQueue)}
      BY <2>4, <3>1, ListFacts, TailElements
    <3>3. ThreadsOK' /\ Held' = {Head(tncQueue)}
      BY <2>1, <3>1, <3>2 DEF IInv, TypeOK, ThreadsOK, Held
    <3>4. alive' = alive /\ HeapOK' /\ ListsOK'
      <4>1. alive' = alive /\ HeapOK'
        BY <2>1 DEF IInv, TypeOK, HeapOK, alive
      <4>2. Len(tncQueue) <= TncSize /\ Len(tncQueue) \in Nat
        BY ListFacts
      <4>3. ListsOK'
        BY <2>1, <3>2, <4>2 DEF IInv, TypeOK, ListsOK
      <4> QED
        BY <4>1, <4>3
    <3>5. Owned'
      BY <2>1, <2>2, <3>2, <3>3, <3>4, ListFacts DEF Owned, Divided
    <3> QED
      BY <2>2, <3>3, <3>4, <3>5 DEF IInv, TypeOK
  <2> QED
    BY <2>3, <2>4
<1>2. CASE TakeInet
  <2>1. /\ UNCHANGED <<heap, tncQueue, hist, due, ack, aged>> /\ sendQueue # <<>>
        /\ dq' = [at |-> "net", abuff |-> Head(sendQueue)] /\ sendQueue' = Tail(sendQueue)
    BY <1>2 DEF TakeInet
  <2>2. Held = {} /\ AckHasKey'
    BY <1>2, <2>1 DEF TakeInet, Held, IInv, AckHasKey
  <2>3. /\ Head(sendQueue) \in Elements(sendQueue) /\ Head(sendQueue) \in Objs
        /\ sendQueue' \in Seq(Objs) /\ Len(sendQueue') = Len(sendQueue) - 1
        /\ NoTwice(sendQueue') /\ Elements(sendQueue') = Elements(sendQueue) \ {Head(sendQueue)}
    BY <2>1, ListFacts, TailElements
  <2>4. ThreadsOK' /\ Held' = {Head(sendQueue)}
    BY <2>1, <2>3 DEF IInv, TypeOK, ThreadsOK, Held
  <2>5. alive' = alive /\ HeapOK'
    BY <2>1 DEF IInv, TypeOK, HeapOK, alive
  <2>6. ListsOK'
    <3>1. Len(sendQueue) <= SendSize /\ Len(sendQueue) \in Nat
      BY ListFacts
    <3> QED
      BY <2>1, <2>3, <3>1 DEF IInv, TypeOK, ListsOK
  <2>7. Owned'
    BY <2>1, <2>2, <2>3, <2>4, <2>5, ListFacts DEF Owned, Divided
  <2> QED
    BY <2>2, <2>4, <2>5, <2>6, <2>7 DEF IInv, TypeOK
<1> QED
  BY <1>1, <1>2

\* DeQueue deletes the packet it has, if it is its own, and is done with it.
LEMMA DropSteps ==
    ASSUME IInv, UNCHANGED RF_ALLOW, TncForbidden \/ TncDuplicate \/ NetSend
    PROVE  IInv'
<1> USE DEF At, Return
<1>1. PICK l \in {"top", "wait"} : dq' = [at |-> l, abuff |-> None] /\ aged' = FALSE
  BY DEF TncForbidden, TncDuplicate, NetSend
<1>2. UNCHANGED <<sendQueue, tncQueue, hist, due, ack>> /\ Delete(Held)
  BY DEF TncForbidden, TncDuplicate, NetSend, Held
<1>3. HeapOK' /\ alive' = alive \ Held
  BY <1>2, ListFacts, DeleteEffect
<1>4. ListsOK' /\ AckHasKey'
  BY <1>2 DEF IInv, TypeOK, ListsOK, AckHasKey
<1>5. ThreadsOK' /\ Held' = {}
  BY <1>1, <1>2 DEF IInv, TypeOK, ThreadsOK, Held
<1>6. Owned'
  BY <1>2, <1>3, <1>5, ListFacts DEF Owned, Divided
<1> QED
  BY <1>3, <1>4, <1>5, <1>6 DEF IInv, TypeOK

\* DeQueue gives the packet it has to the history list.
LEMMA KeepSteps ==
    ASSUME IInv, UNCHANGED RF_ALLOW, TncKeep \/ NetKeep
    PROVE  IInv'
<1> USE DEF At, Go, Return
<1>1. UNCHANGED <<sendQueue, tncQueue, due, ack>> /\ Held = {dq.abuff}
  BY DEF TncKeep, NetKeep, Held
<1>2. PICK dest \in {destINET, destTNC}, ttl \in Nat : Keep(dq.abuff, dest, ttl)
  BY DEF TncKeep, NetKeep, ttlTNC
<1>3. dq.abuff \in alive /\ dq.abuff \notin Elements(hist)
  BY <1>1, ListFacts DEF Divided
<1>4. HeapOK' /\ hist' \in Seq(Objs) /\ NoTwice(hist')
  BY <1>2, <1>3, ListFacts, KeepEffect
<1>5. PICK gone \in SUBSET Elements(hist) :
        /\ alive' = alive \ gone
        /\ Elements(hist') = (Elements(hist) \ gone) \cup {dq.abuff}
  BY <1>2, <1>3, ListFacts, KeepEffect, ZenonT(60)
<1>6. ListsOK' /\ AckHasKey'
  BY <1>1, <1>4 DEF IInv, TypeOK, ListsOK, AckHasKey
<1>7. ThreadsOK' /\ Held' = {}
  <2>1. aged' \in BOOLEAN
    BY DEF TncKeep, NetKeep, IInv, TypeOK, ThreadsOK
  <2>2. \E l \in {"tncack", "netsend", "wait"}, b \in {dq.abuff, None} :
           dq' = [at |-> l, abuff |-> b]
    BY DEF TncKeep, NetKeep, IInv, TypeOK, ThreadsOK
  <2> QED
    BY <1>1, <2>1, <2>2 DEF IInv, TypeOK, ThreadsOK, Held
<1>8. Owned'
  BY <1>1, <1>3, <1>4, <1>5, <1>7, ListFacts DEF Owned, Divided
<1> QED
  BY <1>4, <1>6, <1>7, <1>8 DEF IInv, TypeOK

LEMMA NetPassStep ==
    ASSUME IInv, UNCHANGED RF_ALLOW, NetPass
    PROVE  IInv'
<1>1. ThreadsOK' /\ AckHasKey'
  BY DEF At, Go, NetPass, IInv, TypeOK, ThreadsOK, AckHasKey
<1>2. UNCHANGED <<heap, sendQueue, tncQueue, hist>> /\ Held' = Held
  BY DEF At, Go, NetPass, Held, IInv, TypeOK, ThreadsOK
<1> QED
  BY <1>1, <1>2, NothingMoves

LEMMA AgeStepKeeps ==
    ASSUME IInv, UNCHANGED RF_ALLOW, DeleteOldItems
    PROVE  IInv'
<1>1. UNCHANGED <<sendQueue, tncQueue, dq, due, ack>> /\ aged' \in BOOLEAN
  BY DEF DeleteOldItems
<1>2. HeapOK' /\ hist' \in Seq(Objs) /\ NoTwice(hist')
  BY ListFacts, AgeEffect
<1>3. PICK gone \in SUBSET Elements(hist) :
        alive' = alive \ gone /\ Elements(hist') = Elements(hist) \ gone
  BY ListFacts, AgeEffect
<1>4. ListsOK' /\ ThreadsOK' /\ AckHasKey'
  BY <1>1, <1>2 DEF IInv, TypeOK, ListsOK, ThreadsOK, AckHasKey
<1>5. Held' = Held
  BY <1>1 DEF Held
<1>6. Owned'
  BY <1>1, <1>2, <1>3, <1>5, ListFacts DEF Owned, Divided
<1> QED
  BY <1>2, <1>4, <1>6 DEF IInv, TypeOK

LEMMA StepIInv == IInv /\ [Next]_vars => IInv'
<1> SUFFICES ASSUME IInv, [Next]_vars PROVE IInv'
  OBVIOUS
<1>1. CASE UNCHANGED vars
  BY <1>1, NothingMoves
     DEF vars, server, IInv, TypeOK, ThreadsOK, AckHasKey, Held
<1>2. CASE Next
  <2>1. UNCHANGED RF_ALLOW
    BY <1>2 DEF Next
  <2> QED
    BY <1>2, <2>1, ProduceInetStep, ProduceTncStep, QuietSteps, TakeSteps, DropSteps,
       KeepSteps, NetPassStep, AckRepeatStep, AgeStepKeeps DEF Next, DeQueue
<1> QED
  BY <1>1, <1>2

------------------------------------------------------------------------------
LEMMA Invariance == Spec => []IInv
  BY InitIInv, StepIInv, PTL DEF Spec

\* Every object, queue, list and thread has the type it is declared with, and
\* a queue never has more packets than places (cpqueue.cpp, aprsd.cpp 813-1010).
THEOREM TypeCorrect == Spec => []TypeOK
<1>1. IInv => TypeOK
  BY DEF IInv
<1> QED
  BY <1>1, Invariance, PTL

\* Nothing leaks and nothing is deleted twice: an object that is allocated is
\* in one queue slot, in one entry of the history list, or DeQueue's own, and
\* what those hold is allocated (aprsd.cpp 821-831, 892, 905).
THEOREM EveryPacketHasOneOwner == Spec => []OneOwner
<1>1. ASSUME IInv, NEW o \in Objs PROVE Owners(o) = IF o \in alive THEN 1 ELSE 0
  <2>1. /\ Times(o, sendQueue) = IF o \in Elements(sendQueue) THEN 1 ELSE 0
        /\ Times(o, tncQueue) = IF o \in Elements(tncQueue) THEN 1 ELSE 0
        /\ Times(o, hist) = IF o \in Elements(hist) THEN 1 ELSE 0
    BY <1>1, ListFacts, CountedOnce DEF Times
  <2>2. HeldByDeQueue(o) = IF o \in Held THEN 1 ELSE 0
    BY DEF HeldByDeQueue, Held
  <2>3. Divided(alive, Elements(sendQueue), Elements(tncQueue), Elements(hist), Held)
    BY <1>1, ListFacts
  <2> DEFINE S == Elements(sendQueue)  T == Elements(tncQueue)  H == Elements(hist)
  <2>4. /\ o \in alive <=> o \in S \/ o \in T \/ o \in H \/ o \in Held
        /\ ~(o \in S /\ o \in T) /\ ~(o \in S /\ o \in H) /\ ~(o \in S /\ o \in Held)
        /\ ~(o \in T /\ o \in H) /\ ~(o \in T /\ o \in Held) /\ ~(o \in H /\ o \in Held)
    BY <2>3 DEF Divided
  <2> HIDE DEF S, T, H
  <2> QED
    BY <2>1, <2>2, <2>4 DEF Owners, S, T, H
<1>2. IInv => OneOwner
  BY <1>1 DEF OneOwner
<1> QED
  BY <1>2, Invariance, PTL

\* While it is sent, a listed packet has not been aged, or once.
Sent ==
    At("netsend") =>
      /\ dq.abuff \in alive
      /\ ~aged => heap[dq.abuff].ttl > AgeStep

LEMMA StepSent ==
    ASSUME ttlDefault > AgeStep, IInv, Sent, [Next]_vars
    PROVE  Sent'
<1> USE DEF At
<1>1. CASE UNCHANGED vars
  BY <1>1 DEF vars, server, Sent, alive
<1>2. ASSUME NEW o \in Objs, ProduceInet(o) PROVE Sent'
  <2>1. PICK packet \in Contents : WriteSend(o, packet)
    <3>1. PICK key \in Keys, kind \in {"packet", "status"} :
              WriteSend(o, Packet(key, kind, FALSE))
      BY <1>2 DEF ProduceInet
    <3> QED
      BY <3>1, PacketIsContents DEF Kinds
  <2>2. \A h \in alive : heap'[h] = heap[h]
    BY <2>1, ListFacts, WriteSendEffect
  <2>3. alive \subseteq alive'
    BY <2>1, ListFacts, WriteSendEffect
  <2> QED
    BY <1>2, <2>2, <2>3 DEF ProduceInet, Sent
<1>3. ASSUME NEW o \in Objs, NEW packet \in Contents, WriteTnc(o, packet),
             UNCHANGED <<dq, aged>>
      PROVE  Sent'
  <2>1. \A h \in alive : heap'[h] = heap[h]
    BY <1>3, ListFacts, WriteTncEffect
  <2>2. alive \subseteq alive'
    BY <1>3, ListFacts, WriteTncEffect
  <2> QED
    BY <1>3, <2>1, <2>2 DEF Sent
<1>4. ASSUME NEW o \in Objs, ProduceTnc(o) PROVE Sent'
  <2>1. PICK packet \in Contents : WriteTnc(o, packet)
    <3>1. PICK key \in Keys, kind \in {"packet", "ack", "udp"} :
              WriteTnc(o, Packet(key, kind, FALSE))
      BY <1>4 DEF ProduceTnc
    <3> QED
      BY <3>1, PacketIsContents DEF Kinds
  <2> QED
    BY <1>3, <1>4, <2>1 DEF ProduceTnc
<1>5. ASSUME NEW a \in AckThreads, AckRepeat(a) PROVE Sent'
  <2>1. PICK o \in Objs : WriteTnc(o, Packet(ack[a].key, "ack", TRUE))
    BY <1>5 DEF AckRepeat
  <2>2. Packet(ack[a].key, "ack", TRUE) \in Contents
    BY <1>5, PacketIsContents DEF Kinds, AckRepeat, IInv, AckHasKey
  <2> QED
    BY <1>3, <1>5, <2>1, <2>2 DEF AckRepeat
<1>6. ASSUME NEW a \in AckThreads, AckCopy(a) \/ AckEnd(a) PROVE Sent'
  BY <1>6 DEF AckCopy, AckEnd, Sent, alive
<1>7. CASE NetKeep
  <2>1. /\ Keep(dq.abuff, destINET, ttlDefault) /\ dq' = [dq EXCEPT !.at = "netsend"]
        /\ Held = {dq.abuff}
    BY <1>7 DEF NetKeep, Go, Held
  <2>2. dq.abuff \in alive /\ dq.abuff \notin Elements(hist)
    BY <2>1, ListFacts DEF Divided
  <2>3. dq.abuff \in alive' /\ heap'[dq.abuff].ttl = ttlDefault
    BY <2>1, <2>2, ListFacts, KeepEffect
  <2>4. dq'.abuff = dq.abuff
    BY <2>1 DEF IInv, TypeOK, ThreadsOK
  <2> QED
    BY <2>3, <2>4 DEF Sent
<1>8. CASE DeleteOldItems
  <2>1. ~aged /\ dq' = dq /\ (At("netsend") => aged')
    BY <1>8 DEF DeleteOldItems
  <2>2. \A h \in alive : heap[h].ttl > AgeStep => h \in alive'
    BY <1>8, ListFacts, AgeEffect
  <2> QED
    BY <2>1, <2>2 DEF Sent
<1>9. CASE Spacing
  BY <1>9 DEF Spacing, Sent, alive
<1>10. CASE \/ PollTnc \/ NotDue \/ TncForbidden \/ TncDuplicate \/ TncKeep
            \/ TncStartRepeater \/ TncNoRepeater \/ TncSend \/ TakeInet \/ NetPass
            \/ NetSend
  <2>1. dq'.at # "netsend"
    BY <1>10 DEF PollTnc, NotDue, TncForbidden, TncDuplicate, TncKeep, TncStartRepeater,
       TncNoRepeater, TncSend, TakeInet, NetPass, NetSend, Go, Return, IInv, TypeOK, ThreadsOK
  <2> QED
    BY <2>1 DEF Sent
<1>11. CASE Next
  BY <1>11, <1>2, <1>4, <1>5, <1>6, <1>7, <1>8, <1>9, <1>10 DEF Next, DeQueue
<1> QED
  BY <1>1, <1>11

\* A packet for the clients exists while it is sent, however the history list
\* is aged meanwhile, when EXPIRE keeps packets for more than the five minutes
\* of one ageing (aprsd.cpp 813-823, 3484-3489).
THEOREM SentPacketsExist ==
    ASSUME ttlDefault > AgeStep
    PROVE  Spec => []SentToClientsExists
<1>1. Init => Sent
  BY DEF Init, Sent, At
<1>2. IInv /\ Sent /\ [Next]_vars => Sent'
  BY StepSent
<1>3. ASSUME IInv, Sent PROVE SentToClientsExists
  <2>1. CASE At("netsend")
    BY <1>3, <2>1 DEF Sent, SentToClientsExists
  <2>2. CASE At("netsenddrop")
    <3>1. Held = {dq.abuff}
      BY <2>2 DEF At, Held
    <3> QED
      BY <1>3, <3>1, ListFacts DEF SentToClientsExists
  <2> QED
    BY <2>1, <2>2 DEF SentToClientsExists
<1>4. IInv /\ Sent => SentToClientsExists
  BY <1>3
<1> QED
  BY <1>1, <1>2, <1>4, Invariance, PTL DEF Spec
==============================================================================
