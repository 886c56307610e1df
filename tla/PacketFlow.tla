------------------------------ MODULE PacketFlow ------------------------------
(***************************************************************************)
(* The life of a packet object (aprsString) from the thread that creates   *)
(* it to its delete: through sendQueue and DeQueue to the clients, or      *)
(* through tncQueue and dequeueTNC to the radio, with the history list as  *)
(* the last owner of most of them.                                         *)
(*                                                                         *)
(* Four kinds of threads share the objects: the producers (ReadCom, the    *)
(* session, IGATE and UDP threads, main), DeQueue, the ACK repeaters       *)
(* that dequeueTNC starts, and main, which ages the history list.  The     *)
(* queues are bounded FIFOs that delete what they refuse (CpQueue); the    *)
(* history list keeps or refuses a packet (History).                       *)
(*                                                                         *)
(* DeQueue is the only thread that adds to the history list and the only   *)
(* one that reads the two queues.                                          *)
(***************************************************************************)
EXTENDS Integers, Sequences, FiniteSets, SequencesExt, Functions, Lists

CONSTANTS
    Objs,         \* addresses of objects
    Keys,         \* a packet's station and type
    AckThreads,   \* ACK repeaters that may run at a time
    SendSize,     \* size of sendQueue
    TncSize,      \* size of tncQueue
    tncPresent,   \* there is a TNC
    ackRepeats,   \* repetitions of an ack
    ttlDefault    \* minutes a packet for the Internet stays in the list

ASSUME ConfigAssumption ==
    /\ tncPresent \in BOOLEAN
    /\ ackRepeats \in Nat /\ ttlDefault \in Nat
    /\ SendSize \in Nat /\ TncSize \in Nat

destINET == "inet"
destTNC  == "tnc"
ttlTNC  == 5   \* dequeueTNC: abuff->ttl = 5
AgeStep == 5   \* main: DeleteOldItems(5)

VARIABLES
    heap,       \* the allocated objects and their contents
    sendQueue,
    tncQueue,
    hist,       \* the history list, oldest first
    dq,         \* DeQueue: where it is, and its abuff
    due,        \* tncPktSpacing has passed since tncQueue was polled
    ack,        \* the ACK repeaters: where they are, the pointer they were
                \* given, the copies still to send
    aged,       \* DeleteOldItems ran since DeQueue took the packet it has
    RF_ALLOW    \* the sysop allows Internet to RF traffic: serverConfig sets
                \* it before the threads start

server == <<heap, sendQueue, tncQueue, hist, dq, due, ack, aged>>
vars == <<server, RF_ALLOW>>

None == "none"
Kinds == {"packet", "ack", "udp", "status"}
NoAck == [at |-> "none", p |-> None, left |-> 0, key |-> None]

\* Packets that are not kept - comments, third party posits, EchoMask srcSTATS
\* or srcSYSTEM - are of kind "status" here; allowdup marks a repeated ack.
Packet(key, kind, allowdup) ==
    [key |-> key, kind |-> kind, allowdup |-> allowdup, dest |-> None, ttl |-> 0]

alive == DOMAIN heap
New(o, packet) ==
    heap' = [h \in alive \cup {o} |-> IF h = o THEN packet ELSE heap[h]]
Delete(gone) == heap' = Restrict(heap, alive \ gone)

Init ==
    /\ heap = <<>>
    /\ sendQueue = <<>>
    /\ tncQueue = <<>>
    /\ hist = <<>>
    /\ dq = [at |-> "top", abuff |-> None]
    /\ due = FALSE
    /\ ack = [a \in AckThreads |-> NoAck]
    /\ aged = FALSE
    /\ RF_ALLOW \in BOOLEAN

\* A bug to look for: the queue takes one packet too many.
WriteSendOverfull(o, packet) ==
    /\ o \notin alive
    /\ IF Len(sendQueue) <= SendSize
       THEN New(o, packet) /\ sendQueue' = Append(sendQueue, o)
       ELSE UNCHANGED <<heap, sendQueue>>

\* new aprsString(..); queue.write(..): the queue deletes what it refuses.
WriteSend(o, packet) ==
    /\ o \notin alive
    /\ IF Len(sendQueue) < SendSize
       THEN New(o, packet) /\ sendQueue' = Append(sendQueue, o)
       ELSE UNCHANGED <<heap, sendQueue>>

WriteTnc(o, packet) ==
    /\ o \notin alive
    /\ IF Len(tncQueue) < TncSize
       THEN New(o, packet) /\ tncQueue' = Append(tncQueue, o)
       ELSE UNCHANGED <<heap, tncQueue>>

ProduceInet(o) ==
    /\ \E key \in Keys, kind \in {"packet", "status"} :
          WriteSend(o, Packet(key, kind, FALSE))
    /\ UNCHANGED <<tncQueue, hist, dq, due, ack, aged>>

ProduceTnc(o) ==
    /\ \E key \in Keys, kind \in {"packet", "ack", "udp"} :
          WriteTnc(o, Packet(key, kind, FALSE))
    /\ UNCHANGED <<sendQueue, hist, dq, due, ack, aged>>

------------------------------------------------------------------------------
\* AddHistoryItem as DeQueue sees it.  Whether a listed packet of the same key
\* is young and says the same, so that this one is its duplicate, is left open.
\* A packet that is kept replaces those of its key, unless the list has a
\* single entry.
Listed(o, dest) ==
    {h \in ToSet(hist) : heap[h].dest = dest /\ heap[h].key = heap[o].key}

MayBeDuplicate(o, dest) == ~heap[o].allowdup /\ Listed(o, dest) # {}

Keep(o, dest, ttl) ==
    LET replaced == IF Len(hist) <= 1 THEN {} ELSE Listed(o, dest) IN
    /\ hist' = Append(Keeping(hist, alive \ replaced), o)
    /\ heap' = [h \in alive \ replaced |->
                  IF h = o THEN [heap[o] EXCEPT !.dest = dest, !.ttl = ttl]
                  ELSE heap[h]]

At(l) == dq.at = l
Go(l) == dq' = [dq EXCEPT !.at = l]
Return(l) == dq' = [at |-> l, abuff |-> None] /\ aged' = FALSE

\* tncPktSpacing microseconds are over.
Spacing ==
    /\ ~due
    /\ due' = TRUE
    /\ UNCHANGED <<heap, sendQueue, tncQueue, hist, dq, ack, aged>>

\* A bug to look for: the Internet goes first.
PollTncIfIdle ==
    /\ At("top") \/ (At("wait") /\ sendQueue = <<>>)
    /\ due
    /\ due' = FALSE
    /\ IF tncQueue = <<>> \/ sendQueue # <<>>
       THEN Go("wait") /\ UNCHANGED tncQueue
       ELSE /\ dq' = [at |-> "tnc", abuff |-> Head(tncQueue)]
            /\ tncQueue' = Tail(tncQueue)
    /\ UNCHANGED <<heap, sendQueue, hist, ack, aged>>

\* tncQueue is looked at once per turn of the outer loop, and while DeQueue
\* waits for sendQueue, if it is due.  Afterwards DeQueue waits.
PollTnc ==
    /\ At("top") \/ (At("wait") /\ sendQueue = <<>>)
    /\ due
    /\ due' = FALSE
    /\ IF tncQueue = <<>>
       THEN Go("wait") /\ UNCHANGED tncQueue
       ELSE /\ dq' = [at |-> "tnc", abuff |-> Head(tncQueue)]
            /\ tncQueue' = Tail(tncQueue)
    /\ UNCHANGED <<heap, sendQueue, hist, ack, aged>>

NotDue ==
    /\ At("top")
    /\ ~due
    /\ Go("wait")
    /\ UNCHANGED <<heap, sendQueue, tncQueue, hist, due, ack, aged>>

\* dequeueTNC
MayTransmit(o) == RF_ALLOW \/ heap[o].kind = "udp"

TncForbidden ==
    /\ At("tnc")
    /\ ~MayTransmit(dq.abuff)
    /\ Delete({dq.abuff})
    /\ Return("wait")
    /\ UNCHANGED <<sendQueue, tncQueue, hist, due, ack>>

\* A bug to look for: a duplicate is dropped and not deleted.
TncDuplicateLeaks ==
    /\ At("tnc")
    /\ MayTransmit(dq.abuff)
    /\ MayBeDuplicate(dq.abuff, destTNC)
    /\ Return("wait")
    /\ UNCHANGED <<heap, sendQueue, tncQueue, hist, due, ack>>

TncDuplicate ==
    /\ At("tnc")
    /\ MayTransmit(dq.abuff)
    /\ MayBeDuplicate(dq.abuff, destTNC)
    /\ Delete({dq.abuff})
    /\ Return("wait")
    /\ UNCHANGED <<sendQueue, tncQueue, hist, due, ack>>

TncKeep ==
    /\ At("tnc")
    /\ MayTransmit(dq.abuff)
    /\ Keep(dq.abuff, destTNC, ttlTNC)
    /\ IF tncPresent THEN Go("tncack") /\ UNCHANGED aged ELSE Return("wait")
    /\ UNCHANGED <<sendQueue, tncQueue, due, ack>>

\* What is read from a deleted object may be anything.
Says(o, P(_)) == o \in alive => P(heap[o])

\* The repeater is given the pointer, not a copy.
TncStartRepeater ==
    /\ At("tncack")
    /\ Says(dq.abuff, LAMBDA p : p.kind = "ack" /\ ~p.allowdup)
    /\ ackRepeats > 0
    /\ \E a \in AckThreads :
          /\ ack[a].at = "none"
          /\ ack' = [ack EXCEPT ![a] = [at |-> "start", p |-> dq.abuff,
                                        left |-> ackRepeats, key |-> None]]
    /\ Go("tncsend")
    /\ UNCHANGED <<heap, sendQueue, tncQueue, hist, due, aged>>

\* Nothing to repeat, or pthread_create fails.
TncNoRepeater ==
    /\ At("tncack")
    /\ \/ Says(dq.abuff, LAMBDA p : p.kind # "ack" \/ p.allowdup)
       \/ ackRepeats = 0
       \/ \A a \in AckThreads : ack[a].at # "none"
    /\ Go("tncsend")
    /\ UNCHANGED <<heap, sendQueue, tncQueue, hist, due, ack, aged>>

\* Written to the TNC, or not, if a sysop has muted it.
TncSend ==
    /\ At("tncsend")
    /\ Return("wait")
    /\ UNCHANGED <<heap, sendQueue, tncQueue, hist, due, ack>>

\* DeQueue proper
TakeInet ==
    /\ At("wait")
    /\ sendQueue # <<>>
    /\ dq' = [at |-> "net", abuff |-> Head(sendQueue)]
    /\ sendQueue' = Tail(sendQueue)
    /\ UNCHANGED <<heap, tncQueue, hist, due, ack, aged>>

\* A bug to look for: a packet for the clients gets the ttl of the radio.
NetKeepBriefly ==
    /\ At("net")
    /\ heap[dq.abuff].kind # "status"
    /\ Keep(dq.abuff, destINET, ttlTNC)
    /\ Go("netsend")
    /\ UNCHANGED <<sendQueue, tncQueue, due, ack, aged>>

NetKeep ==
    /\ At("net")
    /\ heap[dq.abuff].kind # "status"
    /\ Keep(dq.abuff, destINET, ttlDefault)
    /\ Go("netsend")
    /\ UNCHANGED <<sendQueue, tncQueue, due, ack, aged>>

NetPass ==
    /\ At("net")
    /\ heap[dq.abuff].kind = "status" \/ MayBeDuplicate(dq.abuff, destINET)
    /\ Go("netsenddrop")
    /\ UNCHANGED <<heap, sendQueue, tncQueue, hist, due, ack, aged>>

\* SendToAllClients(abuff); if(noHist || dup) delete abuff;
NetSend ==
    /\ At("netsend") \/ At("netsenddrop")
    /\ Delete(IF At("netsenddrop") THEN {dq.abuff} ELSE {})
    /\ Return("top")
    /\ UNCHANGED <<sendQueue, tncQueue, hist, due, ack>>

------------------------------------------------------------------------------
\* ACKrepeaterThread: aprsString abuff(*paprs); copies it when it gets to run.
AckCopy(a) ==
    /\ ack[a].at = "start"
    /\ \E key \in Keys :
          /\ Says(ack[a].p, LAMBDA p : p.key = key)
          /\ ack' = [ack EXCEPT ![a].at = "repeat", ![a].p = None, ![a].key = key]
    /\ UNCHANGED <<heap, sendQueue, tncQueue, hist, dq, due, aged>>

AckRepeat(a) ==
    /\ ack[a].at = "repeat"
    /\ ack[a].left > 0
    /\ \E o \in Objs : WriteTnc(o, Packet(ack[a].key, "ack", TRUE))
    /\ ack' = [ack EXCEPT ![a].left = @ - 1]
    /\ UNCHANGED <<sendQueue, hist, dq, due, aged>>

AckEnd(a) ==
    /\ ack[a].at = "repeat"
    /\ ack[a].left = 0
    /\ ack' = [ack EXCEPT ![a] = NoAck]
    /\ UNCHANGED <<heap, sendQueue, tncQueue, hist, dq, due, aged>>

\* main, every five minutes; DeQueue is done with a packet in less.
DeleteOldItems ==
    /\ ~aged
    /\ aged' = ~(At("top") \/ At("wait"))
    /\ Len(hist) > 1
    /\ LET old == {o \in ToSet(hist) : heap[o].ttl <= AgeStep} IN
         /\ hist' = Keeping(hist, alive \ old)
         /\ heap' = [o \in alive \ old |->
                       IF o \in ToSet(hist)
                       THEN [heap[o] EXCEPT !.ttl = @ - AgeStep] ELSE heap[o]]
    /\ UNCHANGED <<sendQueue, tncQueue, dq, due, ack>>

DeQueue ==
    \/ PollTnc \/ NotDue
    \/ TncForbidden \/ TncDuplicate \/ TncKeep
    \/ TncStartRepeater \/ TncNoRepeater \/ TncSend
    \/ TakeInet \/ NetKeep \/ NetPass \/ NetSend

Next ==
    /\ \/ \E o \in Objs : ProduceInet(o) \/ ProduceTnc(o)
       \/ Spacing
       \/ DeQueue
       \/ \E a \in AckThreads : AckCopy(a) \/ AckRepeat(a) \/ AckEnd(a)
       \/ DeleteOldItems
    /\ UNCHANGED RF_ALLOW

Spec == Init /\ [][Next]_vars

\* Time passes and DeQueue never sleeps for good; producers need do nothing.
Fairness == WF_server(Spacing) /\ WF_server(DeQueue)

FairSpec == Spec /\ Fairness
------------------------------------------------------------------------------
Contents == [key : Keys, kind : Kinds, allowdup : BOOLEAN,
             dest : {None, destINET, destTNC}, ttl : Nat]

HeapOK == alive \subseteq Objs /\ heap \in [alive -> Contents]

ListsOK ==
    /\ sendQueue \in Seq(Objs) /\ Len(sendQueue) <= SendSize
    /\ tncQueue \in Seq(Objs) /\ Len(tncQueue) <= TncSize
    /\ hist \in Seq(Objs)

ThreadsOK ==
    /\ dq \in [at : {"top", "wait", "tnc", "tncack", "tncsend",
                     "net", "netsend", "netsenddrop"},
               abuff : Objs \cup {None}]
    /\ ack \in [AckThreads -> [at : {"none", "start", "repeat"}, p : Objs \cup {None},
                              left : Nat, key : Keys \cup {None}]]
    /\ due \in BOOLEAN /\ aged \in BOOLEAN /\ RF_ALLOW \in BOOLEAN

TypeOK == HeapOK /\ ListsOK /\ ThreadsOK

\* The places that own an object: the queue slots and list entries that hold
\* it, and DeQueue while it holds an object that is not in the history list.
Times(o, s) == Cardinality({i \in DOMAIN s : s[i] = o})
HeldByDeQueue(o) ==
    IF dq.abuff = o /\ dq.at \in {"tnc", "net", "netsenddrop"} THEN 1 ELSE 0
Owners(o) ==
    Times(o, sendQueue) + Times(o, tncQueue) + Times(o, hist) + HeldByDeQueue(o)

\* Nothing leaks and nothing is deleted twice: every object that is allocated
\* has exactly one owner, and no queue, list or DeQueue holds one that is not
\* (aprsd.cpp 821-831, 892, 905; "This is a debugging tool to help find
\* memory leaks", aprsddoc.html).
OneOwner == \A o \in Objs : Owners(o) = IF o \in alive THEN 1 ELSE 0

\* A packet that goes to the clients exists while it is sent, although the
\* history list already owns it and main ages that list meanwhile: the first
\* ageing leaves it alone (aprsd.cpp 813-823, 3484-3489).
SentToClientsExists == At("netsend") \/ At("netsenddrop") => dq.abuff \in alive

\* Nothing waits for the radio for ever, however busy the Internet side is
\* (aprsd.cpp 774-790).
TncQueueServed == \A o \in Objs : Times(o, tncQueue) > 0 ~> Times(o, tncQueue) = 0

\* "A pointer to the ack packet is passed to this thread.  This thread puts
\* additional identical ack packets into the TNC queue." (aprsd.cpp 843-845):
\* the packet is there to be copied when the thread starts.
AckIsThereToRepeat == \A a \in AckThreads : ack[a].at = "start" => ack[a].p \in alive
==============================================================================
