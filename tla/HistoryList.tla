----------------------------- MODULE HistoryList -----------------------------
(***************************************************************************)
(* The pointers of the history list (history.cpp): a doubly linked list    *)
(* from pHead to pTail with ItemCount nodes, whose nodes are the packets   *)
(* themselves.  It implements module History, where the list is a          *)
(* sequence.                                                               *)
(*                                                                         *)
(* AddHistoryItem (called by DeQueue only) and DeleteOldItems (called by   *)
(* main only) hold pmtxHistory around their loops; each turn of a loop is  *)
(* a step here.  DeleteOldItems reads pHead and pTail once before it takes *)
(* the lock.                                                               *)
(***************************************************************************)
EXTENDS Integers, Sequences, SequencesExt

CONSTANTS
    Objs,        \* addresses
    NULL,
    Packets, RfPackets, NoFile, NoCall, Blank,   \* as in History
    DupWindow, MaxLag, ttlDefault, FileLife, MaxTime, MaxItems

ASSUME AddressAssumption == NULL \notin Objs
ASSUME NumbersAssumption == ttlDefault \in Nat \ {0} /\ MaxItems \in Nat

VARIABLES
    node,       \* the packets that exist: [item, next, last]
    pHead,
    pTail,
    ItemCount,
    call,       \* who holds pmtxHistory, the packet it adds, its loop pointer
    main,       \* main has seen that DeleteOldItems has something to do
    now,
    verdict,
    before      \* what the list was when the lock was taken

vars == <<node, pHead, pTail, ItemCount, call, main, now, verdict, before>>
links == <<node, pHead, pTail, ItemCount>>

Unlocked == [by |-> "nobody", ref |-> NULL, hp |-> NULL]

\* The packets met on the way from pHead, and from pTail.
Forwards ==
    LET from[p \in DOMAIN node \cup {NULL}] ==
          IF p = NULL THEN <<>> ELSE <<p>> \o from[node[p].next]
    IN  from[pHead]

Backwards ==
    LET from[p \in DOMAIN node \cup {NULL}] ==
          IF p = NULL THEN <<>> ELSE <<p>> \o from[node[p].last]
    IN  from[pTail]

Contents == [i \in DOMAIN Forwards |-> node[Forwards[i]].item]

H == INSTANCE History WITH
    list <- IF call.by = "nobody" THEN Contents ELSE before,
    disk <- NoFile, restarts <- 0, MaxRestarts <- 0, cut <- <<>>, Scraps <- {}

Init ==
    /\ node = <<>>
    /\ pHead = NULL
    /\ pTail = NULL
    /\ ItemCount = 0
    /\ call = Unlocked
    /\ main = FALSE
    /\ now = 0
    /\ verdict = NoCall
    /\ before = <<>>

\* Only DupCheck, at the start of AddHistoryItem, asks for the time.
Tick ==
    /\ now < MaxTime
    /\ call.by # "add"
    /\ now' = now + 1
    /\ verdict' = NoCall
    /\ UNCHANGED <<links, call, main, before>>

Unlock == call' = Unlocked /\ before' = <<>>

Return(item, dup) == Unlock /\ verdict' = [item |-> item, dup |-> dup]

\* The packet that is to be stored, in no list yet.
Arrives(o, item) ==
    node' = [p \in DOMAIN node \cup {o} |->
               IF p = o THEN [item |-> item, next |-> NULL, last |-> NULL]
                        ELSE node[p]]

\* The list is empty: the packet becomes head and tail.
AddFirst(o, item) ==
    /\ pTail = NULL
    /\ Arrives(o, item)
    /\ pHead' = o
    /\ pTail' = o
    /\ ItemCount' = ItemCount + 1
    /\ Return(item, FALSE)

\* DupCheck walks back from pTail.  A duplicate is deleted by the caller.
IsDup(item) ==
    H!DupCheck([i \in DOMAIN Backwards |-> node[Reverse(Backwards)[i]].item], item)

AddDuplicate(item) ==
    /\ pTail # NULL
    /\ IsDup(item)
    /\ Return(item, TRUE)
    /\ UNCHANGED links

\* DeleteItem has nothing to do if pHead = pTail.
AddBegin(o, item) ==
    /\ pTail # NULL
    /\ ~IsDup(item)
    /\ Arrives(o, item)
    /\ call' = [by |-> "add", ref |-> o,
                hp |-> IF pHead = pTail THEN NULL ELSE pHead]
    /\ before' = Contents
    /\ UNCHANGED <<pHead, pTail, ItemCount, verdict>>

AddHistoryItem(item) ==
    /\ call.by = "nobody"
    /\ Len(Contents) < MaxItems
    /\ \/ AddDuplicate(item)
       \/ \E o \in Objs \ DOMAIN node : AddFirst(o, item) \/ AddBegin(o, item)
    /\ UNCHANGED <<main, now>>

\* DeleteHistoryItem: unlink hp from its two neighbours, then delete it.
Unlinked(nodes, hp) ==
    LET li == nodes[hp].last
        ni == nodes[hp].next
    IN  [p \in DOMAIN nodes \ {hp} |->
           [nodes[p] EXCEPT !.next = IF p = li THEN ni ELSE @,
                            !.last = IF p = ni THEN li ELSE @]]

\* Bugs to look for: the tail is not moved, or the packet is not deleted.
DeleteKeepsTail(nodes, hp) ==
    /\ node' = Unlinked(nodes, hp)
    /\ pHead' = IF hp = pHead THEN nodes[hp].next ELSE pHead
    /\ ItemCount' = ItemCount - 1
    /\ UNCHANGED pTail

UnlinkOnly(nodes, hp) ==
    /\ node' = [p \in DOMAIN nodes |->
                 IF p = hp THEN nodes[hp] ELSE Unlinked(nodes, hp)[p]]
    /\ pHead' = IF hp = pHead THEN nodes[hp].next ELSE pHead
    /\ pTail' = IF hp = pTail THEN nodes[hp].last ELSE pTail
    /\ ItemCount' = ItemCount - 1

DeleteHistoryItem(nodes, hp) ==
    /\ node' = Unlinked(nodes, hp)
    /\ pHead' = IF hp = pHead THEN nodes[hp].next ELSE pHead
    /\ pTail' = IF hp = pTail THEN nodes[hp].last ELSE pTail
    /\ ItemCount' = ItemCount - 1

\* One turn of a loop; pNext is read before hp may be deleted.
Advance == call' = [call EXCEPT !.hp = node[call.hp].next]

DeleteItem ==
    /\ call.by = "add"
    /\ call.hp # NULL
    /\ IF H!SameKey(node[call.hp].item, node[call.ref].item)
       THEN DeleteHistoryItem(node, call.hp)
       ELSE UNCHANGED links
    /\ Advance
    /\ UNCHANGED <<main, now, verdict, before>>

\* A bug to look for: the new tail is linked one way only.
AddLastOneWay ==
    /\ call.by = "add"
    /\ call.hp = NULL
    /\ LET o == call.ref IN
         /\ IF ItemCount = 0
            THEN pHead' = o /\ UNCHANGED node
            ELSE node' = [node EXCEPT ![pTail].next = o] /\ UNCHANGED pHead
         /\ pTail' = o
         /\ Return(node[o].item, FALSE)
    /\ ItemCount' = ItemCount + 1
    /\ UNCHANGED <<main, now>>

AddLast ==
    /\ call.by = "add"
    /\ call.hp = NULL
    /\ LET o == call.ref IN
         /\ IF ItemCount = 0
            THEN pHead' = o /\ UNCHANGED node
            ELSE /\ node' = [node EXCEPT ![pTail].next = o, ![o].last = pTail]
                 /\ UNCHANGED pHead
         /\ pTail' = o
         /\ Return(node[o].item, FALSE)
    /\ ItemCount' = ItemCount + 1
    /\ UNCHANGED <<main, now>>

\* if ((pHead == NULL) || (pHead == pTail)) return 0; without the lock.
AgeLook ==
    /\ ~main
    /\ pHead # NULL /\ pHead # pTail
    /\ main' = TRUE
    /\ UNCHANGED <<links, call, now, verdict, before>>

AgeBegin ==
    /\ main
    /\ call.by = "nobody"
    /\ main' = FALSE
    /\ call' = [by |-> "age", ref |-> NULL, hp |-> pHead]
    /\ before' = Contents
    /\ UNCHANGED <<links, now, verdict>>

\* A bug to look for: ttl zero does not count as old.
DeleteOlderItems ==
    /\ call.by = "age"
    /\ call.hp # NULL
    /\ LET older == [node EXCEPT ![call.hp].item.ttl = @ - H!AgeStep] IN
         IF older[call.hp].item.ttl < 0
         THEN DeleteHistoryItem(older, call.hp)
         ELSE node' = older /\ UNCHANGED <<pHead, pTail, ItemCount>>
    /\ Advance
    /\ UNCHANGED <<main, now, verdict, before>>

DeleteOldItems ==
    /\ call.by = "age"
    /\ call.hp # NULL
    /\ LET older == [node EXCEPT ![call.hp].item.ttl = @ - H!AgeStep] IN
         IF older[call.hp].item.ttl <= 0
         THEN DeleteHistoryItem(older, call.hp)
         ELSE node' = older /\ UNCHANGED <<pHead, pTail, ItemCount>>
    /\ Advance
    /\ UNCHANGED <<main, now, verdict, before>>

AgeEnd ==
    /\ call.by = "age"
    /\ call.hp = NULL
    /\ Unlock
    /\ verdict' = NoCall
    /\ UNCHANGED <<links, main, now>>

Next ==
    \/ Tick
    \/ \E p \in Packets, t \in H!Created :
          AddHistoryItem(H!Entry(p, H!destINET, ttlDefault, t, TRUE, FALSE))
    \/ \E p \in RfPackets, t \in H!Created, a \in BOOLEAN :
          AddHistoryItem(H!Entry(p, H!destTNC, H!ttlTNC, t, FALSE, a))
    \/ DeleteItem \/ AddLast
    \/ AgeLook \/ AgeBegin \/ DeleteOldItems \/ AgeEnd

Spec == Init /\ [][Next]_vars
------------------------------------------------------------------------------
TypeOK ==
    /\ DOMAIN node \subseteq Objs
    /\ {pHead, pTail, call.ref, call.hp} \subseteq DOMAIN node \cup {NULL}
    /\ ItemCount \in 0 .. MaxItems
    /\ call.by \in {"nobody", "add", "age"}

\* The list reads the same both ways and has ItemCount nodes, also while
\* nodes are being deleted; a dangling or a lost pointer would show here
\* (history.cpp 168-187: four pointers and a counter per deletion).
WellLinked ==
    /\ Backwards = Reverse(Forwards)
    /\ ItemCount = Len(Forwards)

\* Every packet is in the list, but for the one that is being added: none
\* leaks, none is listed that was deleted (history.cpp 121-151, 179).
NoLeak == DOMAIN node = ToSet(Forwards) \cup ({call.ref} \ {NULL})

\* The linked list is a correct implementation of the sequence.
ImplementsHistory == H!Spec
==============================================================================
