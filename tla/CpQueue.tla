------------------------------- MODULE CpQueue -------------------------------
(***************************************************************************)
(* class cpQueue (cpqueue.cpp): the ring buffer through which every thread *)
(* of aprsd hands pointers to another one: sendQueue, tncQueue, charQueue  *)
(* and conQueue are four of them.                                          *)
(*                                                                         *)
(* write() and ready() and read() each run their body under Q_mutex, so    *)
(* each body is one action.  What is NOT atomic is what every reader does: *)
(* it calls ready(), and when that said TRUE it calls read(), which takes  *)
(* the slot at read_p without looking at its rdy flag.                     *)
(*                                                                         *)
(* lock, inRead and inWrite only concern the destructor, which no thread   *)
(* calls while the server runs: lock is 0 throughout.  getItemsQueued()    *)
(* and the pointer getters only read.                                      *)
(***************************************************************************)
EXTENDS Naturals, Integers, Sequences

CONSTANTS
    Size,        \* number of slots, the constructor's n
    Readers,     \* threads that poll this queue
    Ptrs,        \* the objects whose pointers are queued
    Cmds,        \* the integers queued along with them
    NULL,        \* the NULL pointer
    MaxOverrun   \* bound on overrun, for model checking

ASSUME SizeAssumption == Size \in Nat \ {0}
ASSUME CmdsAssumption == Cmds # {}
ASSUME BoundAssumption == MaxOverrun \in Nat

VARIABLES
    base_p,       \* the slots: a pointer, an integer and the ready flag
    write_p,      \* slot the next write fills
    read_p,       \* slot the next read empties
    itemsQueued,  \* the statistic shown to the users
    overrun,      \* writes refused
    saw,          \* the readers whose last ready() said TRUE
    got           \* what read() last returned to each reader

vars == <<base_p, write_p, read_p, itemsQueued, overrun, saw, got>>

Slots == 0 .. Size - 1
Msgs == [qcp : Ptrs \cup {NULL}, qcmd : Cmds]
NoMsg == [qcp |-> NULL, qcmd |-> CHOOSE n \in Cmds : TRUE]

\* What read() leaves in a slot: the pointer is cleared, the integer stays.
Emptied(slot) ==
    [msg |-> [qcp |-> NULL, qcmd |-> slot.msg.qcmd], rdy |-> FALSE]

\* A bug to look for: the test for the last slot is off by one.
WrapLate(idx) == IF idx > Size THEN idx - Size ELSE idx

\* idx++; if (idx >= size) idx = 0;
Wrap(idx) == IF idx >= Size THEN idx - Size ELSE idx

Init ==
    /\ base_p = [i \in Slots |-> [msg |-> NoMsg, rdy |-> FALSE]]
    /\ write_p = 0
    /\ read_p = 0
    /\ itemsQueued = 0
    /\ overrun = 0
    /\ saw = {}
    /\ got = [r \in Readers |-> NoMsg]

\* A bug to look for: a full ring is not noticed.
WriteUnchecked(m) ==
    /\ base_p' = [base_p EXCEPT ![write_p] = [msg |-> m, rdy |-> TRUE]]
    /\ write_p' = Wrap(write_p + 1)
    /\ itemsQueued' = itemsQueued + 1
    /\ UNCHANGED <<read_p, overrun, saw, got>>

WriteStored(m) ==
    /\ ~base_p[write_p].rdy
    /\ base_p' = [base_p EXCEPT ![write_p] = [msg |-> m, rdy |-> TRUE]]
    /\ write_p' = Wrap(write_p + 1)
    /\ itemsQueued' = itemsQueued + 1
    /\ UNCHANGED <<read_p, overrun, saw, got>>

\* A bug to look for: the newest message replaces the oldest one.
WriteOverwrites(m) ==
    /\ base_p[write_p].rdy
    /\ overrun < MaxOverrun
    /\ overrun' = overrun + 1
    /\ base_p' = [base_p EXCEPT ![write_p].msg = m]
    /\ UNCHANGED <<write_p, read_p, itemsQueued, saw, got>>

\* The refused object is the writer's no longer: a queue made with dyn = TRUE
\* deletes it.
WriteRefused(m) ==
    /\ base_p[write_p].rdy
    /\ overrun < MaxOverrun
    /\ overrun' = overrun + 1
    /\ UNCHANGED <<base_p, write_p, read_p, itemsQueued, saw, got>>

Write(m) == WriteStored(m) \/ WriteRefused(m)

\* A bug to look for: the reader does not ask whether there is something.
ReadyUnchecked(r) ==
    /\ r \notin saw
    /\ saw' = saw \cup {r}
    /\ UNCHANGED <<base_p, write_p, read_p, itemsQueued, overrun, got>>

Ready(r) ==
    /\ r \notin saw
    /\ base_p[read_p].rdy
    /\ saw' = saw \cup {r}
    /\ UNCHANGED <<base_p, write_p, read_p, itemsQueued, overrun, got>>

\* A bug to look for: the message is handed out and stays in its slot.
ReadWithoutTaking(r) ==
    /\ r \in saw
    /\ got' = [got EXCEPT ![r] = base_p[read_p].msg]
    /\ saw' = saw \ {r}
    /\ UNCHANGED <<base_p, write_p, read_p, itemsQueued, overrun>>

Read(r) ==
    /\ r \in saw
    /\ got' = [got EXCEPT ![r] = base_p[read_p].msg]
    /\ base_p' = [base_p EXCEPT ![read_p] = Emptied(@)]
    /\ read_p' = Wrap(read_p + 1)
    /\ itemsQueued' = itemsQueued - 1
    /\ saw' = saw \ {r}
    /\ UNCHANGED <<write_p, overrun>>

Next ==
    \/ \E m \in Msgs : Write(m)
    \/ \E r \in Readers : Ready(r) \/ Read(r)

\* A reader is a loop around ready() and read() that never ends; nothing
\* makes a writer write.
Fairness == \A r \in Readers : WF_vars(Ready(r)) /\ WF_vars(Read(r))

Spec == Init /\ [][Next]_vars
FairSpec == Spec /\ Fairness
------------------------------------------------------------------------------
TypeOK ==
    /\ base_p \in [Slots -> [msg : Msgs, rdy : BOOLEAN]]
    /\ write_p \in Slots
    /\ read_p \in Slots
    /\ itemsQueued \in Int
    /\ overrun \in 0 .. MaxOverrun
    /\ saw \subseteq Readers
    /\ got \in [Readers -> Msgs]

\* The slot k places after read_p.
At(k) == Wrap(read_p + k)

\* The ready slots are the itemsQueued ones that start at read_p, and write_p
\* is the first free one after them: the shape that write(), read() and
\* ready() rely on without checking it (cpqueue.cpp 89, 150-156, 168).
Contiguous ==
    /\ itemsQueued \in 0 .. Size
    /\ write_p = At(itemsQueued)
    /\ \A k \in Slots : base_p[At(k)].rdy <=> k < itemsQueued

\* A reader that was told "ready" still finds a message when it comes back
\* for it, however many writes happened in between: read() never hands out
\* what an emptied slot holds (cpqueue.cpp 145-161, which ignores rdy).
ReadFindsData == saw # {} => base_p[read_p].rdy

\* At most one thread reads: the use that sendQueue (DeQueue),
\* tncQueue (dequeueTNC) and conQueue (main) are put to.
SingleReader == \A r, s \in Readers : r = s

\* The queue drains: whatever is in the slot a reader looks at is taken out,
\* and so every accepted message leaves the queue in the end.
Drains == \A i \in Slots : base_p[i].rdy ~> ~base_p[i].rdy

\* cpQueue is a bounded FIFO that drops the newest message.
Fifo == INSTANCE BoundedFifo WITH
    None    <- NoMsg,
    queue   <- [k \in 1 .. itemsQueued |-> base_p[At(k - 1)].msg],
    refused <- overrun,
    taken   <- got

ImplementsFifo == Fifo!FifoSpec
==============================================================================
