--------------------------- MODULE CpQueue_proofs ---------------------------
(***************************************************************************)
(* Proofs about cpQueue, for every size, any objects and any number of     *)
(* writers.  Type correctness holds however the queue is used; everything  *)
(* else needs that only one thread reads it.                               *)
(***************************************************************************)
EXTENDS CpQueue, TLAPS

LEMMA NoMsgIsMsg == NoMsg \in Msgs
BY CmdsAssumption DEF NoMsg, Msgs

\* Every variable of the ring keeps its type: both indices stay inside the
\* array whatever readers and writers do (cpqueue.cpp 78-161).
THEOREM TypeCorrect == Spec => []TypeOK
<1> USE DEF TypeOK, Slots
<1>1. Init => TypeOK
  BY SizeAssumption, BoundAssumption, NoMsgIsMsg DEF Init
<1>2. TypeOK /\ [Next]_vars => TypeOK'
  <2> SUFFICES ASSUME TypeOK, [Next]_vars PROVE TypeOK'
    OBVIOUS
  <2>1. ASSUME NEW m \in Msgs, WriteStored(m) PROVE TypeOK'
    BY <2>1, SizeAssumption DEF WriteStored, Wrap
  <2>2. ASSUME NEW m \in Msgs, WriteRefused(m) PROVE TypeOK'
    BY <2>2, BoundAssumption DEF WriteRefused
  <2>3. ASSUME NEW r \in Readers, Ready(r) PROVE TypeOK'
    BY <2>3 DEF Ready
  <2>4. ASSUME NEW r \in Readers, Read(r) PROVE TypeOK'
    <3>1. base_p[read_p].msg \in Msgs
      OBVIOUS
    <3>2. Emptied(base_p[read_p]) \in [msg : Msgs, rdy : BOOLEAN]
      BY <3>1 DEF Msgs, Emptied
    <3>3. base_p' = [base_p EXCEPT ![read_p] = Emptied(base_p[read_p])]
      BY <2>4 DEF Read
    <3>4. base_p' \in [Slots -> [msg : Msgs, rdy : BOOLEAN]]
      BY <3>2, <3>3
    <3>5. got' \in [Readers -> Msgs]
      BY <2>4, <3>1 DEF Read
    <3>6. read_p' \in Slots /\ itemsQueued' \in Int
      BY <2>4, SizeAssumption DEF Read, Wrap
    <3> QED
      BY <2>4, <3>4, <3>5, <3>6 DEF Read
  <2>5. CASE UNCHANGED vars
    BY <2>5 DEF vars
  <2> QED
    BY <2>1, <2>2, <2>3, <2>4, <2>5 DEF Next, Write
<1> QED
  BY <1>1, <1>2, PTL DEF Spec

------------------------------------------------------------------------------
(***************************************************************************)
(* Contiguous is the invariant the others follow from.  It is inductive    *)
(* together with ReadFindsData, which says that a Read always finds the    *)
(* slot at read_p ready, hence itemsQueued positive.                       *)
(***************************************************************************)
IInv == Contiguous /\ ReadFindsData

\* At numbers the slots from read_p on, each once.
LEMMA AtSlots ==
  ASSUME TypeOK
  PROVE  /\ \A k \in Slots : At(k) \in Slots
         /\ \A k, l \in Slots : At(k) = At(l) => k = l
         /\ At(0) = read_p /\ At(Size) = read_p
BY SizeAssumption DEF TypeOK, Slots, At, Wrap

\* write() stores only where the ring has room, and one place further on.
LEMMA StoreHasRoom ==
  ASSUME TypeOK, Contiguous, NEW m \in Msgs, WriteStored(m)
  PROVE  /\ itemsQueued < Size
         /\ itemsQueued \in Slots
         /\ Wrap(write_p + 1) = At(itemsQueued + 1)
<1>1. itemsQueued < Size
  <2> SUFFICES ASSUME itemsQueued = Size PROVE FALSE
    BY SizeAssumption DEF Contiguous
  <2>1. write_p = read_p /\ At(0) = read_p
    BY AtSlots DEF Contiguous
  <2>2. base_p[At(0)].rdy
    BY SizeAssumption DEF Contiguous, Slots
  <2> QED
    BY <2>1, <2>2 DEF WriteStored
<1>2. itemsQueued \in Slots
  BY <1>1, SizeAssumption DEF Contiguous, Slots
<1> QED
  BY <1>1, <1>2, SizeAssumption DEF Contiguous, TypeOK, Slots, At, Wrap

\* read() moves the numbering on by one.
LEMMA ReadShifts ==
  ASSUME TypeOK, NEW r \in Readers, Read(r)
  PROVE  /\ \A k \in Slots : k + 1 < Size => At(k)' = At(k + 1)
         /\ At(Size - 1)' = read_p
         /\ At(Size)' = At(1)
BY SizeAssumption DEF TypeOK, Slots, At, Wrap, Read

LEMMA IInvInductive ==
  ASSUME SingleReader, TypeOK, TypeOK', IInv, [Next]_vars
  PROVE  IInv'
<1>1. ASSUME NEW m \in Msgs, WriteStored(m) PROVE IInv'
  <2>1. itemsQueued < Size /\ itemsQueued \in Slots
        /\ Wrap(write_p + 1) = At(itemsQueued + 1)
    BY <1>1, StoreHasRoom DEF IInv
  <2>2. \A k : At(k)' = At(k)
    BY <1>1 DEF WriteStored, At, Wrap
  <2>3. \A k \in Slots : base_p'[At(k)].rdy <=> k < itemsQueued + 1
    <3> SUFFICES ASSUME NEW k \in Slots
                 PROVE  base_p'[At(k)].rdy <=> k < itemsQueued + 1
      OBVIOUS
    <3>1. At(k) \in Slots /\ (At(k) = write_p <=> k = itemsQueued)
      BY <2>1, AtSlots DEF IInv, Contiguous
    <3>2. CASE k = itemsQueued
      BY <1>1, <2>1, <3>1, <3>2 DEF WriteStored, TypeOK, Slots
    <3>3. CASE k # itemsQueued
      <4>1. base_p'[At(k)] = base_p[At(k)]
        BY <1>1, <3>1, <3>3 DEF WriteStored, TypeOK
      <4>2. base_p[At(k)].rdy <=> k < itemsQueued
        BY DEF IInv, Contiguous
      <4> QED
        BY <2>1, <3>3, <4>1, <4>2, SizeAssumption DEF Slots
    <3> QED
      BY <3>2, <3>3
  <2>4. Contiguous'
    <3>1. (itemsQueued \in 0 .. Size)'
      BY <1>1, <2>1, SizeAssumption DEF WriteStored, Slots
    <3>2. (write_p = At(itemsQueued))'
      BY <1>1, <2>1, <2>2 DEF WriteStored
    <3> QED
      BY <1>1, <2>2, <2>3, <3>1, <3>2 DEF Contiguous, WriteStored, Slots
  <2>5. ReadFindsData'
    BY <1>1 DEF IInv, ReadFindsData, WriteStored, TypeOK
  <2> QED
    BY <2>4, <2>5 DEF IInv
<1>2. ASSUME NEW m \in Msgs, WriteRefused(m) PROVE IInv'
  BY <1>2 DEF WriteRefused, IInv, Contiguous, ReadFindsData, At, Wrap, Slots
<1>3. ASSUME NEW r \in Readers, Ready(r) PROVE IInv'
  BY <1>3 DEF Ready, IInv, Contiguous, ReadFindsData, At, Wrap, Slots
<1>4. ASSUME NEW r \in Readers, Read(r) PROVE IInv'
  <2>1. itemsQueued \in 1 .. Size
    <3>1. base_p[At(0)].rdy /\ 0 \in Slots
      BY <1>4, AtSlots, SizeAssumption DEF IInv, ReadFindsData, Read, Slots
    <3> QED
      BY <3>1, SizeAssumption DEF IInv, Contiguous
  <2>2. /\ \A k \in Slots : k + 1 < Size => At(k)' = At(k + 1)
        /\ At(Size - 1)' = read_p
        /\ At(Size)' = At(1)
    BY <1>4, ReadShifts
  <2>3. (write_p = At(itemsQueued))'
    <3>1. itemsQueued' = itemsQueued - 1 /\ write_p' = write_p
      BY <1>4 DEF Read
    <3>2. CASE itemsQueued = Size
      BY <2>1, <2>2, <3>1, <3>2, AtSlots DEF IInv, Contiguous
    <3>3. CASE itemsQueued < Size
      BY <2>1, <2>2, <3>1, <3>3, SizeAssumption
         DEF IInv, Contiguous, Slots
    <3> QED
      BY <2>1, <3>2, <3>3, SizeAssumption
  <2>4. \A k \in Slots : base_p'[At(k)'].rdy <=> k < itemsQueued - 1
    <3> SUFFICES ASSUME NEW k \in Slots
                 PROVE  base_p'[At(k)'].rdy <=> k < itemsQueued - 1
      OBVIOUS
    <3>1. CASE k + 1 < Size
      <4>1. k + 1 \in Slots /\ At(k)' = At(k + 1)
        BY <2>2, <3>1, SizeAssumption DEF Slots
      <4>2. At(k + 1) \in Slots /\ At(k + 1) # read_p
        BY <4>1, AtSlots, SizeAssumption DEF Slots
      <4>3. base_p'[At(k)'] = base_p[At(k + 1)]
        BY <1>4, <4>1, <4>2 DEF Read, TypeOK
      <4>4. base_p[At(k + 1)].rdy <=> k + 1 < itemsQueued
        BY <4>1 DEF IInv, Contiguous
      <4> QED
        BY <2>1, <4>3, <4>4, SizeAssumption DEF Slots
    <3>2. CASE k + 1 = Size
      <4>1. At(k)' = read_p
        BY <2>2, <3>2, SizeAssumption DEF Slots
      <4>2. ~base_p'[read_p].rdy
        BY <1>4 DEF Read, TypeOK, Emptied
      <4> QED
        BY <2>1, <3>2, <4>1, <4>2, SizeAssumption DEF Slots
    <3> QED
      BY <3>1, <3>2, SizeAssumption DEF Slots
  <2>5. Contiguous'
    BY <1>4, <2>1, <2>3, <2>4, SizeAssumption DEF Contiguous, Read, Slots
  <2>6. saw' = {}
    BY <1>4 DEF SingleReader, Read, TypeOK
  <2> QED
    BY <2>5, <2>6 DEF IInv, ReadFindsData
<1>5. CASE UNCHANGED vars
  BY <1>5 DEF vars, IInv, Contiguous, ReadFindsData, At, Wrap, Slots
<1> QED
  BY <1>1, <1>2, <1>3, <1>4, <1>5 DEF Next, Write

LEMMA IInvHolds == SingleReader => (Spec => [](TypeOK /\ IInv))
<1> SUFFICES ASSUME SingleReader PROVE Spec => [](TypeOK /\ IInv)
  OBVIOUS
<1>1. Init => IInv
  BY SizeAssumption
     DEF Init, IInv, Contiguous, ReadFindsData, At, Wrap, Slots
<1>2. TypeOK /\ TypeOK' /\ IInv /\ [Next]_vars => IInv'
  BY IInvInductive
<1> QED
  BY <1>1, <1>2, TypeCorrect, PTL DEF Spec

\* With one reader the ready slots are always one run from read_p to write_p
\* as long as itemsQueued says (cpqueue.cpp 89-97, 150-156).
THEOREM RingIsContiguous == SingleReader => (Spec => []Contiguous)
BY IInvHolds, PTL DEF IInv

\* With one reader no read() takes an empty slot (cpqueue.cpp 145-172).
THEOREM SingleReaderFindsData == SingleReader => (Spec => []ReadFindsData)
BY IInvHolds, PTL DEF IInv
------------------------------------------------------------------------------
(***************************************************************************)
(* Refinement: the sequence of messages in the ready slots, read from      *)
(* read_p on, is the queue of BoundedFifo.                                 *)
(***************************************************************************)
Queued == [k \in 1 .. itemsQueued |-> base_p[At(k - 1)].msg]

LEMMA QueuedIsSeq ==
  ASSUME TypeOK, Contiguous
  PROVE  Queued \in Seq(Msgs) /\ Len(Queued) = itemsQueued
<1>1. \A k \in 1 .. itemsQueued : k - 1 \in Slots
  BY SizeAssumption DEF Contiguous, Slots
<1>2. \A k \in 1 .. itemsQueued : base_p[At(k - 1)].msg \in Msgs
  BY <1>1, AtSlots DEF TypeOK
<1>3. itemsQueued \in Nat
  BY SizeAssumption DEF Contiguous
<1> QED
  BY <1>2, <1>3 DEF Queued

\* write() on a ring with room appends the message.
LEMMA StoreAccepts ==
  ASSUME TypeOK, TypeOK', Contiguous, Contiguous',
         NEW m \in Msgs, WriteStored(m)
  PROVE  Len(Queued) < Size /\ Queued' = Append(Queued, m)
<1>1. itemsQueued < Size /\ itemsQueued \in Slots
  BY StoreHasRoom
<1>2. Queued \in Seq(Msgs) /\ Len(Queued) = itemsQueued
  BY QueuedIsSeq
<1>3. Queued' \in Seq(Msgs) /\ Len(Queued') = itemsQueued + 1
  <2>1. (Queued \in Seq(Msgs) /\ Len(Queued) = itemsQueued)'
    BY QueuedIsSeq, PTL
  <2> QED
    BY <2>1 DEF WriteStored
<1>4. ASSUME NEW k \in 1 .. itemsQueued + 1
      PROVE  Queued'[k] = IF k = itemsQueued + 1 THEN m ELSE Queued[k]
  <2>1. k - 1 \in Slots /\ At(k - 1) \in Slots /\ At(k - 1)' = At(k - 1)
    BY <1>1, AtSlots, SizeAssumption DEF Slots, WriteStored, At, Wrap
  <2>2. Queued'[k] = base_p'[At(k - 1)].msg
    BY <2>1 DEF Queued, WriteStored
  <2>3. At(k - 1) = write_p <=> k - 1 = itemsQueued
    BY <1>1, <2>1, AtSlots DEF Contiguous
  <2>4. CASE k = itemsQueued + 1
    BY <1>1, <2>1, <2>2, <2>3, <2>4 DEF WriteStored, TypeOK, Slots
  <2>5. CASE k # itemsQueued + 1
    <3>1. k \in 1 .. itemsQueued /\ k - 1 # itemsQueued
      BY <1>1, <2>5 DEF Slots
    <3>2. base_p'[At(k - 1)] = base_p[At(k - 1)]
      BY <2>1, <2>3, <3>1 DEF WriteStored, TypeOK
    <3>3. Queued[k] = base_p[At(k - 1)].msg
      BY <3>1 DEF Queued
    <3> QED
      BY <2>2, <2>5, <3>2, <3>3
  <2> QED
    BY <2>4, <2>5
<1> QED
  BY <1>1, <1>2, <1>3, <1>4 DEF Slots

\* read() on a ready slot removes the oldest message and returns it.
LEMMA ReadTakes ==
  ASSUME TypeOK, TypeOK', Contiguous, Contiguous', base_p[read_p].rdy,
         NEW r \in Readers, Read(r)
  PROVE  /\ Queued # <<>>
         /\ got' = [got EXCEPT ![r] = Head(Queued)]
         /\ Queued' = Tail(Queued)
<1>1. itemsQueued \in 1 .. Size
  <2>1. base_p[At(0)].rdy /\ 0 \in Slots
    BY AtSlots, SizeAssumption DEF Slots
  <2> QED
    BY <2>1, SizeAssumption DEF Contiguous
<1>2. Queued \in Seq(Msgs) /\ Len(Queued) = itemsQueued
  BY QueuedIsSeq
<1>3. Queued' \in Seq(Msgs) /\ Len(Queued') = itemsQueued - 1
  <2>1. (Queued \in Seq(Msgs) /\ Len(Queued) = itemsQueued)'
    BY QueuedIsSeq, PTL
  <2> QED
    BY <2>1 DEF Read
<1>4. Head(Queued) = base_p[read_p].msg
  BY <1>1, <1>2, AtSlots DEF Queued
<1>5. ASSUME NEW k \in 1 .. itemsQueued - 1
      PROVE  Queued'[k] = Queued[k + 1]
  <2>1. k - 1 \in Slots /\ k \in Slots /\ (k - 1) + 1 < Size
    BY <1>1, SizeAssumption DEF Slots
  <2>2. At(k - 1)' = At(k)
    BY <2>1, ReadShifts
  <2>3. At(k) \in Slots /\ At(k) # read_p
    BY <2>1, AtSlots, SizeAssumption DEF Slots
  <2>4. base_p'[At(k)] = base_p[At(k)]
    BY <2>3 DEF Read, TypeOK
  <2>5. Queued'[k] = base_p'[At(k - 1)'].msg
    BY DEF Queued, Read
  <2>6. Queued[k + 1] = base_p[At(k)].msg
    BY <1>1 DEF Queued
  <2> QED
    BY <2>2, <2>4, <2>5, <2>6
<1>6. Queued' = Tail(Queued)
  BY <1>1, <1>2, <1>3, <1>5
<1>7. Queued # <<>>
  BY <1>1, <1>2
<1> QED
  BY <1>4, <1>6, <1>7 DEF Read

LEMMA StepRefines ==
  ASSUME TypeOK, TypeOK', IInv, IInv', [Next]_vars
  PROVE  [Fifo!FifoNext]_(Fifo!fifoVars)
<1> USE DEF Fifo!FifoNext, Fifo!fifoVars
<1>1. ASSUME NEW m \in Msgs, WriteStored(m) PROVE Fifo!Accept(m)
  BY <1>1, StoreAccepts DEF IInv, Fifo!Accept, Queued, WriteStored
<1>2. ASSUME NEW m \in Msgs, WriteRefused(m) PROVE Fifo!Refuse(m)
  <2>1. itemsQueued = Size
    <3> SUFFICES ASSUME itemsQueued # Size PROVE FALSE
      OBVIOUS
    <3>1. itemsQueued \in Slots /\ write_p = At(itemsQueued)
      BY SizeAssumption DEF IInv, Contiguous, Slots
    <3>2. ~base_p[At(itemsQueued)].rdy
      BY <3>1 DEF IInv, Contiguous, Slots
    <3> QED
      BY <1>2, <3>1, <3>2 DEF WriteRefused
  <2>2. Len(Queued) = Size
    BY <2>1, QueuedIsSeq DEF IInv
  <2>3. Queued' = Queued
    BY <1>2 DEF WriteRefused, Queued, At, Wrap
  <2> QED
    BY <1>2, <2>2, <2>3 DEF Fifo!Refuse, Queued, WriteRefused
<1>3. ASSUME NEW r \in Readers, Ready(r) PROVE UNCHANGED Fifo!fifoVars
  BY <1>3 DEF Ready, At, Wrap
<1>4. ASSUME NEW r \in Readers, Read(r) PROVE Fifo!Take(r)
  <2>1. base_p[read_p].rdy
    BY <1>4 DEF IInv, ReadFindsData, Read
  <2> QED
    BY <1>4, <2>1, ReadTakes DEF IInv, Fifo!Take, Queued, Read
<1>5. CASE UNCHANGED vars
  BY <1>5 DEF vars, At, Wrap
<1> QED
  BY <1>1, <1>2, <1>3, <1>4, <1>5 DEF Next, Write

\* With one reader cpQueue is a bounded FIFO that refuses the newest message
\* when it is full: nothing is lost, duplicated or reordered in between,
\* wherever the indices wrap (cpqueue.cpp 78-161).
THEOREM QueueIsFifo == SingleReader => (Spec => ImplementsFifo)
<1> SUFFICES ASSUME SingleReader PROVE Spec => ImplementsFifo
  OBVIOUS
<1>1. Init => Fifo!FifoInit
  BY DEF Init, Fifo!FifoInit
<1>2. TypeOK /\ TypeOK' /\ IInv /\ IInv' /\ [Next]_vars
        => [Fifo!FifoNext]_(Fifo!fifoVars)
  BY StepRefines
<1>3. Spec => [](TypeOK /\ IInv)
  BY IInvHolds
<1> QED
  BY <1>1, <1>2, <1>3, PTL DEF Spec, ImplementsFifo, Fifo!FifoSpec
==============================================================================
