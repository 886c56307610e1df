----------------------------- MODULE BoundedFifo -----------------------------
(***************************************************************************)
(* What a cpQueue promises its users: a first-in first-out queue of at     *)
(* most Size messages that never blocks a writer.  A message offered to a  *)
(* full queue is refused and counted; it disturbs nothing already queued.  *)
(* A reader that takes a message is given the oldest one.                  *)
(***************************************************************************)
EXTENDS Naturals, Sequences

CONSTANTS
    Size,     \* capacity
    Readers,  \* threads that take messages
    Msgs,     \* messages
    None      \* what a reader holds before its first message

VARIABLES
    queue,    \* the queued messages, oldest first
    refused,  \* messages offered while the queue was full
    taken     \* the message each reader took last

fifoVars == <<queue, refused, taken>>

FifoInit == 
    /\ queue = <<>>
    /\ refused = 0
    /\ taken = [r \in Readers |-> None]

Accept(m) == 
    /\ Len(queue) < Size
    /\ queue' = Append(queue, m)
    /\ UNCHANGED <<refused, taken>>

Refuse(m) == 
    /\ Len(queue) = Size
    /\ refused' = refused + 1
    /\ UNCHANGED <<queue, taken>>

Take(r) == 
    /\ queue # <<>>
    /\ taken' = [taken EXCEPT ![r] = Head(queue)]
    /\ queue' = Tail(queue)
    /\ UNCHANGED refused

FifoNext == 
    \/ \E m \in Msgs : Accept(m) \/ Refuse(m)
    \/ \E r \in Readers : Take(r)

FifoSpec == FifoInit /\ [][FifoNext]_fifoVars
==============================================================================
