---------------------------- MODULE MCHistoryList ----------------------------
EXTENDS HistoryList

CONSTANTS a, b, none, pos, d1, d2

MCPackets == {[src |-> a, type |-> pos, data |-> d1],
              [src |-> a, type |-> pos, data |-> d2],
              [src |-> b, type |-> pos, data |-> d1]}
MCRfPackets == {[src |-> a, type |-> pos, data |-> d1]}
MCBlank == [src |-> none, type |-> pos, data |-> none]

\* Addresses are interchangeable.
Symmetry == Permutations(Objs)
==============================================================================
