------------------------------ MODULE MCHistory ------------------------------
(***************************************************************************)
(* Two stations, one of them with two different posits: duplicates,        *)
(* replacements of one kind by another packet, and strangers in between;   *)
(* one packet that goes both to the Internet and to the radio, and one     *)
(* whose line is too long for ReadHistory.                                 *)
(***************************************************************************)
EXTENDS History

CONSTANTS a, b, none, pos, msg, d1, d2, long, short, piece

MCPackets == {[src |-> a, type |-> pos, data |-> d1],
              [src |-> a, type |-> pos, data |-> d2],
              [src |-> b, type |-> msg, data |-> long]}
MCRfPackets == {[src |-> a, type |-> pos, data |-> d1]}
MCBlank == [src |-> none, type |-> pos, data |-> none]
MCcut == [d \in {long} |-> short]
MCScraps == {[src |-> a, data |-> piece]}

\* The file is not read any more after the last restart.
View == <<list, now, verdict, restarts, IF restarts = MaxRestarts THEN NoFile ELSE disk>>
==============================================================================
