---------------------------- MODULE MCPacketFlow ----------------------------
(***************************************************************************)
(* Addresses are interchangeable, and so are keys: the symmetry is used in *)
(* the runs that check no liveness.                                        *)
(***************************************************************************)
EXTENDS PacketFlow, TLC

Symmetry == Permutations(Objs) \cup Permutations(Keys)
==============================================================================
