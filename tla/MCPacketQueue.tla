---------------------------- MODULE MCPacketQueue ----------------------------
(* Small instances of PacketQueue for TLC.                                 *)
EXTENDS PacketQueue, TLC

CONSTANTS w1, w2
==============================================================================
