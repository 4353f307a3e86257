---------------------------- MODULE MCRoIBuilder ----------------------------
(* A small instance of RoIBuilder for TLC: the card has two sub-ROBs of    *)
(* six channels.                                                           *)
EXTENDS RoIBuilder

SubRobOf == [c \in Channels |-> c \div 6]
=============================================================================
