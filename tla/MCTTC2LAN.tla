----------------------------- MODULE MCTTC2LAN ------------------------------
(* A small instance of TTC2LAN for TLC.                                     *)
EXTENDS TTC2LAN

(* An ID of another epoch than the last, where m_last_id starts; the next   *)
(* one; and a run that begins again in the epoch of the trigger before.     *)
RunIds == <<4, 5, 4>>
=============================================================================
