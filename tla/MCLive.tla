------------------------------- MODULE MCLive -------------------------------
(* Instances of LiveSockets for TLC.                                       *)
EXTENDS LiveSockets
=============================================================================
