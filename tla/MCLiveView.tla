----------------------------- MODULE MCLiveView -----------------------------
(* The instance of LiveView for TLC.                                       *)
EXTENDS LiveView
=============================================================================
