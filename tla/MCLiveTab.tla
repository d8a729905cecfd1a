------------------------------- MODULE MCLiveTab -------------------------------
(* Small instances of LiveTab for TLC. *)
EXTENDS LiveTab, TLC

================================================================================
