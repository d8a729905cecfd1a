----------------------------- MODULE MCWebSession -----------------------------
(* Small instances of WebSession for TLC. *)
EXTENDS WebSession, TLC

MCLimits ==
  [login |-> 2, use |-> 2, reload |-> 1, expiry |-> 1, fault |-> 1]
===============================================================================
