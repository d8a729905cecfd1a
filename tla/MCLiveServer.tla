----------------------------- MODULE MCLiveServer -----------------------------
(* Small instances of LiveServer for TLC. *)
EXTENDS LiveServer, TLC

\* Nothing in the specification tells one polling process from another.
AgentSymmetry == Permutations(Agents)
===============================================================================
