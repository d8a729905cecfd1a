----------------------------- MODULE MCManualApply -----------------------------
(* Small instances of ManualApply for TLC. *)
EXTENDS ManualApply, TLC

AgentSymmetry == Permutations(Agents)
===============================================================================
