--------------------------- MODULE MCEnrichmentPage ---------------------------
(* Small instances of EnrichmentPage for TLC. *)
EXTENDS EnrichmentPage, TLC
===============================================================================
