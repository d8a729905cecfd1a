--------------------------- MODULE MCEnrichmentJobs ---------------------------
(* Small instances of ProviderExecutor, and EnrichmentJobs in it, for TLC. *)
EXTENDS ProviderExecutor
===============================================================================
