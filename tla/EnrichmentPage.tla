---------------------------- MODULE EnrichmentPage ----------------------------
(***************************************************************************)
(* The batch tab of frontend/src/pages/Enrichment.tsx against the batches  *)
(* of the server: the page uploads a list, polls the batch and, when its   *)
(* hygiene is over, asks for the enrichment (start_batch_enrichment of     *)
(* providers/pipeline.py).  Nobody else does.  The server's own work on a  *)
(* batch is one step per stage here (HygieneStage has the detail).         *)
(***************************************************************************)
EXTENDS Naturals, FiniteSets

CONSTANTS
  Batches,        \* batches uploaded
  Loops,          \* polling loops the effect starts
  None,
  MaxFaults       \* bound on requests that fail

VARIABLES
  batches,        \* the server's batches
  page,           \* the state of the component, its ref enrichmentStarted
  loops,          \* the polling loops, also the cancelled ones
  faults

vars == <<batches, page, loops, faults>>

terminalBatchStatuses == {"COMPLETED", "PARTIAL", "FAILED", "CANCELLED"}

batchIsTerminal(b) ==
    \/ b.status \in {"FAILED", "CANCELLED"}
    \/ b.stage = "ENRICHMENT" /\ b.status \in terminalBatchStatuses

NoBatch == [stage |-> None, status |-> None, eligible |-> FALSE]
NoLoop  == [id |-> None, pc |-> "none", cancelled |-> FALSE, progress |-> NoBatch]

Fault == faults < MaxFaults /\ faults' = faults + 1

Ended(l) == [loops EXCEPT ![l] = NoLoop]
At(l, pc) == [loops EXCEPT ![l].pc = pc]

-------------------------------------------------------------------------------
(* The effect on batchResult?.id: leaving an id cancels its loop, a new one *)
(* that is not over starts a loop.                                         *)

Cancelled(ls) == [l \in Loops |-> [ls[l] EXCEPT !.cancelled = ls[l].pc # "none"]]

setBatchResult(id, b, ls) ==
    /\ page' = [page EXCEPT !.shown = id, !.batch = b]
    /\ IF id = page.shown THEN loops' = ls
       ELSE IF id = None \/ batchIsTerminal(b) THEN loops' = Cancelled(ls)
       ELSE \E l \in {k \in Loops : ls[k].pc = "none"} :
              loops' = [Cancelled(ls) EXCEPT ![l] =
                          [NoLoop EXCEPT !.id = id, !.pc = "ask"]]

-------------------------------------------------------------------------------
(* Upload.                                                                 *)

submitBatch360 ==
    /\ page.open /\ page.uploading = None
    /\ \E b \in Batches :
         /\ batches[b] = NoBatch
         /\ page' = [page EXCEPT !.shown = None, !.batch = NoBatch, !.uploading = b]
    /\ loops' = Cancelled(loops)
    /\ UNCHANGED <<batches, faults>>

\* create_csv_batch commits, whether or not the page learns of it.  A file may
\* have no row that an enrichment can be made of.
BatchUploaded ==
    /\ page.uploading # None /\ batches[page.uploading] = NoBatch
    /\ \E eligible \in BOOLEAN :
         batches' = [batches EXCEPT ![page.uploading] =
                       [stage |-> "HYGIENE", status |-> "UPLOADED", eligible |-> eligible]]
    /\ UNCHANGED <<page, loops, faults>>

UploadAnswered ==
    /\ page.open /\ page.uploading # None /\ batches[page.uploading] # NoBatch
    /\ LET b == page.uploading
       IN  /\ page' = [page EXCEPT !.shown = b, !.uploading = None,
                                   !.batch = batches[b],
                                   !.enrichmentStarted = @ \ {b}]
           /\ \E l \in {k \in Loops : loops[k].pc = "none"} :
                loops' = [Cancelled(loops) EXCEPT ![l] =
                            [NoLoop EXCEPT !.id = b, !.pc = "ask"]]
    /\ UNCHANGED <<batches, faults>>

UploadFails ==
    /\ page.uploading # None /\ Fault
    /\ page' = [page EXCEPT !.uploading = None]
    /\ UNCHANGED <<batches, loops>>

-------------------------------------------------------------------------------
(* A polling loop.                                                         *)

batchDetail(l) ==
    /\ loops[l].pc \in {"ask", "again"}
    /\ loops' = [loops EXCEPT ![l].progress = batches[loops[l].id],
                              ![l].pc = IF @ = "ask" THEN "asked" ELSE "show"]
    /\ UNCHANGED <<batches, page, faults>>

HygieneIsOver(b) == b.stage = "HYGIENE" /\ b.status \in terminalBatchStatuses

Progressed(l) ==
    /\ loops[l].pc = "asked"
    /\ IF loops[l].cancelled THEN loops' = Ended(l) /\ UNCHANGED page
       ELSE IF HygieneIsOver(loops[l].progress)
               /\ loops[l].id \notin page.enrichmentStarted
       THEN /\ page' = [page EXCEPT !.enrichmentStarted = @ \cup {loops[l].id}]
            /\ loops' = At(l, "start")
       ELSE loops' = At(l, "show") /\ UNCHANGED page
    /\ UNCHANGED <<batches, faults>>

\* The error of a request is shown; the loop goes on, but the id stays in
\* enrichmentStarted.
RequestFails(l) ==
    /\ loops[l].pc \in {"ask", "again", "start"} /\ Fault
    /\ loops' = At(l, "sleep")
    /\ UNCHANGED <<batches, page>>

\* A second request changes nothing; a batch that was cancelled, failed, or has
\* no eligible row is refused.
start_batch_enrichment(l) ==
    /\ loops[l].pc = "start"
    /\ LET b == loops[l].id
       IN  IF batches[b].status \in {"CANCELLED", "FAILED"}
           THEN loops' = At(l, "sleep") /\ UNCHANGED batches
           ELSE IF batches[b].stage = "ENRICHMENT"
           THEN loops' = At(l, "again") /\ UNCHANGED batches
           ELSE IF ~ batches[b].eligible
           THEN loops' = At(l, "sleep") /\ UNCHANGED batches
           ELSE /\ batches' = [batches EXCEPT ![b].stage = "ENRICHMENT", ![b].status = "QUEUED"]
                /\ loops' = At(l, "again")
    /\ UNCHANGED <<page, faults>>

\* What was read is shown, by a cancelled loop as well; a batch that is over
\* ends the loop.
Show(l) ==
    /\ loops[l].pc = "show"
    /\ setBatchResult(loops[l].id, loops[l].progress,
                      IF batchIsTerminal(loops[l].progress) THEN Ended(l) ELSE At(l, "sleep"))
    /\ UNCHANGED <<batches, faults>>

Sleep(l) ==
    /\ loops[l].pc = "sleep"
    /\ loops' = IF loops[l].cancelled THEN Ended(l) ELSE At(l, "ask")
    /\ UNCHANGED <<batches, page, faults>>

\* A closed tab takes the page's memory with it.
PageCloses ==
    /\ page.open
    /\ page' = [page EXCEPT !.open = FALSE, !.shown = None, !.batch = NoBatch]
    /\ loops' = [l \in Loops |-> NoLoop]
    /\ UNCHANGED <<batches, faults>>

-------------------------------------------------------------------------------
(* The server's work on a batch.                                           *)

HygieneEnds(b) ==
    /\ batches[b].stage = "HYGIENE" /\ batches[b].status = "UPLOADED"
    /\ \E status \in terminalBatchStatuses :
         batches' = [batches EXCEPT ![b].status = status]
    /\ UNCHANGED <<page, loops, faults>>

\* _complete_batch
EnrichmentEnds(b) ==
    /\ batches[b].stage = "ENRICHMENT" /\ batches[b].status = "QUEUED"
    /\ \E status \in {"COMPLETED", "PARTIAL", "CANCELLED"} :
         batches' = [batches EXCEPT ![b].status = status]
    /\ UNCHANGED <<page, loops, faults>>

-------------------------------------------------------------------------------
Init ==
    /\ batches = [b \in Batches |-> NoBatch]
    /\ page = [open |-> TRUE, shown |-> None, batch |-> NoBatch, uploading |-> None,
               enrichmentStarted |-> {}]
    /\ loops = [l \in Loops |-> NoLoop]
    /\ faults = 0

Poll(l) == batchDetail(l) \/ Progressed(l) \/ start_batch_enrichment(l) \/ Show(l) \/ Sleep(l)

Server(b) == HygieneEnds(b) \/ EnrichmentEnds(b)

Next ==
    \/ submitBatch360 \/ BatchUploaded \/ UploadAnswered \/ UploadFails
    \/ \E l \in Loops : Poll(l) \/ RequestFails(l)
    \/ \E b \in Batches : Server(b)
    \/ PageCloses

Spec == Init /\ [][Next]_vars

\* The loops of an open page run, the server works and answers.
FairSpec ==
    /\ Spec
    /\ \A l \in Loops : WF_vars(Poll(l))
    /\ \A b \in Batches : WF_vars(Server(b))
    /\ WF_vars(BatchUploaded) /\ WF_vars(UploadAnswered)

-------------------------------------------------------------------------------
(* Properties.                                                             *)

Continues(b) == batches[b].stage = "ENRICHMENT" \/ batches[b].status \in {"FAILED", "CANCELLED"}

\* A batch with eligible rows goes on to its enrichment whatever becomes of the
\* page, as the page says ("O lote pode continuar apos fechar esta pagina"), if no
\* request fails.
BatchContinues ==
    \A b \in Batches : batches[b].eligible ~> Continues(b) \/ faults > 0
===============================================================================
