---------------------------- MODULE HygieneStage ----------------------------
(***************************************************************************)
(* The hygiene stage of a batch (leadstream.batches.services): ingestion   *)
(* of the file into items and chunks, the worker that processes a chunk,   *)
(* the refresh of the batch that ends it and settles its credit            *)
(* reservation, and the upload view that makes the reservation after the   *)
(* ingestion has been published.                                           *)
(***************************************************************************)
EXTENDS BatchChunks

CONSTANTS
  HygieneOutcomes,   \* what the file may hold: invalid and duplicate rows
  ItemOutcomes       \* statuses _process_item may end with

ASSUME HygieneConstants ==
  /\ \A o \in HygieneOutcomes : o.invalid \subseteq Rows /\ o.duplicate \subseteq Rows
  /\ ItemOutcomes \subseteq TERMINAL_ITEM_STATUSES

VARIABLES
  ingestion,    \* the ingestion message: in an on_commit hook or in the broker,
                \* which may hold it twice
  reservation,  \* the CreditReservation of the batch; the upload view decides it
  adminCancel   \* an administrator's cancel between its two writes

vars == <<batch, items, chunks, toPublish, tasks,
          ingestion, reservation, adminCancel>>

restVars == <<ingestion, reservation, adminCancel>>

ReservationStatuses == {"UNDECIDED", "NONE", "ACTIVE", "SETTLED", "CANCELLED"}

TypeOK ==
  /\ BatchTypeOK
  /\ ingestion \in {"none", "publishing", "queued", "twice"}
  /\ reservation \in ReservationStatuses
  /\ adminCancel \in BOOLEAN

\* create_csv_batch has committed: the file is stored, the batch received.
Init ==
  /\ batch = "RECEIVED"
  /\ items = [r \in Rows |-> "NONE"]
  /\ chunks = [c \in ChunkIds |-> NoChunk]
  /\ toPublish = {}
  /\ tasks = [t \in Tasks |-> FreeTask]
  /\ ingestion = "publishing"
  /\ reservation = "UNDECIDED"
  /\ adminCancel = FALSE

-----------------------------------------------------------------------------
(* Upload and ingestion *)

HasItems == \E r \in Rows : items[r] # "NONE"

\* The upload view reserves credits after create_csv_batch has returned, and
\* carries on without a reservation when hold_credits refuses.
HoldForBatch ==
  /\ reservation = "UNDECIDED"
  /\ reservation' \in {"ACTIVE", "NONE"}
  /\ UNCHANGED batchVars /\ UNCHANGED <<ingestion, adminCancel>>

PublishIngestion ==
  /\ ingestion = "publishing"
  /\ ingestion' = "queued"
  /\ UNCHANGED batchVars /\ UNCHANGED <<reservation, adminCancel>>

\* The broker refuses (logged and forgotten) or the publisher dies.
LoseIngestion ==
  /\ ingestion = "publishing"
  /\ ingestion' = "none"
  /\ UNCHANGED batchVars /\ UNCHANGED <<reservation, adminCancel>>

\* Publishing it once more beside what is on its way; the broker holds at most two.
IngestionAgain ==
  IF ingestion \in {"none", "publishing"} THEN {"publishing"} ELSE {"queued", "twice"}

IngestionQueued == ingestion \in {"queued", "twice"}

IngestionTaken == ingestion' = IF ingestion = "twice" THEN "queued" ELSE "none"

\* The k-th row of a set of rows, in ascending order.
RowAt(rows, k) == CHOOSE r \in rows : Cardinality({q \in rows : q <= r}) = k

\* The chunks ingest_batch cuts a set of pending rows into.
ChunksOf(rows) ==
  LET n == Cardinality(rows)
      last(c) == IF c * ChunkSize < n THEN c * ChunkSize ELSE n
  IN [c \in ChunkIds |->
        IF (c - 1) * ChunkSize >= n THEN NoChunk
        ELSE LET start == RowAt(rows, (c - 1) * ChunkSize + 1) IN
             [NoChunk EXCEPT !.status = "PENDING",
                             !.start_row = start,
                             !.end_row = RowAt(rows, last(c)),
                             !.checkpoint_row = start - 1]]

\* The message is consumed and the file is read, in one transaction.
IngestFile(outcome) ==
  LET pending == Rows \ (outcome.invalid \cup outcome.duplicate)
      created == ChunksOf(pending)
  IN
  /\ IngestionQueued
  /\ batch \notin TERMINAL_BATCH_STATUSES /\ batch # "PAUSED"
  /\ ~HasItems
  /\ items' = [r \in Rows |-> IF r \in outcome.invalid THEN "FAILED"
                            ELSE IF r \in outcome.duplicate THEN "SUCCEEDED"
                            ELSE "PENDING"]
  /\ chunks' = created
  /\ toPublish' = {c \in ChunkIds : created[c].status = "PENDING"}
  /\ batch' = IF pending # {} THEN "QUEUED"
              ELSE IF outcome.invalid = Rows THEN "FAILED" ELSE "COMPLETED"
  /\ IngestionTaken
  /\ UNCHANGED <<tasks, reservation, adminCancel>>

\* The file cannot be parsed.
IngestUnreadable ==
  /\ IngestionQueued
  /\ batch \notin TERMINAL_BATCH_STATUSES /\ batch # "PAUSED"
  /\ ~HasItems
  /\ batch' = "FAILED"
  /\ IngestionTaken
  /\ UNCHANGED <<items, chunks, toPublish, tasks, reservation, adminCancel>>

\* A message for a batch that is over, paused or already ingested.
IngestAgain ==
  /\ IngestionQueued
  /\ \/ /\ batch \in TERMINAL_BATCH_STATUSES \cup {"PAUSED"}
        /\ UNCHANGED toPublish
     \/ /\ batch \notin TERMINAL_BATCH_STATUSES \cup {"PAUSED"}
        /\ HasItems
        /\ toPublish' = toPublish \cup InStatus({"PENDING"})
  /\ IngestionTaken
  /\ UNCHANGED <<batch, items, chunks, tasks, reservation, adminCancel>>

\* resume_batch before the items exist: back to RECEIVED, ingested again.
ResumeWithoutItems ==
  /\ "resume" \in Commands
  /\ batch = "PAUSED"
  /\ ~HasItems
  /\ batch' = "RECEIVED"
  /\ ingestion' \in IngestionAgain
  /\ UNCHANGED <<items, chunks, toPublish, tasks, reservation, adminCancel>>

resume_batch ==
  \/ HasItems /\ ResumeWithItems /\ UNCHANGED restVars
  \/ ResumeWithoutItems

\* recover_stalled_work also publishes the ingestion of a RECEIVED batch.
recover_stalled_work ==
  /\ RecoverChunks
  /\ IF batch = "RECEIVED" THEN ingestion' \in IngestionAgain ELSE UNCHANGED ingestion
  /\ UNCHANGED <<reservation, adminCancel>>

\* The administrator's cancel: the status first, then the reservation.
AdminCancelBatch ==
  /\ "admin_cancel" \in Commands
  /\ batch' = "FAILED"
  /\ adminCancel' = TRUE
  /\ UNCHANGED <<items, chunks, toPublish, tasks, ingestion, reservation>>

AdminCancelReservation ==
  /\ adminCancel
  /\ adminCancel' = FALSE
  /\ reservation' = IF reservation = "ACTIVE" THEN "CANCELLED" ELSE reservation
  /\ UNCHANGED batchVars /\ UNCHANGED ingestion

-----------------------------------------------------------------------------
(* process_chunk *)

\* Mutant: the reading starts one row too late.
PendingRowsLate(c) ==
  LET rows == {r \in RowsOf(c) : /\ items[r] = "PENDING"
                                 /\ r > chunks[c].checkpoint_row + 1}
  IN [k \in 1..Cardinality(rows) |-> RowAt(rows, k)]

\* The rows a worker takes on after it has claimed the chunk, in order.  (The code
\* compares with the checkpoint as it was when the chunk was claimed; no PENDING row
\* lies at or before a checkpoint, so the list is the same.)
PendingRows(c) ==
  LET rows == {r \in RowsOf(c) : /\ items[r] = "PENDING"
                                 /\ r > chunks[c].checkpoint_row}
  IN [k \in 1..Cardinality(rows) |-> RowAt(rows, k)]

ReadItems(t) ==
  /\ tasks[t].phase = "read"
  /\ tasks' = [tasks EXCEPT ![t].phase = "check",
                            ![t].todo = PendingRows(tasks[t].chunk)]
  /\ UNCHANGED <<batch, items, chunks, toPublish>>

\* _process_item: an item that is already over is left alone.
ProcessItem(t) ==
  LET row == Head(tasks[t].todo) IN
  /\ tasks[t].phase = "item"
  /\ IF items[row] \in TERMINAL_ITEM_STATUSES
     THEN UNCHANGED items
     ELSE \E outcome \in ItemOutcomes : items' = [items EXCEPT ![row] = outcome]
  /\ GoTo(t, "checkpoint")
  /\ UNCHANGED <<batch, chunks, toPublish>>

\* The checkpoint advances and the lease is renewed, whoever holds it.
SaveCheckpoint(t) ==
  LET c == tasks[t].chunk IN
  /\ tasks[t].phase = "checkpoint"
  /\ chunks' = [chunks EXCEPT ![c].checkpoint_row = Head(tasks[t].todo),
                              ![c].lease = "live"]
  /\ tasks' = [tasks EXCEPT ![t].phase = "check", ![t].todo = Tail(@)]
  /\ UNCHANGED <<batch, items, toPublish>>

CompleteChunk(t) ==
  LET c == tasks[t].chunk IN
  /\ tasks[t].phase = "check"
  /\ tasks[t].todo = <<>>
  /\ chunks' = [chunks EXCEPT ![c] = [Released(@, "COMPLETED")
                                        EXCEPT !.dispatched = "none"]]
  /\ GoTo(t, "refresh")
  /\ UNCHANGED <<batch, items, toPublish>>

\* Mutants: the rows fail whatever their status; they are left PENDING.
AbandonedRowsAll(c) ==
  {r \in Rows : chunks[c].checkpoint_row < r /\ r <= chunks[c].end_row}

AbandonedRowsNone(c) == {}

\* The rows of a chunk that an exhausted chunk takes down with it.
AbandonedRows(c) ==
  {r \in Rows : /\ chunks[c].checkpoint_row < r /\ r <= chunks[c].end_row
                /\ items[r] = "PENDING"}

\* The except branch: the chunk waits for a retry, or fails with its items.
FailChunk(t) ==
  LET c == tasks[t].chunk
      retryable == chunks[c].attempt_count < MaxAttempts
  IN
  /\ tasks[t].phase = "fail"
  /\ chunks' = [chunks EXCEPT ![c] = Released(@, IF retryable THEN "PENDING"
                                                              ELSE "FAILED")]
  /\ items' = [r \in Rows |-> IF ~retryable /\ r \in AbandonedRows(c)
                              THEN "FAILED" ELSE items[r]]
  /\ GoTo(t, IF retryable THEN "retry" ELSE "report")
  /\ UNCHANGED <<batch, toPublish>>

\* What a batch with no chunk left to work on ends as.
Conclusion ==
  LET with(status) == {r \in Rows : items[r] = status} IN
  IF batch = "CANCEL_REQUESTED" THEN "CANCELLED"
  ELSE IF with("FAILED") = Rows THEN "FAILED"
  ELSE IF with("FAILED") # {} \/ with("ABSENT") # {} THEN "PARTIAL"
  ELSE "COMPLETED"

\* Mutant: a chunk waiting for a worker is not active.
ActiveChunksRunning == InStatus({"RUNNING"})

ActiveChunks == InStatus({"PENDING", "RUNNING"})

\* The worker's last step: the batch is concluded, and its reservation
\* settled, unless a chunk is active or the batch is paused.  A retry then
\* goes back to the broker under the same request id.
refresh_batch_progress(t) ==
  LET concludes == ActiveChunks = {} /\ batch # "PAUSED" IN
  /\ tasks[t].phase \in {"refresh", "retry", "report"}
  /\ batch' = IF concludes THEN Conclusion ELSE batch
  /\ reservation' = IF concludes /\ reservation = "ACTIVE" THEN "SETTLED"
                    ELSE reservation
  /\ IF tasks[t].phase = "retry"
     THEN tasks' = [tasks EXCEPT ![t] = [FreeTask EXCEPT !.phase = "queued",
                                                         !.chunk = tasks[t].chunk]]
     ELSE Done(t)
  /\ UNCHANGED <<items, chunks, toPublish, ingestion, adminCancel>>

-----------------------------------------------------------------------------
(* The specification *)

WorkerStep(t) ==
  \/ /\ \/ RefuseClaim(t)
        \/ claim_chunk(t)
        \/ ReadItems(t)
        \/ CheckBatch(t)
        \/ StopChunk(t)
        \/ ProcessItem(t)
        \/ SaveCheckpoint(t)
        \/ CompleteChunk(t)
        \/ FailChunk(t)
     /\ UNCHANGED restVars
  \/ refresh_batch_progress(t)

IngestStep == (\E o \in HygieneOutcomes : IngestFile(o)) \/ IngestUnreadable \/ IngestAgain

CommandStep ==
  \/ pause_batch /\ UNCHANGED restVars
  \/ resume_batch
  \/ cancel_batch /\ UNCHANGED restVars
  \/ AdminSetStatus("admin_pause", "PAUSED") /\ UNCHANGED restVars
  \/ AdminSetStatus("admin_resume", "RUNNING") /\ UNCHANGED restVars
  \/ AdminCancelBatch
  \/ AdminCancelReservation

Send(c) == (PublishSent(c) \/ PublishSkipped(c)) /\ UNCHANGED restVars

TimePasses(c) == (LeaseExpires(c) \/ DispatchAges(c)) /\ UNCHANGED restVars

Next ==
  \/ HoldForBatch
  \/ PublishIngestion
  \/ LoseIngestion
  \/ IngestStep
  \/ CommandStep
  \/ recover_stalled_work
  \/ \E t \in Tasks : WorkerStep(t)
  \/ \E t \in Tasks : (Raise(t) \/ Crash(t)) /\ UNCHANGED restVars
  \/ \E c \in ChunkIds : Send(c)
  \/ \E c \in ChunkIds : (PublishRefused(c) \/ LosePublication(c)) /\ UNCHANGED restVars
  \/ \E c \in ChunkIds : TimePasses(c)

Spec == Init /\ [][Next]_vars

\* Workers make progress, Beat runs the scanner every minute, time passes, and
\* a broker that is offered a message again and again accepts it at last.
Fairness ==
  /\ WF_vars(HoldForBatch)
  /\ SF_vars(PublishIngestion)
  /\ WF_vars(IngestStep)
  /\ WF_vars(recover_stalled_work)
  /\ \A t \in Tasks : WF_vars(WorkerStep(t))
  /\ \A c \in ChunkIds : SF_vars(Send(c)) /\ WF_vars(TimePasses(c))

FairSpec == Spec /\ Fairness

-----------------------------------------------------------------------------
(* Properties *)

\* A chunk reported COMPLETED leaves no item behind, whichever worker
\* completed it and whatever the others had done.
CompletedChunkHasNoPendingItem ==
  \A c \in ChunkIds :
    chunks[c].status = "COMPLETED" =>
      \A r \in RowsOf(c) : items[r] \in TERMINAL_ITEM_STATUSES

\* Pausing, resuming, cancelling, crashing or replaying a chunk never undoes
\* or repeats the result of an item ("Pausa/cancelamento nao desfaz resultado
\* ja confirmado").
ConfirmedItemsAreKept ==
  [][\A r \in Rows :
       items[r] \in TERMINAL_ITEM_STATUSES => items'[r] = items[r]]_vars

Concluded == batch \in {"COMPLETED", "PARTIAL"}

\* A batch reported as concluded has processed every row: nothing is lost.
NoRowIsLost == Concluded => \A r \in Rows : items[r] \in TERMINAL_ITEM_STATUSES

\* Without commands, and whatever workers and leases do, the one way to
\* conclude a batch with an unprocessed row is a chunk whose attempts are all
\* spent, and that chunk says so: it stays FAILED.
RowsAreLostOnlyByExhaustion ==
  Concluded => \A r \in Rows :
    \/ items[r] \in TERMINAL_ITEM_STATUSES
    \/ \E c \in ChunkIds : /\ r \in RowsOf(c)
                           /\ chunks[c].status = "FAILED"
                           /\ chunks[c].attempt_count = MaxAttempts

Processing(t) == tasks[t].phase \in {"read", "check", "item", "checkpoint"}

\* As long as a lease outlives the worker that holds it, no chunk is worked on
\* twice at the same time: redeliveries, retries, duplicate dispatches and the
\* recovery scanner never give a chunk to a second worker.
OneWorkerPerChunk ==
  \A t, u \in Tasks :
    t # u /\ Processing(t) /\ Processing(u) => tasks[t].chunk # tasks[u].chunk

\* The reservation of a batch is settled with its last result: no worker, late,
\* retried or redelivered, gives a row of a settled batch another status.
SettlementComesLast ==
  [][reservation = "SETTLED" => items' = items]_vars

\* A batch whose status is terminal keeps it within the hygiene stage, whatever
\* refresh is replayed.  (start_batch_enrichment, providers/pipeline.py:74-77, takes
\* a concluded batch back to QUEUED; that stage is not modelled here.)
TerminalBatchIsFinal ==
  [][(batch \in TERMINAL_BATCH_STATUSES) => (batch' = batch)]_vars

\* Every batch that is received is concluded: lost publications, duplicate
\* messages and exceptions in the workers only delay it.
BatchEnds == <>(batch \in TERMINAL_BATCH_STATUSES)

=============================================================================
