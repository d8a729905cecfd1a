----------------------------- MODULE BatchChunks -----------------------------
(***************************************************************************)
(* A batch, its chunks and the Celery tasks that work on them              *)
(* (leadstream.batches.services), as far as the hygiene and the enrichment *)
(* stage share it: publishing chunks to the broker, claiming one under a   *)
(* lease, the pause, resume and cancel commands, the recovery scanner, and *)
(* what the environment does to workers, leases and messages.              *)
(*                                                                         *)
(* A task is one Celery message together with the worker executing it; its *)
(* request id is the worker_id of the lease and survives redelivery and    *)
(* retry.  Time is abstracted to what the code compares it with: a lease   *)
(* is live or expired, a dispatch is recent or older than five minutes.    *)
(***************************************************************************)
EXTENDS Integers, Sequences, FiniteSets

CONSTANTS
  Rows,          \* row numbers of the file, 1..n
  ChunkSize,     \* rows per chunk
  MaxAttempts,   \* BatchChunk.max_attempts
  Tasks,         \* request ids: messages alive at the same time
  NoTask,        \* lease_owner = ""
  Commands,      \* which commands users and administrators give
  Crashes,       \* whether workers die
  SlowWorkers    \* whether a lease may expire under a living worker

\* A file without rows is refused before any chunk is made.
ASSUME BatchConstants ==
  /\ IsFiniteSet(Rows) /\ Rows = 1..Cardinality(Rows) /\ Rows # {}
  /\ ChunkSize \in Nat \ {0}
  /\ MaxAttempts \in Nat \ {0}
  /\ NoTask \notin Tasks
  /\ Crashes \in BOOLEAN
  /\ SlowWorkers \in BOOLEAN

VARIABLES
  batch,      \* Batch.status
  items,      \* status of the BatchItem of each row, "NONE" before ingestion
  chunks,     \* the BatchChunk rows of the stage
  toPublish,  \* chunks an on_commit hook has still to publish
  tasks       \* broker messages and the workers executing them

batchVars == <<batch, items, chunks, toPublish, tasks>>

ChunkIds == 1..((Cardinality(Rows) + ChunkSize - 1) \div ChunkSize)

BatchStatuses ==
  {"RECEIVED", "QUEUED", "RUNNING", "PAUSED", "CANCEL_REQUESTED",
   "CANCELLED", "COMPLETED", "PARTIAL", "FAILED"}

TERMINAL_BATCH_STATUSES == {"CANCELLED", "COMPLETED", "PARTIAL", "FAILED"}

ItemStatuses == {"NONE", "PENDING", "SUCCEEDED", "ABSENT", "FAILED"}

TERMINAL_ITEM_STATUSES == {"SUCCEEDED", "ABSENT", "FAILED"}

ChunkStatuses ==
  {"NONE", "PENDING", "RUNNING", "PAUSED", "COMPLETED", "FAILED", "CANCELLED"}

\* "queued" is a message in the broker; the phases after it are the points at
\* which a worker holds something it read in an earlier transaction.
Phases == {"free", "queued", "read", "check", "item", "checkpoint", "stop",
           "refresh", "fail", "retry", "report"}

Working(t) == tasks[t].phase \notin {"free", "queued"}

NoChunk == [status |-> "NONE", start_row |-> 0, end_row |-> 0, checkpoint_row |-> 0,
            attempt_count |-> 0, lease_owner |-> NoTask, lease |-> "none",
            dispatched |-> "none"]

FreeTask == [phase |-> "free", chunk |-> 0, todo |-> <<>>, seen |-> "none"]

BatchChunk ==
  [status : ChunkStatuses, start_row : Nat, end_row : Nat, checkpoint_row : Nat,
   attempt_count : 0..MaxAttempts, lease_owner : Tasks \cup {NoTask},
   lease : {"none", "live", "expired"}, dispatched : {"none", "recent", "old"}]

Task ==
  [phase : Phases, chunk : ChunkIds \cup {0}, todo : Seq(Rows),
   seen : {"none", "PAUSED", "CANCEL_REQUESTED"}]

BatchTypeOK ==
  /\ batch \in BatchStatuses
  /\ items \in [Rows -> ItemStatuses]
  /\ chunks \in [ChunkIds -> BatchChunk]
  /\ toPublish \subseteq ChunkIds
  /\ tasks \in [Tasks -> Task]

-----------------------------------------------------------------------------
(* Helpers *)

InStatus(statuses) == {c \in ChunkIds : chunks[c].status \in statuses}

\* The rows of the file a chunk covers; some may belong to no chunk's work.
RowsOf(c) == {r \in Rows : chunks[c].start_row <= r /\ r <= chunks[c].end_row}

\* cs with the status of the chunks in set changed to status.
Marked(cs, set, status) ==
  [c \in ChunkIds |-> IF c \in set THEN [cs[c] EXCEPT !.status = status] ELSE cs[c]]

Released(chunk, status) ==
  [chunk EXCEPT !.status = status, !.lease_owner = NoTask, !.lease = "none"]

\* A request id no message carries and no lease that still matters names.
Unused(t) ==
  /\ tasks[t].phase = "free"
  /\ \A c \in ChunkIds : chunks[c].lease_owner = t =>
       chunks[c].status \in {"COMPLETED", "CANCELLED"}

Done(t) == tasks' = [tasks EXCEPT ![t] = FreeTask]

GoTo(t, phase) == tasks' = [tasks EXCEPT ![t].phase = phase]

\* On to a phase that needs none of the rows the worker had taken on.
Leave(t, phase) ==
  tasks' = [tasks EXCEPT ![t] = [@ EXCEPT !.phase = phase, !.todo = <<>>,
                                          !.seen = "none"]]

-----------------------------------------------------------------------------
(* Publishing *)

\* _publish_chunk after commit: the chunk is marked dispatched and sent.
PublishSent(c) ==
  /\ c \in toPublish
  /\ chunks[c].status = "PENDING"
  /\ toPublish' = toPublish \ {c}
  /\ chunks' = [chunks EXCEPT ![c].dispatched = "recent"]
  /\ \E t \in Tasks :
       /\ Unused(t)
       /\ tasks' = [tasks EXCEPT ![t] = [FreeTask EXCEPT !.phase = "queued",
                                                         !.chunk = c]]
  /\ UNCHANGED <<batch, items>>

\* The broker refuses the message: the mark is taken back.
PublishRefused(c) ==
  /\ c \in toPublish
  /\ chunks[c].status = "PENDING"
  /\ toPublish' = toPublish \ {c}
  /\ chunks' = [chunks EXCEPT ![c].dispatched = "none"]
  /\ UNCHANGED <<batch, items, tasks>>

\* The chunk is no longer PENDING: nothing to send.
PublishSkipped(c) ==
  /\ c \in toPublish
  /\ chunks[c].status # "PENDING"
  /\ toPublish' = toPublish \ {c}
  /\ UNCHANGED <<batch, items, chunks, tasks>>

\* The publishing process dies between commit and publication.
LosePublication(c) ==
  /\ Crashes
  /\ c \in toPublish
  /\ toPublish' = toPublish \ {c}
  /\ UNCHANGED <<batch, items, chunks, tasks>>

-----------------------------------------------------------------------------
(* Claiming *)

\* Mutant: a live lease does not stop a claim.
RefusalUnleased(t) ==
  LET chunk == chunks[tasks[t].chunk] IN
  IF chunk.status \in {"COMPLETED", "CANCELLED"} THEN "over"
  ELSE IF batch = "PAUSED" THEN "paused"
  ELSE IF batch \in {"CANCEL_REQUESTED", "CANCELLED"} THEN "cancelled"
  ELSE IF chunk.attempt_count >= MaxAttempts THEN "exhausted"
  ELSE "none"

\* The reasons for which claim_chunk returns None, in the order of the code.
Refusal(t) ==
  LET chunk == chunks[tasks[t].chunk] IN
  IF chunk.status \in {"COMPLETED", "CANCELLED"} THEN "over"
  ELSE IF batch = "PAUSED" THEN "paused"
  ELSE IF batch \in {"CANCEL_REQUESTED", "CANCELLED"} THEN "cancelled"
  ELSE IF chunk.lease = "live" /\ chunk.lease_owner # t THEN "leased"
  ELSE IF chunk.attempt_count >= MaxAttempts THEN "exhausted"
  ELSE "none"

\* The message is consumed without work; the chunk follows the batch.
RefuseClaim(t) ==
  LET c == tasks[t].chunk IN
  /\ tasks[t].phase = "queued"
  /\ Refusal(t) # "none"
  /\ chunks' = CASE Refusal(t) = "paused"    -> Marked(chunks, {c}, "PAUSED")
                 [] Refusal(t) = "cancelled" -> Marked(chunks, {c}, "CANCELLED")
                 [] Refusal(t) = "exhausted" -> Marked(chunks, {c}, "FAILED")
                 [] OTHER -> chunks
  /\ Done(t)
  /\ UNCHANGED <<batch, items, toPublish>>

\* claim_chunk grants the lease and counts a new attempt (the ProcessingAttempt
\* rows record how each one ended and are read by nobody: they are left out).
claim_chunk(t) ==
  LET c == tasks[t].chunk IN
  /\ tasks[t].phase = "queued"
  /\ Refusal(t) = "none"
  /\ chunks' = [chunks EXCEPT
                  ![c].status = "RUNNING", ![c].lease_owner = t, ![c].lease = "live",
                  ![c].attempt_count = @ + 1,
                  ![c].dispatched = IF @ = "none" THEN "recent" ELSE @]
  /\ batch' = IF batch = "QUEUED" THEN "RUNNING" ELSE batch
  /\ GoTo(t, "read")
  /\ UNCHANGED <<items, toPublish>>

-----------------------------------------------------------------------------
(* The worker's loop, as far as both stages share it *)

\* Before each row the worker reads the status of the batch, without a lock.
CheckBatch(t) ==
  /\ tasks[t].phase = "check"
  /\ tasks[t].todo # <<>>
  /\ IF batch \in {"PAUSED", "CANCEL_REQUESTED"}
     THEN tasks' = [tasks EXCEPT ![t].phase = "stop", ![t].seen = batch]
     ELSE GoTo(t, "item")
  /\ UNCHANGED <<batch, items, chunks, toPublish>>

\* What it read decides what it writes, in a later transaction.
StopChunk(t) ==
  LET status == IF tasks[t].seen = "PAUSED" THEN "PAUSED" ELSE "CANCELLED" IN
  /\ tasks[t].phase = "stop"
  /\ chunks' = [chunks EXCEPT ![tasks[t].chunk] = Released(@, status)]
  /\ Leave(t, "refresh")
  /\ UNCHANGED <<batch, items, toPublish>>

\* An exception inside the worker's try block (a database error, the soft
\* time limit).
Raise(t) ==
  /\ tasks[t].phase \in {"read", "check", "stop", "item", "checkpoint", "refresh"}
  /\ Leave(t, "fail")
  /\ UNCHANGED <<batch, items, chunks, toPublish>>

-----------------------------------------------------------------------------
(* Commands *)

pause_batch ==
  /\ "pause" \in Commands
  /\ batch \notin TERMINAL_BATCH_STATUSES
  /\ batch' = "PAUSED"
  /\ chunks' = Marked(chunks, InStatus({"PENDING"}), "PAUSED")
  /\ UNCHANGED <<items, toPublish, tasks>>

\* Once the items exist, resuming publishes every PENDING chunk again.
ResumeWithItems ==
  LET pending == InStatus({"PAUSED", "PENDING"}) IN
  /\ "resume" \in Commands
  /\ batch = "PAUSED"
  /\ batch' = "QUEUED"
  /\ chunks' = [c \in ChunkIds |->
                  IF c \in pending
                  THEN [chunks[c] EXCEPT !.status = "PENDING", !.dispatched = "none"]
                  ELSE chunks[c]]
  /\ toPublish' = toPublish \cup pending
  /\ UNCHANGED <<items, tasks>>

cancel_batch ==
  /\ "cancel" \in Commands
  /\ batch \notin TERMINAL_BATCH_STATUSES
  /\ batch' = IF InStatus({"RUNNING"}) # {} THEN "CANCEL_REQUESTED" ELSE "CANCELLED"
  /\ chunks' = Marked(chunks, InStatus({"PENDING", "PAUSED"}), "CANCELLED")
  /\ UNCHANGED <<items, toPublish, tasks>>

\* The administrator's pause and resume write the status, and nothing else,
\* whatever it was.
AdminSetStatus(command, status) ==
  /\ command \in Commands
  /\ batch' = status
  /\ UNCHANGED <<items, chunks, toPublish, tasks>>

-----------------------------------------------------------------------------
(* Recovery *)

Expired == {c \in InStatus({"RUNNING"}) : chunks[c].lease = "expired"}

\* The chunks recover_stalled_work gives back, and those it publishes again.
RecoveredChunks ==
  IF batch \in TERMINAL_BATCH_STATUSES THEN chunks
  ELSE [c \in ChunkIds |->
          IF c \in Expired
          THEN [Released(chunks[c], "PENDING") EXCEPT !.dispatched = "none"]
          ELSE chunks[c]]

\* Mutant: only a dispatch that has aged counts, one never made does not.
StalledAgedOnly ==
  {c \in ChunkIds : /\ RecoveredChunks[c].status = "PENDING"
                    /\ RecoveredChunks[c].dispatched = "old"}

Stalled ==
  {c \in ChunkIds : /\ RecoveredChunks[c].status = "PENDING"
                    /\ RecoveredChunks[c].dispatched # "recent"}

RecoverChunks ==
  /\ chunks' = RecoveredChunks
  /\ toPublish' = IF batch \in {"QUEUED", "RUNNING"}
                  THEN toPublish \cup Stalled ELSE toPublish
  /\ UNCHANGED <<batch, items, tasks>>

-----------------------------------------------------------------------------
(* The environment *)

\* A worker process is lost: its message is redelivered (acks_late with
\* reject_on_worker_lost) or, killed by the hard time limit or failing outside
\* the try block, acknowledged.
Crash(t) ==
  /\ Crashes
  /\ tasks[t].phase # "free"
  /\ \/ tasks' = [tasks EXCEPT ![t] = [FreeTask EXCEPT !.phase = "queued",
                                                       !.chunk = tasks[t].chunk]]
     \/ Done(t)
  /\ UNCHANGED <<batch, items, chunks, toPublish>>

\* BATCH_LEASE_SECONDS pass without a renewal.
LeaseExpires(c) ==
  /\ chunks[c].lease = "live"
  /\ SlowWorkers \/ ~\E t \in Tasks : Working(t) /\ tasks[t].chunk = c
  /\ chunks' = [chunks EXCEPT ![c].lease = "expired"]
  /\ UNCHANGED <<batch, items, toPublish, tasks>>

\* Five minutes pass since the dispatch (told only while the chunk waits: that
\* is when the scanner looks).
DispatchAges(c) ==
  /\ chunks[c].status = "PENDING"
  /\ chunks[c].dispatched = "recent"
  /\ chunks' = [chunks EXCEPT ![c].dispatched = "old"]
  /\ UNCHANGED <<batch, items, toPublish, tasks>>
=============================================================================
