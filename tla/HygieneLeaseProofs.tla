------------------------- MODULE HygieneLeaseProofs -------------------------
(***************************************************************************)
(* Theorems about HygieneStage when nobody commands and workers do not     *)
(* outlive their leases: a chunk has one worker at a time, and a concluded *)
(* batch has lost a row only if a chunk's attempts are spent.              *)
(*                                                                         *)
(* The lease excludes because whoever may still write a chunk holds its    *)
(* live lease or has just completed it; a batch is concluded rightly       *)
(* because the chunks cover the file and a chunk that is over and did not  *)
(* fail has no row left over.                                              *)
(*                                                                         *)
(* No row changes after the reservation is settled: by then nothing is     *)
(* left to do outside the chunks that have failed.                         *)
(*                                                                         *)
(* If no worker dies either (the last part), no row is lost, and the       *)
(* status of a batch that is over is final.                                *)
(***************************************************************************)
EXTENDS HygieneStageProofs

-----------------------------------------------------------------------------
(* Leases exclude as long as workers do not outlive them *)

\* Nobody commands: the batch is not paused and not cancelled, so that no worker
\* stops before its chunk is over.
Uncommanded ==
  /\ batch \notin {"PAUSED", "CANCEL_REQUESTED", "CANCELLED"}
  /\ \A t \in Tasks : tasks[t].phase # "stop"

\* The phases in which a worker may still write its chunk.
Active(t) ==
  tasks[t].phase \in {"read", "check", "item", "checkpoint", "refresh", "fail"}

\* Such a worker holds the live lease of its chunk, or has completed it.
HoldsChunk(t) ==
  LET chunk == chunks[tasks[t].chunk] IN
  Active(t) =>
    \/ /\ chunk.status = "RUNNING" /\ chunk.lease = "live" /\ chunk.lease_owner = t
       /\ tasks[t].phase # "refresh"
    \/ chunk.status = "COMPLETED" /\ tasks[t].phase \in {"refresh", "fail"}

ChunksAreExclusive ==
  \A t, u \in Tasks : t # u /\ Active(t) /\ Active(u) => tasks[t].chunk # tasks[u].chunk

LeaseInv ==
  /\ Core
  /\ Uncommanded
  /\ \A t \in Tasks : HoldsChunk(t)
  /\ ChunksAreExclusive

LEMMA UncommandedStep ==
  ASSUME Core, Uncommanded, Commands = {}, [Next]_vars
  PROVE  Uncommanded'
<1> USE DEF Core, TypeOK, BatchTypeOK
<1>1. batch' \notin {"PAUSED", "CANCEL_REQUESTED", "CANCELLED"}
  <2>1. ~ CommandStep \/ UNCHANGED batch
    BY DEF CommandStep, pause_batch, resume_batch, ResumeWithItems, ResumeWithoutItems,
           cancel_batch, AdminSetStatus, AdminCancelBatch, AdminCancelReservation, batchVars
  <2>2. ASSUME NEW t \in Tasks, WorkerStep(t)
        PROVE  batch' \notin {"PAUSED", "CANCEL_REQUESTED", "CANCELLED"}
    BY <2>2 DEF Uncommanded, WorkerStep, RefuseClaim, claim_chunk, ReadItems, CheckBatch,
                StopChunk, ProcessItem, SaveCheckpoint, CompleteChunk, FailChunk,
                refresh_batch_progress, Conclusion
  <2>3. \A o \in HygieneOutcomes : IngestFile(o)
          => batch' \notin {"PAUSED", "CANCEL_REQUESTED", "CANCELLED"}
    BY DEF IngestFile
  <2>4. \A c \in ChunkIds :
          PublishSent(c) \/ PublishSkipped(c) \/ PublishRefused(c) \/ LosePublication(c)
            \/ TimePasses(c)
            => UNCHANGED batch
    BY DEF PublishSent, PublishSkipped, PublishRefused, LosePublication, TimePasses,
           LeaseExpires, DispatchAges
  <2>5. \A t \in Tasks : Raise(t) \/ Crash(t) => UNCHANGED batch
    BY DEF Raise, Crash
  <2> QED
    BY <2>1, <2>2, <2>3, <2>4, <2>5
       DEF Uncommanded, Next, IngestStep, Send, HoldForBatch, PublishIngestion,
           LoseIngestion, IngestUnreadable, IngestAgain, recover_stalled_work,
           RecoverChunks, batchVars, vars
<1>2. ASSUME NEW u \in Tasks PROVE tasks'[u].phase # "stop"
  <2>0. tasks[u] \in Task
    OBVIOUS
  <2>1. CASE TaskUntouched(u)
    <3>1. \A c : [FreeTask EXCEPT !.phase = "queued", !.chunk = c].phase = "queued"
      BY DEF FreeTask
    <3>2. FreeTask.phase = "free"
      BY DEF FreeTask
    <3> QED BY <2>1, <3>1, <3>2 DEF TaskUntouched, Uncommanded
  <2>2. CASE WorkerStep(u)
    <3>0. \A phase : GoTo(u, phase) => tasks'[u].phase = phase
      BY <2>0 DEF GoTo, Task
    <3>1. \A phase : Leave(u, phase) => tasks'[u].phase = phase
      BY <2>0 DEF Leave, Task
    <3>2. Done(u) => tasks'[u].phase = "free"
      BY DEF Done, FreeTask
    <3>3. CASE refresh_batch_progress(u)
      <4>1. CASE tasks'[u] = [FreeTask EXCEPT !.phase = "queued", !.chunk = tasks[u].chunk]
        BY <4>1 DEF FreeTask
      <4> QED BY <3>2, <3>3, <4>1 DEF refresh_batch_progress
    <3>4. CASE ReadItems(u) \/ SaveCheckpoint(u)
      BY <2>0, <3>4 DEF ReadItems, SaveCheckpoint, Task
    <3> QED BY <2>2, <3>0, <3>1, <3>2, <3>3, <3>4
            DEF WorkerStep, RefuseClaim, claim_chunk, CheckBatch, StopChunk, ProcessItem,
                CompleteChunk, FailChunk, Uncommanded
  <2>3. CASE Raise(u)
    BY <2>0, <2>3 DEF Raise, Leave, Task
  <2> QED BY <2>1, <2>2, <2>3, OtherTasks
<1> QED BY <1>1, <1>2 DEF Uncommanded

\* Where a worker still holds a chunk, another message is refused: the lease is
\* live and not its own, or the chunk is over.
LEMMA HeldIsRefused ==
  ASSUME LeaseInv, NEW t \in Tasks, NEW u \in Tasks, t # u, Active(u),
         tasks[t].chunk = tasks[u].chunk
  PROVE  Refusal(t) \in {"over", "leased"}
<1> DEFINE chunk == chunks[tasks[t].chunk]
<1>1. \/ chunk.status = "COMPLETED"
      \/ chunk.status = "RUNNING" /\ chunk.lease = "live" /\ chunk.lease_owner # t
  BY DEF LeaseInv, HoldsChunk
<1>2. batch # "PAUSED" /\ batch \notin {"CANCEL_REQUESTED", "CANCELLED"}
  BY DEF LeaseInv, Uncommanded
<1>3. CASE chunk.status = "COMPLETED"
  BY <1>3 DEF Refusal
<1>4. CASE chunk.status = "RUNNING" /\ chunk.lease = "live" /\ chunk.lease_owner # t
  BY <1>2, <1>4 DEF Refusal
<1> QED BY <1>1, <1>3, <1>4

\* Only a claim makes a task active.
LEMMA ActiveStep ==
  ASSUME LeaseInv, Commands = {}, [Next]_vars, NEW u \in Tasks, Active(u)'
  PROVE  \/ claim_chunk(u)
         \/ Active(u) /\ tasks'[u].chunk = tasks[u].chunk
<1> USE DEF LeaseInv, Core, TypeOK, BatchTypeOK, Active
<1>0. tasks[u] \in Task
  OBVIOUS
<1>1. CASE TaskUntouched(u)
  <2>1. \A c : [FreeTask EXCEPT !.phase = "queued", !.chunk = c].phase = "queued"
    BY DEF FreeTask
  <2>2. FreeTask.phase = "free"
    BY DEF FreeTask
  <2> QED BY <1>1, <2>1, <2>2 DEF TaskUntouched
<1>2. CASE Raise(u)
  BY <1>0, <1>2 DEF Raise, Leave, Task, Uncommanded
<1>3. ASSUME WorkerStep(u), ~ claim_chunk(u)
      PROVE  Active(u) /\ tasks'[u].chunk = tasks[u].chunk
  <2>1. ~ RefuseClaim(u) /\ ~ StopChunk(u) /\ ~ FailChunk(u)
    <3>1. Done(u) => tasks'[u].phase = "free"
      BY DEF Done, FreeTask
    <3>2. \A phase : GoTo(u, phase) => tasks'[u].phase = phase
      BY <1>0 DEF GoTo, Task
    <3> QED BY <3>1, <3>2 DEF RefuseClaim, StopChunk, FailChunk, Uncommanded
  <2>2. ~ refresh_batch_progress(u)
    <3>1. Done(u) => tasks'[u].phase = "free"
      BY DEF Done, FreeTask
    <3>2. tasks' = [tasks EXCEPT ![u] = [FreeTask EXCEPT !.phase = "queued",
                                                         !.chunk = tasks[u].chunk]]
            => tasks'[u].phase = "queued"
      BY DEF FreeTask
    <3> QED BY <3>1, <3>2 DEF refresh_batch_progress
  <2>3. CASE ReadItems(u)
    BY <1>0, <2>3 DEF ReadItems, Task
  <2>4. CASE CheckBatch(u)
    BY <1>0, <2>4 DEF CheckBatch, GoTo, Task
  <2>5. CASE ProcessItem(u)
    BY <1>0, <2>5 DEF ProcessItem, GoTo, Task
  <2>6. CASE SaveCheckpoint(u)
    BY <1>0, <2>6 DEF SaveCheckpoint, Task
  <2>7. CASE CompleteChunk(u)
    BY <1>0, <2>7 DEF CompleteChunk, GoTo, Task
  <2> QED BY <1>3, <2>1, <2>2, <2>3, <2>4, <2>5, <2>6, <2>7 DEF WorkerStep
<1> QED BY <1>1, <1>2, <1>3, OtherTasks

LEMMA ExclusiveStep ==
  ASSUME LeaseInv, Commands = {}, [Next]_vars
  PROVE  ChunksAreExclusive'
<1> SUFFICES ASSUME NEW t \in Tasks, NEW u \in Tasks, t # u, Active(t)', Active(u)'
             PROVE  tasks'[t].chunk # tasks'[u].chunk
  BY DEF ChunksAreExclusive
<1> DEFINE Was(x) == Active(x) /\ tasks'[x].chunk = tasks[x].chunk
<1>1. /\ claim_chunk(t) \/ Was(t)
      /\ claim_chunk(u) \/ Was(u)
  BY ActiveStep
<1>2. \A x, y \in Tasks : claim_chunk(x) /\ y # x =>
        /\ tasks'[y] = tasks[y]
        /\ tasks'[x].chunk = tasks[x].chunk
        /\ tasks[x].phase = "queued" /\ tasks'[x].phase = "read"
        /\ Refusal(x) = "none"
  BY DEF claim_chunk, GoTo, LeaseInv, Core, TypeOK, BatchTypeOK, Task
<1>3. ASSUME NEW x \in Tasks, NEW y \in Tasks, x # y, claim_chunk(x), Was(y)
      PROVE  tasks'[x].chunk # tasks'[y].chunk
  BY <1>2, <1>3, HeldIsRefused
<1>4. ~ (claim_chunk(t) /\ claim_chunk(u))
  BY <1>2
<1>5. Was(t) /\ Was(u) => tasks'[t].chunk # tasks'[u].chunk
  BY DEF LeaseInv, ChunksAreExclusive
<1> QED BY <1>1, <1>3, <1>4, <1>5

\* What a worker holds is written by itself only.
LEMMA HeldChunkKept ==
  ASSUME LeaseInv, Commands = {}, ~ SlowWorkers, [Next]_vars,
         NEW u \in Tasks, Active(u), ~ WorkerStep(u)
  PROVE  LET c == tasks[u].chunk IN
         /\ chunks'[c].status = chunks[c].status
         /\ chunks'[c].lease = chunks[c].lease
         /\ chunks'[c].lease_owner = chunks[c].lease_owner
<1> USE DEF LeaseInv, Core, TypeOK, BatchTypeOK
<1> DEFINE c == tasks[u].chunk
           Kept == /\ chunks'[c].status = chunks[c].status
                   /\ chunks'[c].lease = chunks[c].lease
                   /\ chunks'[c].lease_owner = chunks[c].lease_owner
<1>0. c \in ChunkIds /\ chunks[c] \in BatchChunk
  BY DEF Active, TasksHaveWork
<1>h. \/ chunks[c].status = "RUNNING" /\ chunks[c].lease = "live"
      \/ chunks[c].status = "COMPLETED"
  BY DEF HoldsChunk
<1>w. tasks[u].phase \notin {"free", "queued"}
  BY DEF Active
<1> HIDE DEF c
<1>1. CASE UNCHANGED chunks
  BY <1>1
<1>2. ASSUME NEW t \in Tasks, WorkerStep(t) PROVE Kept
  <2>0. t # u
    BY <1>2
  <2>1. CASE RefuseClaim(t)
    <3>1. CASE tasks[t].chunk = c
      <4>1. Refusal(t) \in {"over", "leased"}
        BY <2>0, <3>1, HeldIsRefused DEF c
      <4> QED BY <2>1, <4>1 DEF RefuseClaim
    <3>2. CASE tasks[t].chunk # c
      BY <1>0, <2>1, <3>2 DEF RefuseClaim, Marked
    <3> QED BY <3>1, <3>2
  <2>2. CASE claim_chunk(t)
    <3>1. tasks[t].chunk # c
      BY <2>0, <2>2, HeldIsRefused DEF c, claim_chunk
    <3> QED BY <1>0, <2>2, <3>1 DEF claim_chunk
  <2>3. CASE StopChunk(t)
    BY <2>3 DEF StopChunk, Uncommanded
  <2>4. CASE SaveCheckpoint(t) \/ CompleteChunk(t) \/ FailChunk(t)
    <3>1. Active(t)
      BY <2>4 DEF SaveCheckpoint, CompleteChunk, FailChunk, Active
    <3>2. tasks[t].chunk # c
      BY <2>0, <3>1 DEF ChunksAreExclusive, c
    <3> QED BY <1>0, <2>4, <3>2 DEF SaveCheckpoint, CompleteChunk, FailChunk
  <2>5. CASE UNCHANGED chunks
    BY <2>5
  <2> QED BY <1>2, <2>1, <2>2, <2>3, <2>4, <2>5
          DEF WorkerStep, ReadItems, CheckBatch, ProcessItem, refresh_batch_progress
<1>3. ASSUME NEW d \in ChunkIds, LeaseExpires(d) PROVE Kept
  <2>1. d # c
    BY <1>3, <1>w DEF LeaseExpires, Working, c
  <2> QED BY <1>0, <1>3, <2>1 DEF LeaseExpires
<1>4. ASSUME NEW d \in ChunkIds,
             DispatchAges(d) \/ PublishSent(d) \/ PublishSkipped(d) \/ PublishRefused(d)
               \/ LosePublication(d)
      PROVE  Kept
  BY <1>0, <1>4 DEF DispatchAges, PublishSent, PublishSkipped, PublishRefused,
                    LosePublication, BatchChunk
<1>5. ASSUME recover_stalled_work PROVE Kept
  <2>1. c \notin Expired
    BY <1>h DEF Expired, InStatus
  <2> QED BY <1>0, <1>5, <2>1 DEF recover_stalled_work, RecoverChunks, RecoveredChunks
<1>6. \A o \in HygieneOutcomes : ~ IngestFile(o)
  BY <1>w DEF IngestFile, NothingBeforeIngestion
<1>7. CommandStep => UNCHANGED chunks
  BY DEF CommandStep, pause_batch, resume_batch, ResumeWithItems, ResumeWithoutItems,
         cancel_batch, AdminSetStatus, AdminCancelBatch, AdminCancelReservation, batchVars
<1>8. \A t \in Tasks : Raise(t) \/ Crash(t) => UNCHANGED chunks
  BY DEF Raise, Crash
<1> QED
  BY <1>1, <1>2, <1>3, <1>4, <1>5, <1>6, <1>7, <1>8
     DEF Next, IngestStep, Send, TimePasses, HoldForBatch, PublishIngestion,
         LoseIngestion, IngestUnreadable, IngestAgain, batchVars, vars, c

LEMMA HoldsStep ==
  ASSUME LeaseInv, Commands = {}, ~ SlowWorkers, [Next]_vars, NEW u \in Tasks
  PROVE  HoldsChunk(u)'
<1> USE DEF LeaseInv, Core, TypeOK, BatchTypeOK
<1> SUFFICES ASSUME Active(u)' PROVE HoldsChunk(u)'
  BY DEF HoldsChunk
<1>0. tasks[u] \in Task /\ (tasks[u].phase # "free" => tasks[u].chunk \in ChunkIds)
  BY DEF TasksHaveWork
<1>1. CASE claim_chunk(u)
  <2>1. tasks[u].chunk \in ChunkIds /\ tasks'[u].chunk = tasks[u].chunk
    BY <1>0, <1>1 DEF claim_chunk, GoTo, Task
  <2>2. chunks[tasks[u].chunk] \in BatchChunk
    BY <2>1
  <2>3. tasks'[u].phase = "read"
    BY <1>0, <1>1 DEF claim_chunk, GoTo, Task
  <2>4. /\ chunks'[tasks[u].chunk].status = "RUNNING"
        /\ chunks'[tasks[u].chunk].lease = "live"
        /\ chunks'[tasks[u].chunk].lease_owner = u
    BY <1>1, <2>1, <2>2 DEF claim_chunk, BatchChunk
  <2> QED BY <2>1, <2>3, <2>4 DEF HoldsChunk
<1>2. CASE Active(u) /\ tasks'[u].chunk = tasks[u].chunk
  <2> DEFINE c == tasks[u].chunk
  <2>0. c \in ChunkIds /\ chunks[c] \in BatchChunk
    BY <1>0, <1>2 DEF Active
  <2>1. \/ chunks[c].status = "RUNNING" /\ chunks[c].lease = "live"
                /\ chunks[c].lease_owner = u /\ tasks[u].phase # "refresh"
        \/ chunks[c].status = "COMPLETED" /\ tasks[u].phase \in {"refresh", "fail"}
    BY <1>2 DEF HoldsChunk
  <2>2. CASE WorkerStep(u)
    <3>1. CASE CompleteChunk(u)
      <4>1. tasks'[u].phase = "refresh"
        BY <1>0, <3>1 DEF CompleteChunk, GoTo, Task
      <4>2. chunks'[c].status = "COMPLETED"
        BY <2>0, <3>1 DEF CompleteChunk, Released, BatchChunk
      <4> QED BY <1>2, <4>1, <4>2 DEF HoldsChunk
    <3>2. CASE SaveCheckpoint(u)
      <4>1. chunks[c].status = "RUNNING" /\ chunks[c].lease_owner = u
        BY <2>1, <3>2 DEF SaveCheckpoint
      <4>2. /\ chunks'[c].status = "RUNNING" /\ chunks'[c].lease = "live"
            /\ chunks'[c].lease_owner = u /\ tasks'[u].phase = "check"
        BY <1>0, <2>0, <3>2, <4>1 DEF SaveCheckpoint, BatchChunk, Task
      <4> QED BY <1>2, <4>2 DEF HoldsChunk
    <3>3. CASE ReadItems(u) \/ CheckBatch(u) \/ ProcessItem(u)
      <4>1. tasks[u].phase \notin {"refresh", "fail"} /\ UNCHANGED chunks
        BY <3>3 DEF ReadItems, CheckBatch, ProcessItem
      <4>2. tasks'[u].phase # "refresh"
        BY <1>0, <3>3 DEF ReadItems, CheckBatch, ProcessItem, GoTo, Task
      <4> QED BY <1>2, <2>1, <4>1, <4>2 DEF HoldsChunk
    <3>4. ~ FailChunk(u) /\ ~ refresh_batch_progress(u)
      <4>1. \A phase : GoTo(u, phase) => tasks'[u].phase = phase
        BY <1>0 DEF GoTo, Task
      <4>2. Done(u) => tasks'[u].phase = "free"
        BY DEF Done, FreeTask
      <4>3. tasks' = [tasks EXCEPT ![u] = [FreeTask EXCEPT !.phase = "queued",
                                                           !.chunk = tasks[u].chunk]]
              => tasks'[u].phase = "queued"
        BY DEF FreeTask
      <4> QED BY <4>1, <4>2, <4>3 DEF FailChunk, refresh_batch_progress, Active
    <3> QED BY <1>2, <2>2, <3>1, <3>2, <3>3, <3>4
            DEF WorkerStep, RefuseClaim, claim_chunk, StopChunk, Active, Uncommanded
  <2>3. CASE ~ WorkerStep(u)
    <3>1. /\ chunks'[c].status = chunks[c].status
          /\ chunks'[c].lease = chunks[c].lease
          /\ chunks'[c].lease_owner = chunks[c].lease_owner
      BY <1>2, <2>3, HeldChunkKept
    <3>2. tasks'[u].phase = tasks[u].phase \/ tasks'[u].phase = "fail"
      <4>1. CASE Raise(u)
        BY <1>0, <4>1 DEF Raise, Leave, Task
      <4>2. CASE TaskUntouched(u)
        <5>1. \A d : [FreeTask EXCEPT !.phase = "queued", !.chunk = d].phase = "queued"
          BY DEF FreeTask
        <5>2. FreeTask.phase = "free"
          BY DEF FreeTask
        <5> QED BY <4>2, <5>1, <5>2 DEF TaskUntouched, Active
      <4> QED BY <2>3, <4>1, <4>2, OtherTasks
    <3> QED BY <1>2, <2>1, <3>1, <3>2 DEF HoldsChunk
  <2> QED BY <2>2, <2>3
<1> QED BY <1>1, <1>2, ActiveStep

LEMMA LeaseInvInit == Init => LeaseInv
<1> SUFFICES ASSUME Init PROVE LeaseInv
  OBVIOUS
<1>1. \A t \in Tasks : tasks[t].phase = "free"
  BY DEF Init, FreeTask
<1> QED BY <1>1, CoreInit
        DEF Init, LeaseInv, Uncommanded, HoldsChunk, ChunksAreExclusive, Active

LEMMA LeaseInvStep ==
  ASSUME LeaseInv, Commands = {}, ~ SlowWorkers, [Next]_vars
  PROVE  LeaseInv'
BY CoreStep, UncommandedStep, HoldsStep, ExclusiveStep DEF LeaseInv

\* Redeliveries, retries, duplicate dispatches, crashes and the recovery scanner
\* never give a chunk to a second worker (claim_chunk, recover_stalled_work), as
\* long as leases outlive workers and nobody pauses, resumes or cancels.
THEOREM WorkersAreExclusive ==
  ASSUME Commands = {}, ~ SlowWorkers
  PROVE  Spec => []OneWorkerPerChunk
<1>1. LeaseInv /\ [Next]_vars => LeaseInv'
  BY LeaseInvStep
<1>2. LeaseInv => OneWorkerPerChunk
  BY DEF LeaseInv, ChunksAreExclusive, Active, OneWorkerPerChunk, Processing
<1> QED BY <1>1, <1>2, LeaseInvInit, PTL DEF Spec

-----------------------------------------------------------------------------
(* Every pending row of the file is in a chunk *)

LEMMA Division ==
  ASSUME NEW a \in Nat, NEW b \in Nat \ {0}
  PROVE  a \div b \in Nat /\ b * (a \div b) <= a /\ a < b * ((a \div b) + 1)
OBVIOUS

LEMMA SmallerMultiple ==
  ASSUME NEW b \in Nat \ {0}, NEW p \in Nat, NEW q \in Nat, b * p < b * (q + 1)
  PROVE  p <= q
OBVIOUS

\* The chunk of the k-th row.
LEMMA ChunkOfRow ==
  ASSUME NEW k \in 1..Cardinality(Rows)
  PROVE  \E c \in ChunkIds : (c - 1) * ChunkSize < k /\ k <= c * ChunkSize
<1> DEFINE S == ChunkSize
           N == Cardinality(Rows)
           q == (k - 1) \div S
           d == (N + S - 1) \div S
<1>1. S \in Nat \ {0} /\ N \in Nat /\ k \in Nat /\ k >= 1 /\ k <= N
  BY BatchConstants, RowsAreNumbers
<1> HIDE DEF S, N
<1>2. k - 1 \in Nat /\ N + S - 1 \in Nat
  BY <1>1
<1>3. q \in Nat /\ S * q <= k - 1 /\ k - 1 < S * (q + 1)
  BY <1>1, <1>2, Division
<1>4. d \in Nat /\ N + S - 1 < S * (d + 1)
  BY <1>1, <1>2, Division
<1> HIDE DEF q, d
<1>5. S * (q + 1) = S * q + S
  BY <1>1, <1>3
<1>6. S * q \in Nat /\ S * (q + 1) \in Nat /\ S * (d + 1) \in Nat
  BY <1>1, <1>3, <1>4
<1>7. S * (q + 1) < S * (d + 1)
  BY <1>1, <1>2, <1>3, <1>4, <1>5, <1>6
<1>8. q + 1 <= d
  BY <1>1, <1>3, <1>4, <1>7, SmallerMultiple
<1>9. q + 1 \in 1..d /\ (q + 1) - 1 = q
  BY <1>3, <1>4, <1>8
<1>10. q + 1 \in ChunkIds
  BY <1>9 DEF ChunkIds, d, N, S
<1>11. q * S = S * q /\ (q + 1) * S = S * (q + 1)
  BY <1>1, <1>3
<1>12. ((q + 1) - 1) * S < k /\ k <= (q + 1) * S
  BY <1>1, <1>3, <1>6, <1>9, <1>11
<1> QED BY <1>10, <1>12 DEF S

LEMMA ChunksOfCovers ==
  ASSUME NEW rows \in SUBSET Rows, NEW r \in rows
  PROVE  \E c \in ChunkIds : /\ ChunksOf(rows)[c].status = "PENDING"
                             /\ ChunksOf(rows)[c].start_row <= r
                             /\ r <= ChunksOf(rows)[c].end_row
<1> DEFINE n == Cardinality(rows)
           last(c) == IF c * ChunkSize < n THEN c * ChunkSize ELSE n
           first(c) == (c - 1) * ChunkSize + 1
<1>1. n \in Nat /\ n <= Cardinality(Rows)
  BY RowsAreNumbers, FS_Subset, FS_CardinalityType
<1>2. PICK k \in 1..n : RowAt(rows, k) = r
  BY RowAtReaches
<1>3. k \in 1..Cardinality(Rows)
  BY <1>1, RowsAreNumbers
<1>4. PICK c \in ChunkIds : (c - 1) * ChunkSize < k /\ k <= c * ChunkSize
  BY <1>3, ChunkOfRow
<1>5. c \in Nat /\ c >= 1 /\ ChunkSize \in Nat /\ ChunkSize >= 1
  BY BatchConstants DEF ChunkIds
<1>6. (c - 1) * ChunkSize \in Nat /\ c * ChunkSize \in Nat
  BY <1>5
<1>7. /\ ~ (c - 1) * ChunkSize >= n
      /\ first(c) \in 1..n /\ first(c) <= k
      /\ last(c) \in 1..n /\ k <= last(c)
  BY <1>1, <1>4, <1>5, <1>6
<1>8. RowAt(rows, first(c)) <= r /\ r <= RowAt(rows, last(c))
  <2> DEFINE f == first(c)
             l == last(c)
  <2>1. f \in 1..n /\ f <= k /\ l \in 1..n /\ k <= l
    BY <1>7
  <2> HIDE DEF f, l
  <2>2. RowAt(rows, f) \in Nat /\ RowAt(rows, l) \in Nat /\ r \in Nat
    BY <2>1, RowAtIsRow, RowsAreNumbers
  <2>3. RowAt(rows, f) <= r
    <3>1. CASE f = k
      BY <1>2, <2>2, <3>1
    <3>2. CASE f < k
      BY <1>2, <2>1, <2>2, <3>2, RowAtAscends
    <3> QED BY <2>1, <3>1, <3>2
  <2>4. r <= RowAt(rows, l)
    <3>1. CASE k = l
      BY <1>2, <2>2, <3>1
    <3>2. CASE k < l
      BY <1>2, <2>1, <2>2, <3>2, RowAtAscends
    <3> QED BY <2>1, <3>1, <3>2
  <2> QED BY <2>3, <2>4 DEF f, l
<1>9. ChunksOf(rows)[c] = [NoChunk EXCEPT !.status = "PENDING",
                                          !.start_row = RowAt(rows, first(c)),
                                          !.end_row = RowAt(rows, last(c)),
                                          !.checkpoint_row = RowAt(rows, first(c)) - 1]
  BY <1>7 DEF ChunksOf
<1> HIDE DEF first, last
<1>10. /\ ChunksOf(rows)[c].status = "PENDING"
       /\ ChunksOf(rows)[c].start_row = RowAt(rows, first(c))
       /\ ChunksOf(rows)[c].end_row = RowAt(rows, last(c))
  BY <1>9 DEF NoChunk
<1> QED BY <1>8, <1>10

-----------------------------------------------------------------------------
(* Rows are lost only with the attempts of their chunk *)

ExhaustedChunks ==
  \A c \in ChunkIds :
    /\ chunks[c].status \in {"NONE", "PENDING", "RUNNING", "COMPLETED", "FAILED"}
    /\ chunks[c].status = "FAILED" => chunks[c].attempt_count = MaxAttempts

\* Messages and workers are about chunks that exist.
TasksOnChunks ==
  \A t \in Tasks : tasks[t].phase # "free" => chunks[tasks[t].chunk].status # "NONE"

\* Every row is over, or in a chunk.
FileIsCovered ==
  HasItems =>
    \A r \in Rows :
      Over(r) \/ \E c \in ChunkIds : r \in RowsOf(c) /\ chunks[c].status # "NONE"

LossInv ==
  /\ IInv
  /\ LeaseInv
  /\ ExhaustedChunks
  /\ TasksOnChunks
  /\ FileIsCovered
  /\ RowsAreLostOnlyByExhaustion

\* A chunk exists once it does, and one that has failed stays failed.
LEMMA StatusStep ==
  ASSUME LeaseInv, ExhaustedChunks, TasksOnChunks, Commands = {}, [Next]_vars,
         ~ \E o \in HygieneOutcomes : IngestFile(o), NEW c \in ChunkIds
  PROVE  /\ chunks'[c].status \in {"NONE", "PENDING", "RUNNING", "COMPLETED", "FAILED"}
         /\ chunks'[c].status = "NONE" <=> chunks[c].status = "NONE"
         /\ chunks[c].status = "FAILED" => chunks'[c].status = "FAILED"
         /\ chunks'[c].status = "FAILED" => chunks'[c].attempt_count = MaxAttempts
<1> USE DEF LeaseInv, Core, TypeOK, BatchTypeOK
<1> DEFINE Kept == /\ chunks'[c].status = chunks[c].status
                   /\ chunks'[c].attempt_count = chunks[c].attempt_count
           Right == /\ chunks'[c].status
                         \in {"NONE", "PENDING", "RUNNING", "COMPLETED", "FAILED"}
                    /\ chunks'[c].status = "NONE" <=> chunks[c].status = "NONE"
                    /\ chunks[c].status = "FAILED" => chunks'[c].status = "FAILED"
                    /\ chunks'[c].status = "FAILED" => chunks'[c].attempt_count = MaxAttempts
<1>0. /\ chunks[c] \in BatchChunk
      /\ chunks[c].status \in {"NONE", "PENDING", "RUNNING", "COMPLETED", "FAILED"}
      /\ chunks[c].status = "FAILED" => chunks[c].attempt_count = MaxAttempts
      /\ chunks[c].attempt_count \in 0..MaxAttempts /\ MaxAttempts \in Nat
  BY BatchConstants DEF ExhaustedChunks, BatchChunk
<1>1. Kept => Right
  BY <1>0
<1>2. CASE UNCHANGED chunks
  BY <1>1, <1>2
<1>3. ASSUME NEW t \in Tasks, WorkerStep(t) PROVE Right
  <2>n. tasks[t].phase # "free" /\ tasks[t].chunk = c => chunks[c].status # "NONE"
    BY DEF TasksOnChunks
  <2>a. Active(t) /\ tasks[t].chunk = c => chunks[c].status \in {"RUNNING", "COMPLETED"}
    BY DEF HoldsChunk
  <2>1. CASE RefuseClaim(t)
    <3>1. \/ UNCHANGED chunks
          \/ Refusal(t) = "exhausted" /\ chunks' = Marked(chunks, {tasks[t].chunk}, "FAILED")
      <4>1. Refusal(t) \notin {"paused", "cancelled"}
        BY DEF Refusal, Uncommanded
      <4> QED BY <2>1, <4>1 DEF RefuseClaim
    <3>2. ASSUME Refusal(t) = "exhausted", chunks' = Marked(chunks, {tasks[t].chunk}, "FAILED")
          PROVE  Right
      <4>1. CASE tasks[t].chunk # c
        BY <1>1, <3>2, <4>1 DEF Marked
      <4>2. CASE tasks[t].chunk = c
        <5>1. chunks[c].attempt_count >= MaxAttempts
          BY <3>2, <4>2 DEF Refusal
        <5>2. chunks[c].attempt_count = MaxAttempts
          BY <1>0, <5>1
        <5>3. chunks[c].status # "NONE"
          BY <2>n, <2>1, <4>2 DEF RefuseClaim
        <5>4. chunks'[c] = [chunks[c] EXCEPT !.status = "FAILED"]
          BY <3>2, <4>2 DEF Marked
        <5>5. chunks'[c].status = "FAILED" /\ chunks'[c].attempt_count = MaxAttempts
          BY <1>0, <5>2, <5>4 DEF BatchChunk
        <5> QED BY <5>3, <5>5
      <4> QED BY <4>1, <4>2
    <3> QED BY <1>2, <3>1, <3>2
  <2>2. CASE claim_chunk(t)
    <3>1. CASE tasks[t].chunk # c
      BY <1>1, <2>2, <3>1 DEF claim_chunk
    <3>2. CASE tasks[t].chunk = c
      <4>1. ~ chunks[c].attempt_count >= MaxAttempts
        BY <2>2, <3>2 DEF claim_chunk, Refusal
      <4>2. chunks[c].status # "FAILED"
        BY <1>0, <4>1
      <4>3. chunks[c].status # "NONE"
        BY <2>n, <2>2, <3>2 DEF claim_chunk
      <4>4. chunks'[c].status = "RUNNING"
        BY <1>0, <2>2, <3>2 DEF claim_chunk, BatchChunk
      <4> QED BY <4>2, <4>3, <4>4
    <3> QED BY <3>1, <3>2
  <2>3. CASE SaveCheckpoint(t)
    BY <1>0, <1>1, <2>3 DEF SaveCheckpoint, BatchChunk
  <2>4. CASE CompleteChunk(t)
    <3>1. tasks[t].chunk = c => chunks[c].status \in {"RUNNING", "COMPLETED"}
      BY <2>a, <2>4 DEF CompleteChunk, Active
    <3>2. tasks[t].chunk = c => chunks'[c].status = "COMPLETED"
      BY <1>0, <2>4 DEF CompleteChunk, Released, BatchChunk
    <3>3. tasks[t].chunk # c => Kept
      BY <1>0, <2>4 DEF CompleteChunk
    <3> QED BY <1>1, <3>1, <3>2, <3>3
  <2>5. CASE FailChunk(t)
    <3>1. tasks[t].chunk # c => Kept
      BY <1>0, <2>5 DEF FailChunk
    <3>2. ASSUME tasks[t].chunk = c PROVE Right
      <4>1. chunks[c].status \in {"RUNNING", "COMPLETED"}
        BY <2>a, <2>5, <3>2 DEF FailChunk, Active
      <4>2. CASE chunks[c].attempt_count < MaxAttempts
        <5>1. chunks'[c].status = "PENDING"
          BY <1>0, <2>5, <3>2, <4>2 DEF FailChunk, Released, BatchChunk
        <5> QED BY <4>1, <5>1
      <4>3. CASE ~ chunks[c].attempt_count < MaxAttempts
        <5>1. /\ chunks'[c].status = "FAILED"
              /\ chunks'[c].attempt_count = chunks[c].attempt_count
          BY <1>0, <2>5, <3>2, <4>3 DEF FailChunk, Released, BatchChunk
        <5>2. chunks[c].attempt_count = MaxAttempts
          BY <1>0, <4>3
        <5> QED BY <4>1, <5>1, <5>2
      <4> QED BY <4>2, <4>3
    <3> QED BY <1>1, <3>1, <3>2
  <2>6. ~ StopChunk(t)
    BY DEF StopChunk, Uncommanded
  <2>7. ReadItems(t) \/ CheckBatch(t) \/ ProcessItem(t) \/ refresh_batch_progress(t)
          => UNCHANGED chunks
    BY DEF ReadItems, CheckBatch, ProcessItem, refresh_batch_progress
  <2> QED BY <1>2, <1>3, <2>1, <2>2, <2>3, <2>4, <2>5, <2>6, <2>7 DEF WorkerStep
<1>4. ASSUME NEW d \in ChunkIds,
             TimePasses(d) \/ PublishSent(d) \/ PublishSkipped(d) \/ PublishRefused(d)
               \/ LosePublication(d)
      PROVE  Right
  <2>1. Kept
    BY <1>0, <1>4 DEF TimePasses, LeaseExpires, DispatchAges, PublishSent, PublishSkipped,
                      PublishRefused, LosePublication, BatchChunk
  <2> QED BY <1>1, <2>1
<1>5. ASSUME recover_stalled_work PROVE Right
  <2>1. CASE chunks[c].status = "RUNNING"
    <3>1. chunks'[c].status \in {"RUNNING", "PENDING"}
      BY <1>0, <1>5, <2>1
         DEF recover_stalled_work, RecoverChunks, RecoveredChunks, Released, BatchChunk
    <3> QED BY <2>1, <3>1
  <2>2. CASE chunks[c].status # "RUNNING"
    <3>1. c \notin Expired
      BY <2>2 DEF Expired, InStatus
    <3>2. Kept
      BY <1>5, <3>1 DEF recover_stalled_work, RecoverChunks, RecoveredChunks
    <3> QED BY <1>1, <3>2
  <2> QED BY <2>1, <2>2
<1>6. CommandStep => UNCHANGED chunks
  BY DEF CommandStep, pause_batch, resume_batch, ResumeWithItems, ResumeWithoutItems,
         cancel_batch, AdminSetStatus, AdminCancelBatch, AdminCancelReservation, batchVars
<1>7. \A t \in Tasks : Raise(t) \/ Crash(t) => UNCHANGED chunks
  BY DEF Raise, Crash
<1> QED
  BY <1>2, <1>3, <1>4, <1>5, <1>6, <1>7
     DEF Next, IngestStep, Send, HoldForBatch, PublishIngestion, LoseIngestion,
         IngestUnreadable, IngestAgain, batchVars, vars

\* A message or a worker keeps its chunk; a new message is for a PENDING one.
LEMMA TaskChunkStep ==
  ASSUME Core, [Next]_vars, NEW u \in Tasks, tasks'[u].phase # "free"
  PROVE  \/ tasks[u].phase # "free" /\ tasks'[u].chunk = tasks[u].chunk
         \/ \E c \in ChunkIds : PublishSent(c) /\ tasks'[u].chunk = c
<1> USE DEF Core, TypeOK, BatchTypeOK
<1> DEFINE Same == tasks[u].phase # "free" /\ tasks'[u].chunk = tasks[u].chunk
<1>0. tasks[u] \in Task
  OBVIOUS
<1>f. FreeTask.phase = "free"
  BY DEF FreeTask
<1>q. \A c : [FreeTask EXCEPT !.phase = "queued", !.chunk = c].chunk = c
  BY DEF FreeTask
<1>1. CASE tasks'[u] = tasks[u]
  BY <1>1
<1>2. ASSUME NEW t \in Tasks, WorkerStep(t) \/ Raise(t) \/ Crash(t) PROVE Same
  <2>1. CASE t # u
    <3>1. tasks'[u] = tasks[u]
      BY <1>2, <2>1
         DEF WorkerStep, RefuseClaim, claim_chunk, ReadItems, CheckBatch, StopChunk,
             ProcessItem, SaveCheckpoint, CompleteChunk, FailChunk, refresh_batch_progress,
             Raise, Crash, GoTo, Leave, Done
    <3> QED BY <3>1
  <2>2. CASE t = u
    <3>1. tasks[u].phase # "free"
      BY <1>2, <2>2
         DEF WorkerStep, RefuseClaim, claim_chunk, ReadItems, CheckBatch, StopChunk,
             ProcessItem, SaveCheckpoint, CompleteChunk, FailChunk, refresh_batch_progress,
             Raise, Crash
    <3>2. ~ Done(u)
      BY <1>f DEF Done
    <3>3. \A phase : GoTo(u, phase) \/ Leave(u, phase) => tasks'[u].chunk = tasks[u].chunk
      <4>1. \A phase : GoTo(u, phase) => tasks'[u].chunk = tasks[u].chunk
        BY <1>0 DEF GoTo, Task
      <4>2. \A phase : Leave(u, phase) => tasks'[u].chunk = tasks[u].chunk
        BY <1>0 DEF Leave, Task
      <4> QED BY <4>1, <4>2
    <3>4. ReadItems(u) \/ CheckBatch(u) \/ SaveCheckpoint(u)
            => tasks'[u].chunk = tasks[u].chunk
      BY <1>0 DEF ReadItems, CheckBatch, SaveCheckpoint, GoTo, Task
    <3>5. refresh_batch_progress(u) \/ Crash(u) => tasks'[u].chunk = tasks[u].chunk
      BY <1>q, <3>2 DEF refresh_batch_progress, Crash
    <3> QED BY <1>2, <2>2, <3>1, <3>2, <3>3, <3>4, <3>5
            DEF WorkerStep, RefuseClaim, claim_chunk, StopChunk, ProcessItem, CompleteChunk,
                FailChunk, Raise
  <2> QED BY <2>1, <2>2
<1>3. ASSUME NEW c \in ChunkIds, PublishSent(c)
      PROVE  tasks'[u] = tasks[u] \/ tasks'[u].chunk = c
  BY <1>3, <1>q DEF PublishSent
<1>4. \A c \in ChunkIds :
        PublishSkipped(c) \/ PublishRefused(c) \/ LosePublication(c) \/ TimePasses(c)
          => UNCHANGED tasks
  BY DEF PublishSkipped, PublishRefused, LosePublication, TimePasses, LeaseExpires,
         DispatchAges
<1>5. CommandStep \/ recover_stalled_work => UNCHANGED tasks
  BY DEF CommandStep, pause_batch, resume_batch, ResumeWithItems, ResumeWithoutItems,
         cancel_batch, AdminSetStatus, AdminCancelBatch, AdminCancelReservation,
         batchVars, recover_stalled_work, RecoverChunks
<1> QED
  BY <1>1, <1>2, <1>3, <1>4, <1>5
     DEF Next, IngestStep, Send, HoldForBatch, PublishIngestion, LoseIngestion,
         IngestFile, IngestUnreadable, IngestAgain, batchVars, vars

LEMMA TasksOnChunksStep ==
  ASSUME LeaseInv, ExhaustedChunks, TasksOnChunks, Commands = {}, [Next]_vars
  PROVE  TasksOnChunks'
<1> SUFFICES ASSUME NEW u \in Tasks, tasks'[u].phase # "free"
             PROVE  chunks'[tasks'[u].chunk].status # "NONE"
  BY DEF TasksOnChunks
<1>1. ~ \E o \in HygieneOutcomes : IngestFile(o)
  BY FileIngested DEF LeaseInv
<1>2. \A c \in ChunkIds : chunks[c].status # "NONE" => chunks'[c].status # "NONE"
  BY <1>1, StatusStep
<1>3. \A c \in ChunkIds : PublishSent(c) => chunks[c].status # "NONE"
  BY DEF PublishSent
<1>4. tasks[u].phase # "free" =>
        tasks[u].chunk \in ChunkIds /\ chunks[tasks[u].chunk].status # "NONE"
  BY DEF LeaseInv, Core, TasksHaveWork, TasksOnChunks
<1> QED BY <1>2, <1>3, <1>4, TaskChunkStep DEF LeaseInv

LEMMA ExhaustedStep ==
  ASSUME LeaseInv, ExhaustedChunks, TasksOnChunks, Commands = {}, [Next]_vars
  PROVE  ExhaustedChunks'
<1>1. CASE \E o \in HygieneOutcomes : IngestFile(o)
  BY <1>1, FileIngested DEF ExhaustedChunks, LeaseInv
<1>2. CASE ~ \E o \in HygieneOutcomes : IngestFile(o)
  BY <1>2, StatusStep DEF ExhaustedChunks
<1> QED BY <1>1, <1>2

\* Without items nothing but the ingestion makes any.
LEMMA ItemsStayNone ==
  ASSUME Core, [Next]_vars, ~ HasItems, ~ \E o \in HygieneOutcomes : IngestFile(o)
  PROVE  ~ HasItems'
BY ItemsStep DEF Core, NothingBeforeIngestion, HasItems

LEMMA CoveredStep ==
  ASSUME LeaseInv, ExhaustedChunks, TasksOnChunks, FileIsCovered, Commands = {}, [Next]_vars
  PROVE  FileIsCovered'
<1> SUFFICES ASSUME HasItems', NEW r \in Rows
             PROVE  \/ Over(r)'
                    \/ \E c \in ChunkIds : r \in RowsOf(c)' /\ chunks'[c].status # "NONE"
  BY DEF FileIsCovered
<1>1. ASSUME NEW o \in HygieneOutcomes, IngestFile(o)
      PROVE  \/ Over(r)'
             \/ \E c \in ChunkIds : r \in RowsOf(c)' /\ chunks'[c].status # "NONE"
  <2> DEFINE rows == Rows \ (o.invalid \cup o.duplicate)
  <2>1. CASE r \in rows
    <3>1. chunks' = ChunksOf(rows)
      BY <1>1 DEF IngestFile
    <3>2. rows \in SUBSET Rows
      OBVIOUS
    <3> HIDE DEF rows
    <3>3. PICK c \in ChunkIds : /\ ChunksOf(rows)[c].status = "PENDING"
                                /\ ChunksOf(rows)[c].start_row <= r
                                /\ r <= ChunksOf(rows)[c].end_row
      BY <2>1, <3>2, ChunksOfCovers
    <3> QED BY <3>1, <3>3 DEF RowsOf
  <2>2. CASE r \notin rows
    BY <1>1, <2>2 DEF IngestFile, Over, TERMINAL_ITEM_STATUSES
  <2> QED BY <2>1, <2>2
<1>2. CASE ~ \E o \in HygieneOutcomes : IngestFile(o)
  <2>1. HasItems
    BY <1>2, ItemsStayNone DEF LeaseInv
  <2>2. Over(r) \/ \E c \in ChunkIds : r \in RowsOf(c) /\ chunks[c].status # "NONE"
    BY <2>1 DEF FileIsCovered
  <2>3. Over(r) => Over(r)'
    BY <1>2, RowsKept DEF LeaseInv
  <2>4. \A c \in ChunkIds : RowsOf(c)' = RowsOf(c)
    BY <1>2, RowsKept DEF LeaseInv
  <2>5. \A c \in ChunkIds : chunks[c].status # "NONE" => chunks'[c].status # "NONE"
    BY <1>2, StatusStep
  <2> QED BY <2>2, <2>3, <2>4, <2>5
<1> QED BY <1>1, <1>2

\* A batch comes to its end in the ingestion of a file without a row to do, or in
\* the refresh of a worker that finds no chunk active.
LEMMA Concluding ==
  ASSUME Core, Commands = {}, [Next]_vars, ~ \E o \in HygieneOutcomes : IngestFile(o)
  PROVE  \/ UNCHANGED batch
         \/ batch' = "RUNNING" /\ batch = "QUEUED"
         \/ IngestUnreadable
         \/ \E t \in Tasks : refresh_batch_progress(t) /\ ActiveChunks = {}
                             /\ batch' = Conclusion
<1>1. \A t \in Tasks : WorkerStep(t) =>
        \/ UNCHANGED batch
        \/ batch' = "RUNNING" /\ batch = "QUEUED"
        \/ refresh_batch_progress(t) /\ ActiveChunks = {} /\ batch' = Conclusion
  BY ZenonT(60) DEF WorkerStep, RefuseClaim, claim_chunk, ReadItems, CheckBatch, StopChunk, ProcessItem,
         SaveCheckpoint, CompleteChunk, FailChunk, refresh_batch_progress
<1>2. CommandStep => UNCHANGED batch
  BY DEF CommandStep, pause_batch, resume_batch, ResumeWithItems, ResumeWithoutItems,
         cancel_batch, AdminSetStatus, AdminCancelBatch, AdminCancelReservation, batchVars
<1>3. \A c \in ChunkIds :
        PublishSent(c) \/ PublishSkipped(c) \/ PublishRefused(c) \/ LosePublication(c)
          \/ TimePasses(c)
          => UNCHANGED batch
  BY DEF PublishSent, PublishSkipped, PublishRefused, LosePublication, TimePasses,
         LeaseExpires, DispatchAges
<1>4. \A t \in Tasks : Raise(t) \/ Crash(t) => UNCHANGED batch
  BY DEF Raise, Crash
<1> QED
  BY <1>1, <1>2, <1>3, <1>4
     DEF Next, IngestStep, Send, HoldForBatch, PublishIngestion, LoseIngestion,
         IngestAgain, recover_stalled_work, RecoverChunks, batchVars, vars

LEMMA LossStep ==
  ASSUME LossInv, Commands = {}, [Next]_vars
  PROVE  RowsAreLostOnlyByExhaustion'
<1> USE DEF LossInv
<1> SUFFICES ASSUME Concluded', NEW r \in Rows, ~ Over(r)'
             PROVE  \E c \in ChunkIds : /\ r \in RowsOf(c)'
                                        /\ chunks'[c].status = "FAILED"
                                        /\ chunks'[c].attempt_count = MaxAttempts
  BY DEF RowsAreLostOnlyByExhaustion, Over
<1>1. ~ \E o \in HygieneOutcomes : IngestFile(o)
  <2> SUFFICES ASSUME NEW o \in HygieneOutcomes, IngestFile(o) PROVE FALSE
    OBVIOUS
  <2>1. Rows \ (o.invalid \cup o.duplicate) = {}
    BY DEF IngestFile, Concluded
  <2> QED BY <2>1 DEF IngestFile, Over, TERMINAL_ITEM_STATUSES
<1>2. ~ Over(r) /\ \A c \in ChunkIds : RowsOf(c)' = RowsOf(c)
  BY <1>1, RowsKept DEF LeaseInv
<1>3. \E c \in ChunkIds : r \in RowsOf(c) /\ chunks[c].status = "FAILED"
  <2>1. CASE Concluded
    BY <1>2, <2>1 DEF RowsAreLostOnlyByExhaustion, Over
  <2>2. CASE ~ Concluded
    <3>1. PICK t \in Tasks : refresh_batch_progress(t) /\ ActiveChunks = {}
      BY <1>1, <2>2, Concluding DEF LeaseInv, Concluded, IngestUnreadable
    <3>2. HasItems
      BY <3>1 DEF LeaseInv, Core, NothingBeforeIngestion, refresh_batch_progress
    <3>3. PICK c \in ChunkIds : r \in RowsOf(c) /\ chunks[c].status # "NONE"
      BY <1>2, <3>2 DEF FileIsCovered
    <3>4. chunks[c].status \notin {"PENDING", "RUNNING"}
      BY <3>1 DEF ActiveChunks, InStatus
    <3>5. chunks[c].status # "COMPLETED"
      BY <1>2, <3>3 DEF IInv, CompletedChunkHasNoPendingItem, Over
    <3> QED BY <3>3, <3>4, <3>5 DEF ExhaustedChunks
  <2> QED BY <2>1, <2>2
<1>4. \A c \in ChunkIds : chunks[c].status = "FAILED" =>
        chunks'[c].status = "FAILED" /\ chunks'[c].attempt_count = MaxAttempts
  BY <1>1, StatusStep
<1> QED BY <1>2, <1>3, <1>4

LEMMA LossInvInit == Init => LossInv
<1> SUFFICES ASSUME Init PROVE LossInv
  OBVIOUS
<1>1. ExhaustedChunks
  BY DEF Init, ExhaustedChunks, NoChunk
<1>2. TasksOnChunks
  BY DEF Init, TasksOnChunks, FreeTask
<1>3. FileIsCovered
  BY DEF Init, FileIsCovered, HasItems
<1>4. RowsAreLostOnlyByExhaustion
  BY DEF Init, RowsAreLostOnlyByExhaustion, Concluded
<1> QED BY <1>1, <1>2, <1>3, <1>4, IInvInit, LeaseInvInit DEF LossInv

LEMMA LossInvStep ==
  ASSUME LossInv, Commands = {}, ~ SlowWorkers, [Next]_vars
  PROVE  LossInv'
BY IInvStep, LeaseInvStep, ExhaustedStep, TasksOnChunksStep, CoveredStep, LossStep DEF LossInv

\* Whatever dies and whatever is lost or sent twice, a batch is concluded with an
\* unprocessed row only if the attempts of the row's chunk are all spent and the
\* chunk says FAILED (claim_chunk, refresh_batch_progress).
THEOREM LossNeedsExhaustion ==
  ASSUME Commands = {}, ~ SlowWorkers
  PROVE  Spec => []RowsAreLostOnlyByExhaustion
<1>1. LossInv /\ [Next]_vars => LossInv'
  BY LossInvStep
<1>2. LossInv => RowsAreLostOnlyByExhaustion
  BY DEF LossInv
<1> QED BY <1>1, <1>2, LossInvInit, PTL DEF Spec

-----------------------------------------------------------------------------
(* A settled reservation is settled with the last result.  When it is      *)
(* settled no chunk is active; what is reopened after that (a completed    *)
(* chunk whose refresh failed) has only rows that are over, and a chunk    *)
(* that has failed stays failed, because a worker's list and the rows it   *)
(* fails are its own chunk's.                                              *)

\* A worker's list holds rows of its chunk, and checkpoints lie within the chunk.
TodoIsOwn(t) ==
  tasks[t].phase \in {"check", "item", "checkpoint"} =>
    \A k \in 1..Len(tasks[t].todo) : tasks[t].todo[k] \in RowsOf(tasks[t].chunk)

CheckpointInside(c) == chunks[c].start_row <= chunks[c].checkpoint_row + 1

\* Nothing is left to do outside the chunks that have failed.
WorkIsDone ==
  /\ HasItems
  /\ \A c \in ChunkIds :
       chunks[c].status \notin {"NONE", "FAILED"} => \A r \in RowsOf(c) : Over(r)

SettledInv ==
  /\ LossInv
  /\ \A t \in Tasks : TodoIsOwn(t)
  /\ \A c \in ChunkIds : CheckpointInside(c)
  /\ reservation = "SETTLED" => WorkIsDone

LEMMA CutInside ==
  ASSUME NEW rows \in SUBSET Rows, NEW c \in ChunkIds
  PROVE  ChunksOf(rows)[c].start_row <= ChunksOf(rows)[c].checkpoint_row + 1
<1> DEFINE n == Cardinality(rows)
           last(x) == IF x * ChunkSize < n THEN x * ChunkSize ELSE n
           first == RowAt(rows, (c - 1) * ChunkSize + 1)
<1>1. ChunksOf(rows)[c] \in BatchChunk
  BY ChunksOfType
<1>2. CASE (c - 1) * ChunkSize >= n
  <2>1. ChunksOf(rows)[c] = NoChunk
    BY <1>2 DEF ChunksOf
  <2> QED BY <2>1 DEF NoChunk
<1>3. CASE ~ (c - 1) * ChunkSize >= n
  <2>1. ChunksOf(rows)[c] = [NoChunk EXCEPT !.status = "PENDING",
                                            !.start_row = first,
                                            !.end_row = RowAt(rows, last(c)),
                                            !.checkpoint_row = first - 1]
    BY <1>3 DEF ChunksOf
  <2> HIDE DEF first, last
  <2>2. ChunksOf(rows)[c].start_row = first /\ ChunksOf(rows)[c].checkpoint_row = first - 1
    BY <2>1 DEF NoChunk
  <2>3. first \in Nat
    BY <1>1, <2>2 DEF BatchChunk
  <2> QED BY <2>2, <2>3
<1> QED BY <1>2, <1>3

LEMMA CheckpointInsideStep ==
  ASSUME SettledInv, [Next]_vars, NEW c \in ChunkIds
  PROVE  CheckpointInside(c)'
<1> USE DEF SettledInv, LossInv, LeaseInv, Core, TypeOK, BatchTypeOK
<1>1. CASE \E o \in HygieneOutcomes : IngestFile(o)
  BY <1>1, CutInside DEF IngestFile, CheckpointInside
<1>2. ASSUME NEW t \in Tasks, SaveCheckpoint(t), tasks[t].chunk = c,
             chunks'[c].start_row = chunks[c].start_row
      PROVE  CheckpointInside(c)'
  <2> DEFINE todo == tasks[t].todo
  <2>1. todo \in Seq(Rows) /\ todo # <<>> /\ tasks[t].phase = "checkpoint"
    BY <1>2 DEF SaveCheckpoint, Task, TasksHaveWork
  <2>2. Head(todo) = todo[1] /\ 1 \in 1..Len(todo)
    BY <2>1
  <2>3. Head(todo) \in RowsOf(c)
    BY <1>2, <2>1, <2>2 DEF TodoIsOwn
  <2>4. chunks'[c].checkpoint_row = Head(todo)
    BY <1>2 DEF SaveCheckpoint, BatchChunk
  <2>5. chunks[c].start_row <= Head(todo) /\ Head(todo) \in Nat /\ chunks[c].start_row \in Nat
    BY <2>3, RowsAreNumbers DEF RowsOf, BatchChunk
  <2> QED BY <1>2, <2>4, <2>5 DEF CheckpointInside
<1> QED BY <1>1, <1>2, ChunkStep DEF CheckpointInside

LEMMA TodoStep ==
  ASSUME SettledInv, [Next]_vars, NEW u \in Tasks
  PROVE  TodoIsOwn(u)'
<1> USE DEF SettledInv, LossInv, LeaseInv, Core, TypeOK, BatchTypeOK
<1>0. tasks[u] \in Task /\ tasks[u].todo \in Seq(Rows)
  BY DEF Task
<1>1. CASE \E o \in HygieneOutcomes : IngestFile(o)
  BY <1>1, FileIngested DEF TodoIsOwn
<1>2. CASE ~ \E o \in HygieneOutcomes : IngestFile(o)
  <2> DEFINE c == tasks[u].chunk
             todo == tasks[u].todo
  <2>a. /\ tasks[u].phase # "free" => c \in ChunkIds
        /\ \A d \in ChunkIds : RowsOf(d)' = RowsOf(d)
    BY <1>2, RowsKept DEF TasksHaveWork
  <2>1. CASE tasks'[u].phase \notin {"check", "item", "checkpoint"}
    BY <2>1 DEF TodoIsOwn
  <2>2. CASE /\ tasks[u].phase \in {"check", "item", "checkpoint"}
             /\ tasks'[u].todo = todo /\ tasks'[u].chunk = c
    BY <2>2, <2>a DEF TodoIsOwn
  <2>3. CASE ReadItems(u)
    <3>1. /\ tasks'[u].todo = PendingRows(c) /\ tasks'[u].chunk = c /\ c \in ChunkIds
      BY <1>0, <2>3, <2>a DEF ReadItems, Task
    <3> QED BY <2>a, <3>1, PendingRowsType DEF TodoIsOwn
  <2>4. CASE SaveCheckpoint(u)
    <3> DEFINE rest == Tail(todo)
    <3>1. /\ tasks'[u].todo = rest /\ tasks'[u].chunk = c
          /\ tasks[u].phase = "checkpoint"
      BY <1>0, <2>4 DEF SaveCheckpoint, Task
    <3>2. \A k \in 1..Len(rest) : k + 1 \in 1..Len(todo) /\ rest[k] = todo[k + 1]
      BY <1>0, <3>1 DEF TasksHaveWork
    <3>3. \A k \in 1..Len(rest) : rest[k] \in RowsOf(c)
      BY <3>1, <3>2 DEF TodoIsOwn
    <3> QED BY <2>a, <3>1, <3>3 DEF TodoIsOwn
  <2>5. CASE CheckBatch(u) \/ ProcessItem(u)
    BY <1>0, <2>2, <2>5 DEF CheckBatch, ProcessItem, GoTo, Task
  <2>6. ASSUME WorkerStep(u), ~ ReadItems(u), ~ CheckBatch(u), ~ ProcessItem(u),
               ~ SaveCheckpoint(u)
        PROVE  tasks'[u].phase \notin {"check", "item", "checkpoint"}
    <3>0. \A phase : GoTo(u, phase) => tasks'[u].phase = phase
      BY <1>0 DEF GoTo, Task
    <3>1. \A phase : Leave(u, phase) => tasks'[u].phase = phase
      BY <1>0 DEF Leave, Task
    <3>2. Done(u) => tasks'[u].phase = "free"
      BY DEF Done, FreeTask
    <3>3. CASE refresh_batch_progress(u)
      <4>1. CASE Done(u)
        BY <3>2, <4>1
      <4>2. CASE tasks'[u] = [FreeTask EXCEPT !.phase = "queued", !.chunk = tasks[u].chunk]
        BY <4>2 DEF FreeTask
      <4> QED BY <3>3, <4>1, <4>2 DEF refresh_batch_progress
    <3> QED BY <2>6, <3>0, <3>1, <3>2, <3>3
            DEF WorkerStep, RefuseClaim, claim_chunk, StopChunk, CompleteChunk, FailChunk
  <2>7. CASE Raise(u)
    BY <1>0, <2>1, <2>7 DEF Raise, Leave, Task
  <2>8. CASE TaskUntouched(u)
    <3>1. \A d : [FreeTask EXCEPT !.phase = "queued", !.chunk = d].phase = "queued"
      BY DEF FreeTask
    <3>2. FreeTask.phase = "free"
      BY DEF FreeTask
    <3> QED BY <2>1, <2>2, <2>8, <3>1, <3>2 DEF TaskUntouched
  <2> QED BY <2>1, <2>3, <2>4, <2>5, <2>6, <2>7, <2>8, OtherTasks
<1> QED BY <1>1, <1>2

\* Whoever settles finds the work done.
LEMMA SettledAtTheEnd ==
  ASSUME LossInv, [Next]_vars, Commands = {}, reservation' = "SETTLED", reservation # "SETTLED"
  PROVE  WorkIsDone
<1> USE DEF LossInv, LeaseInv
<1>1. PICK t \in Tasks : refresh_batch_progress(t) /\ ActiveChunks = {}
  <2>1. ASSUME NEW t \in Tasks, WorkerStep(t)
        PROVE  refresh_batch_progress(t) /\ ActiveChunks = {}
    BY <2>1 DEF WorkerStep, refresh_batch_progress, restVars
  <2>2. ~ CommandStep \/ reservation' \in {reservation, "CANCELLED"}
    BY DEF CommandStep, pause_batch, resume_batch, ResumeWithItems, ResumeWithoutItems,
           cancel_batch, AdminSetStatus, AdminCancelBatch, AdminCancelReservation, restVars
  <2>3. ~ IngestStep
    BY DEF IngestStep, IngestFile, IngestUnreadable, IngestAgain
  <2>4. \A c \in ChunkIds : ~ Send(c) /\ ~ TimePasses(c)
    BY DEF Send, TimePasses, restVars
  <2> QED
    BY <2>1, <2>2, <2>3, <2>4
       DEF Next, HoldForBatch, PublishIngestion, LoseIngestion, recover_stalled_work,
           restVars, vars
<1>2. HasItems
  BY <1>1 DEF Core, NothingBeforeIngestion, refresh_batch_progress
<1>3. \A c \in ChunkIds : chunks[c].status \in {"NONE", "COMPLETED", "FAILED"}
  BY <1>1 DEF ExhaustedChunks, ActiveChunks, InStatus
<1>4. \A c \in ChunkIds : chunks[c].status = "COMPLETED" => \A r \in RowsOf(c) : Over(r)
  BY DEF IInv, CompletedChunkHasNoPendingItem, Over
<1> QED BY <1>2, <1>3, <1>4 DEF WorkIsDone

\* Work that is done is not taken up again.
LEMMA DoneStep ==
  ASSUME SettledInv, [Next]_vars, Commands = {}, WorkIsDone
  PROVE  WorkIsDone' /\ items' = items
<1> USE DEF SettledInv, LossInv, LeaseInv
<1>1. ~ \E o \in HygieneOutcomes : IngestFile(o)
  BY DEF WorkIsDone, IngestFile
<1>2. ASSUME NEW c \in ChunkIds, chunks'[c].status \notin {"NONE", "FAILED"},
             NEW r \in RowsOf(c)'
      PROVE  Over(r)'
  <2>1. chunks[c].status \notin {"NONE", "FAILED"}
    BY <1>1, <1>2, StatusStep
  <2>2. r \in RowsOf(c) /\ r \in Rows /\ (Over(r) => Over(r)')
    BY <1>1, <1>2, RowsKept DEF RowsOf
  <2> QED BY <2>1, <2>2 DEF WorkIsDone
<1> USE DEF Core, TypeOK, BatchTypeOK
<1>3. ASSUME NEW t \in Tasks, ProcessItem(t) PROVE items' = items
  <2> DEFINE todo == tasks[t].todo
             c == tasks[t].chunk
  <2>1. /\ tasks[t].phase = "item" /\ c \in ChunkIds
        /\ todo \in Seq(Rows) /\ todo # <<>>
    BY <1>3 DEF ProcessItem, TasksHaveWork, Task
  <2>2. Head(todo) = todo[1] /\ 1 \in 1..Len(todo)
    BY <2>1
  <2>3. Head(todo) \in RowsOf(c)
    BY <2>1, <2>2 DEF TodoIsOwn
  <2>4. chunks[c].status = "RUNNING"
    BY <2>1 DEF HoldsChunk, Active
  <2>5. items[Head(todo)] \in TERMINAL_ITEM_STATUSES
    BY <2>1, <2>3, <2>4 DEF WorkIsDone, Over
  <2> QED BY <1>3, <2>5 DEF ProcessItem
<1>4. ASSUME NEW t \in Tasks, FailChunk(t) PROVE items' = items
  <2> DEFINE c == tasks[t].chunk
  <2>1. tasks[t].phase = "fail" /\ c \in ChunkIds
    BY <1>4 DEF FailChunk, TasksHaveWork
  <2>2. chunks[c].status \in {"RUNNING", "COMPLETED"}
    BY <2>1 DEF HoldsChunk, Active
  <2>3. \A r \in RowsOf(c) : Over(r)
    BY <2>1, <2>2 DEF WorkIsDone
  <2>4. \A r \in Rows : chunks[c].checkpoint_row < r => chunks[c].start_row <= r
    <3>1. \A r \in Rows : r \in Nat
      BY RowsAreNumbers
    <3>2. /\ chunks[c].start_row \in Nat /\ chunks[c].checkpoint_row \in Nat
          /\ chunks[c].start_row <= chunks[c].checkpoint_row + 1
      BY <2>1 DEF BatchChunk, CheckpointInside
    <3> QED BY <3>1, <3>2
  <2>5. AbandonedRows(c) = {}
    BY <2>3, <2>4 DEF AbandonedRows, RowsOf, Over, TERMINAL_ITEM_STATUSES
  <2>6. items' = [r \in Rows |-> items[r]]
    BY <1>4, <2>5 DEF FailChunk
  <2> QED BY <2>6
<1>5. ASSUME NEW t \in Tasks, WorkerStep(t), ~ ProcessItem(t), ~ FailChunk(t)
      PROVE  items' = items
  BY <1>5 DEF WorkerStep, RefuseClaim, claim_chunk, ReadItems, CheckBatch, StopChunk,
              SaveCheckpoint, CompleteChunk, refresh_batch_progress
<1>6. CommandStep \/ recover_stalled_work => items' = items
  BY DEF CommandStep, pause_batch, resume_batch, ResumeWithItems, ResumeWithoutItems,
         cancel_batch, AdminSetStatus, AdminCancelBatch, AdminCancelReservation,
         batchVars, recover_stalled_work, RecoverChunks
<1>7. \A c \in ChunkIds :
        Send(c) \/ PublishRefused(c) \/ LosePublication(c) \/ TimePasses(c) => items' = items
  BY DEF Send, PublishSent, PublishSkipped, PublishRefused, LosePublication, TimePasses,
         LeaseExpires, DispatchAges
<1>8. \A t \in Tasks : Raise(t) \/ Crash(t) => items' = items
  BY DEF Raise, Crash
<1>9. items' = items
  BY <1>1, <1>3, <1>4, <1>5, <1>6, <1>7, <1>8
     DEF Next, IngestStep, HoldForBatch, PublishIngestion, LoseIngestion,
         IngestUnreadable, IngestAgain, batchVars, vars
<1>10. HasItems'
  BY <1>9 DEF WorkIsDone, HasItems
<1> QED BY <1>2, <1>9, <1>10 DEF WorkIsDone

LEMMA SettledInvInit == Init => SettledInv
<1> SUFFICES ASSUME Init PROVE SettledInv
  OBVIOUS
<1>1. \A t \in Tasks : TodoIsOwn(t)
  BY DEF Init, TodoIsOwn, FreeTask
<1>2. \A c \in ChunkIds : CheckpointInside(c)
  BY DEF Init, CheckpointInside, NoChunk
<1> QED BY <1>1, <1>2, LossInvInit DEF Init, SettledInv

LEMMA SettledInvStep ==
  ASSUME SettledInv, Commands = {}, ~ SlowWorkers, [Next]_vars
  PROVE  SettledInv'
<1>1. reservation' = "SETTLED" => WorkIsDone
  BY SettledAtTheEnd DEF SettledInv
<1>2. reservation' = "SETTLED" => WorkIsDone'
  BY <1>1, DoneStep
<1>3. LossInv'
  BY LossInvStep DEF SettledInv
<1> QED BY <1>2, <1>3, TodoStep, CheckpointInsideStep DEF SettledInv

\* Whoever dies and whatever is retried, redelivered or recovered, no row of a batch
\* gets another status once the reservation of the batch has been settled
\* (refresh_batch_progress, process_chunk).
THEOREM SettlementIsLast ==
  ASSUME Commands = {}, ~ SlowWorkers
  PROVE  Spec => SettlementComesLast
<1>1. SettledInv /\ [Next]_vars => SettledInv'
  BY SettledInvStep
<1>2. SettledInv /\ [Next]_vars => [reservation = "SETTLED" => items' = items]_vars
  BY DoneStep DEF SettledInv
<1> QED BY <1>1, <1>2, SettledInvInit, PTL DEF Spec, SettlementComesLast

-----------------------------------------------------------------------------
(* Nobody dies: a chunk that is RUNNING has a worker, so that no lease is  *)
(* ever taken back, and one that waits has attempts left, so that a chunk  *)
(* only fails in the except branch, with its rows.  A batch is therefore   *)
(* concluded over a file whose rows are all over, and a worker that        *)
(* concludes it again comes to the same conclusion.                        *)

\* A chunk that is RUNNING has a worker; one that waits has an attempt left.
WorkedOn(c) ==
  /\ chunks[c].status = "RUNNING" => \E t \in Tasks : Active(t) /\ tasks[t].chunk = c
  /\ chunks[c].status = "PENDING" => chunks[c].attempt_count < MaxAttempts

FailedWithItsRows(c) == chunks[c].status = "FAILED" => \A r \in RowsOf(c) : Over(r)

\* A batch is over because its rows are, or there never was a message for it.
EndedRightly ==
  batch \in TERMINAL_BATCH_STATUSES =>
    \/ (\A r \in Rows : Over(r)) /\ batch = Conclusion
    \/ /\ toPublish = {}
       /\ \A t \in Tasks : tasks[t].phase = "free"
       /\ \A c \in ChunkIds : chunks[c].status = "NONE"

EndInv ==
  /\ LossInv
  /\ \A c \in ChunkIds : WorkedOn(c) /\ FailedWithItsRows(c)
  /\ EndedRightly

LEMMA EndInvInit == Init => EndInv
<1> SUFFICES ASSUME Init PROVE EndInv
  OBVIOUS
<1>1. \A c \in ChunkIds : chunks[c].status = "NONE"
  BY DEF Init, NoChunk
<1>2. batch \notin TERMINAL_BATCH_STATUSES
  BY DEF Init, TERMINAL_BATCH_STATUSES
<1> QED BY <1>1, <1>2, LossInvInit DEF EndInv, WorkedOn, FailedWithItsRows, EndedRightly

-----------------------------------------------------------------------------
(* Chunks at work have a worker *)

\* A chunk and its workers are left as they are, as far as EndInv looks.
Undisturbed(c) ==
  /\ chunks'[c].status = chunks[c].status
  /\ chunks'[c].attempt_count = chunks[c].attempt_count
  /\ \A t \in Tasks : Active(t) /\ tasks[t].chunk = c => Active(t)' /\ tasks'[t].chunk = c

\* What a step that disturbs a chunk leaves behind.
Right(c) ==
  /\ chunks'[c].status = "RUNNING" => \E t \in Tasks : Active(t)' /\ tasks'[t].chunk = c
  /\ chunks'[c].status = "PENDING" => chunks'[c].attempt_count < MaxAttempts
  /\ chunks'[c].status = "FAILED" =>
       chunks[c].status = "FAILED" \/ \A r \in RowsOf(c) : Over(r)'

LEMMA UndisturbedIsRight ==
  ASSUME NEW c \in ChunkIds, WorkedOn(c), Undisturbed(c)
  PROVE  Right(c)
BY DEF WorkedOn, Undisturbed, Right

\* No lease is taken back: whoever runs a chunk holds its live lease.
LEMMA NothingExpired ==
  ASSUME LeaseInv, \A c \in ChunkIds : WorkedOn(c)
  PROVE  Expired = {}
<1> SUFFICES ASSUME NEW c \in ChunkIds, chunks[c].status = "RUNNING", chunks[c].lease = "expired"
             PROVE  FALSE
  BY DEF Expired, InStatus
<1>1. PICK t \in Tasks : Active(t) /\ tasks[t].chunk = c
  BY DEF WorkedOn
<1> QED BY <1>1 DEF LeaseInv, HoldsChunk

\* The refusal of an exhausted chunk finds the chunk FAILED.
LEMMA ExhaustedHasFailed ==
  ASSUME EndInv, NEW t \in Tasks, tasks[t].phase = "queued", Refusal(t) = "exhausted"
  PROVE  chunks[tasks[t].chunk].status = "FAILED"
<1> DEFINE c == tasks[t].chunk
<1> USE DEF EndInv, LossInv
<1>1. c \in ChunkIds
  BY DEF LeaseInv, Core, TasksHaveWork
<1>2. chunks[c].status \in {"NONE", "PENDING", "RUNNING", "COMPLETED", "FAILED"}
  BY <1>1 DEF ExhaustedChunks
<1>3. chunks[c].status # "NONE"
  BY DEF TasksOnChunks
<1>4. chunks[c].status # "COMPLETED" /\ chunks[c].attempt_count >= MaxAttempts
  BY DEF Refusal
<1>5. chunks[c].status # "PENDING"
  <2>1. chunks[c].attempt_count \in 0..MaxAttempts /\ MaxAttempts \in Nat
    BY <1>1, BatchConstants DEF LeaseInv, Core, TypeOK, BatchTypeOK, BatchChunk
  <2> QED BY <1>1, <1>4, <2>1 DEF WorkedOn
<1>6. chunks[c].status # "RUNNING"
  <2> SUFFICES ASSUME chunks[c].status = "RUNNING" PROVE FALSE
    OBVIOUS
  <2>1. PICK u \in Tasks : Active(u) /\ tasks[u].chunk = c
    BY <1>1 DEF WorkedOn
  <2>2. u # t
    BY <2>1 DEF Active
  <2> QED BY <2>1, <2>2, HeldIsRefused
<1> QED BY <1>2, <1>3, <1>4, <1>5, <1>6

\* The except branch, run out of attempts, leaves no row of its chunk pending.
LEMMA FailedChunkIsOver ==
  ASSUME EndInv, [Next]_vars, NEW t \in Tasks, FailChunk(t),
         ~ chunks[tasks[t].chunk].attempt_count < MaxAttempts,
         NEW r \in RowsOf(tasks[t].chunk)
  PROVE  Over(r)'
<1> DEFINE c == tasks[t].chunk
<1> USE DEF EndInv, LossInv, IInv, Core, TypeOK, BatchTypeOK
<1>1. tasks[t].phase = "fail"
  BY DEF FailChunk
<1>2. c \in ChunkIds /\ chunks[c] \in BatchChunk
  BY <1>1 DEF TasksHaveWork
<1>3. r \in Rows /\ r <= chunks[c].end_row /\ r \in Nat
  BY RowsAreNumbers DEF RowsOf
<1>4. ~ \E o \in HygieneOutcomes : IngestFile(o)
  BY <1>1 DEF IngestFile, NothingBeforeIngestion
<1>5. Over(r) => Over(r)'
  BY <1>3, <1>4, RowsKept
<1>6. CASE r <= chunks[c].checkpoint_row
  BY <1>2, <1>5, <1>6 DEF BehindCheckpoint
<1>7. CASE chunks[c].checkpoint_row < r
  <2>1. items[r] \in {"PENDING", "SUCCEEDED", "ABSENT", "FAILED"}
    <3>1. HasItems
      BY <1>1 DEF NothingBeforeIngestion
    <3>2. items[r] # "NONE" /\ items[r] \in ItemStatuses
      BY <1>3, <3>1 DEF NothingBeforeIngestion, HasItems
    <3> QED BY <3>2 DEF ItemStatuses
  <2>2. CASE items[r] = "PENDING"
    <3>1. r \in AbandonedRows(c)
      BY <1>3, <1>7, <2>2 DEF AbandonedRows
    <3>2. items'[r] = "FAILED"
      BY <1>3, <3>1 DEF FailChunk
    <3> QED BY <3>2 DEF Over, TERMINAL_ITEM_STATUSES
  <2>3. CASE items[r] # "PENDING"
    BY <1>5, <2>1, <2>3 DEF Over, TERMINAL_ITEM_STATUSES
  <2> QED BY <2>2, <2>3
<1>8. chunks[c].checkpoint_row \in Nat
  BY <1>2 DEF BatchChunk
<1> QED BY <1>3, <1>6, <1>7, <1>8

\* The steps of workers.
LEMMA WorkerIsRight ==
  ASSUME EndInv, Commands = {}, [Next]_vars, NEW c \in ChunkIds, NEW t \in Tasks, WorkerStep(t)
  PROVE  Right(c)
<1> USE DEF EndInv, LossInv, LeaseInv, Core, TypeOK, BatchTypeOK
<1>0. /\ chunks[c] \in BatchChunk /\ tasks[t] \in Task
      /\ chunks[c].attempt_count \in 0..MaxAttempts /\ MaxAttempts \in Nat
  BY BatchConstants DEF BatchChunk
<1>1. Undisturbed(c) => Right(c)
  BY UndisturbedIsRight
<1>g. \A phase : GoTo(t, phase) => /\ \A u \in Tasks : u # t => tasks'[u] = tasks[u]
                                   /\ tasks'[t].phase = phase
                                   /\ tasks'[t].chunk = tasks[t].chunk
  BY <1>0 DEF GoTo, Task
<1>2. CASE RefuseClaim(t)
  <2>1. \/ UNCHANGED chunks
        \/ Refusal(t) = "exhausted" /\ chunks' = Marked(chunks, {tasks[t].chunk}, "FAILED")
    <3>1. Refusal(t) \notin {"paused", "cancelled"}
      BY DEF Refusal, Uncommanded
    <3> QED BY <1>2, <3>1 DEF RefuseClaim
  <2>2. /\ chunks'[c].status = chunks[c].status
        /\ chunks'[c].attempt_count = chunks[c].attempt_count
    <3>1. CASE UNCHANGED chunks
      BY <3>1
    <3>2. CASE /\ Refusal(t) = "exhausted"
               /\ chunks' = Marked(chunks, {tasks[t].chunk}, "FAILED")
      <4>1. chunks[tasks[t].chunk].status = "FAILED"
        BY <1>2, <3>2, ExhaustedHasFailed DEF RefuseClaim
      <4> QED BY <1>0, <3>2, <4>1 DEF Marked, BatchChunk
    <3> QED BY <2>1, <3>1, <3>2
  <2>3. \A u \in Tasks : Active(u) => tasks'[u] = tasks[u]
    BY <1>2 DEF RefuseClaim, Done, Active
  <2> QED BY <1>1, <2>2, <2>3 DEF Undisturbed, Active
<1>3. CASE claim_chunk(t)
  <2>1. CASE tasks[t].chunk = c
    <3>1. chunks'[c].status = "RUNNING"
      BY <1>0, <1>3, <2>1 DEF claim_chunk, BatchChunk
    <3>2. Active(t)' /\ tasks'[t].chunk = c
      BY <1>3, <1>g, <2>1 DEF claim_chunk, Active
    <3> QED BY <3>1, <3>2 DEF Right
  <2>2. CASE tasks[t].chunk # c
    <3>1. chunks'[c] = chunks[c]
      BY <1>3, <2>2 DEF claim_chunk
    <3>2. \A u \in Tasks : Active(u) => tasks'[u] = tasks[u]
      BY <1>3, <1>g DEF claim_chunk, Active
    <3> QED BY <1>1, <3>1, <3>2 DEF Undisturbed, Active
  <2> QED BY <2>1, <2>2
<1>4. CASE ReadItems(t) \/ CheckBatch(t) \/ ProcessItem(t) \/ SaveCheckpoint(t)
  <2>1. /\ chunks'[c].status = chunks[c].status
        /\ chunks'[c].attempt_count = chunks[c].attempt_count
    <3>1. CASE SaveCheckpoint(t)
      BY <1>0, <3>1 DEF SaveCheckpoint, BatchChunk
    <3>2. CASE UNCHANGED chunks
      BY <3>2
    <3> QED BY <1>4, <3>1, <3>2 DEF ReadItems, CheckBatch, ProcessItem
  <2>2. tasks'[t].phase \in {"check", "item", "checkpoint"} /\ tasks'[t].chunk = tasks[t].chunk
    <3>1. CASE ReadItems(t) \/ SaveCheckpoint(t)
      BY <1>0, <3>1 DEF ReadItems, SaveCheckpoint, Task
    <3>2. CASE CheckBatch(t) \/ ProcessItem(t)
      BY <1>g, <3>2 DEF CheckBatch, ProcessItem, Uncommanded
    <3> QED BY <1>4, <3>1, <3>2
  <2>3. \A u \in Tasks : u # t => tasks'[u] = tasks[u]
    <3>1. CASE ReadItems(t) \/ SaveCheckpoint(t)
      BY <3>1 DEF ReadItems, SaveCheckpoint
    <3>2. CASE CheckBatch(t) \/ ProcessItem(t)
      BY <1>g, <3>2 DEF CheckBatch, ProcessItem, Uncommanded
    <3> QED BY <1>4, <3>1, <3>2
  <2> QED BY <1>1, <2>1, <2>2, <2>3 DEF Undisturbed, Active
<1>5. CASE CompleteChunk(t)
  <2>1. CASE tasks[t].chunk = c
    BY <1>0, <1>5, <2>1 DEF CompleteChunk, Released, BatchChunk, Right
  <2>2. CASE tasks[t].chunk # c
    <3>1. chunks'[c] = chunks[c] /\ \A u \in Tasks : u # t => tasks'[u] = tasks[u]
      BY <1>5, <1>g, <2>2 DEF CompleteChunk
    <3> QED BY <1>1, <2>2, <3>1 DEF Undisturbed, Active
  <2> QED BY <2>1, <2>2
<1>6. CASE FailChunk(t)
  <2>1. CASE tasks[t].chunk = c
    <3>1. CASE chunks[c].attempt_count < MaxAttempts
      BY <1>0, <1>6, <2>1, <3>1 DEF FailChunk, Released, BatchChunk, Right
    <3>2. CASE ~ chunks[c].attempt_count < MaxAttempts
      <4>1. chunks'[c].status = "FAILED"
        BY <1>0, <1>6, <2>1, <3>2 DEF FailChunk, Released, BatchChunk
      <4>2. \A r \in RowsOf(c) : Over(r)'
        BY <1>6, <2>1, <3>2, FailedChunkIsOver
      <4> QED BY <4>1, <4>2 DEF Right
    <3> QED BY <3>1, <3>2
  <2>2. CASE tasks[t].chunk # c
    <3>1. chunks'[c] = chunks[c] /\ \A u \in Tasks : u # t => tasks'[u] = tasks[u]
      BY <1>6, <1>g, <2>2 DEF FailChunk
    <3> QED BY <1>1, <2>2, <3>1 DEF Undisturbed, Active
  <2> QED BY <2>1, <2>2
<1>7. CASE refresh_batch_progress(t)
  <2>1. UNCHANGED chunks /\ \A u \in Tasks : u # t => tasks'[u] = tasks[u]
    BY <1>7 DEF refresh_batch_progress, Done
  <2>2. CASE Active(t) /\ tasks[t].chunk = c
    <3>1. chunks[c].status = "COMPLETED"
      BY <1>7, <2>2 DEF refresh_batch_progress, HoldsChunk, Active
    <3> QED BY <2>1, <3>1 DEF Right
  <2>3. CASE ~ (Active(t) /\ tasks[t].chunk = c)
    BY <1>1, <2>1, <2>3 DEF Undisturbed, Active
  <2> QED BY <2>2, <2>3
<1>8. ~ StopChunk(t)
  BY DEF StopChunk, Uncommanded
<1> QED BY <1>2, <1>3, <1>4, <1>5, <1>6, <1>7, <1>8 DEF WorkerStep

LEMMA ChunksAreRight ==
  ASSUME EndInv, Commands = {}, ~ Crashes, [Next]_vars,
         ~ \E o \in HygieneOutcomes : IngestFile(o), NEW c \in ChunkIds
  PROVE  Right(c)
<1> USE DEF EndInv, LossInv, LeaseInv, Core, TypeOK, BatchTypeOK
<1>0. chunks[c] \in BatchChunk
  OBVIOUS
<1>1. Undisturbed(c) => Right(c)
  BY UndisturbedIsRight
<1>2. CASE UNCHANGED <<chunks, tasks>>
  BY <1>1, <1>2 DEF Undisturbed, Active
<1>3. ASSUME NEW t \in Tasks, WorkerStep(t) PROVE Right(c)
  BY <1>3, WorkerIsRight
<1>4. ASSUME NEW t \in Tasks, Raise(t) PROVE Right(c)
  <2>1. tasks[t] \in Task
    OBVIOUS
  <2>2. /\ tasks'[t].phase = "fail" /\ tasks'[t].chunk = tasks[t].chunk
        /\ \A u \in Tasks : u # t => tasks'[u] = tasks[u]
        /\ UNCHANGED chunks
    BY <1>4, <2>1 DEF Raise, Leave, Task
  <2> QED BY <1>1, <2>2 DEF Undisturbed, Active
<1>5. ASSUME NEW d \in ChunkIds, PublishSent(d) PROVE Right(c)
  <2>1. /\ chunks'[c].status = chunks[c].status
        /\ chunks'[c].attempt_count = chunks[c].attempt_count
    BY <1>0, <1>5 DEF PublishSent, BatchChunk
  <2>2. \A u \in Tasks : Active(u) => tasks'[u] = tasks[u]
    BY <1>5 DEF PublishSent, Unused, Active
  <2> QED BY <1>1, <2>1, <2>2 DEF Undisturbed, Active
<1>6. ASSUME NEW d \in ChunkIds,
             PublishSkipped(d) \/ PublishRefused(d) \/ LosePublication(d) \/ TimePasses(d)
      PROVE  Right(c)
  <2>1. /\ chunks'[c].status = chunks[c].status
        /\ chunks'[c].attempt_count = chunks[c].attempt_count
        /\ UNCHANGED tasks
    BY <1>0, <1>6 DEF PublishSkipped, PublishRefused, LosePublication, TimePasses,
                      LeaseExpires, DispatchAges, BatchChunk
  <2> QED BY <1>1, <2>1 DEF Undisturbed, Active
<1>7. ASSUME recover_stalled_work PROVE Right(c)
  <2>1. chunks'[c] = chunks[c] /\ UNCHANGED tasks
    BY <1>7, NothingExpired DEF recover_stalled_work, RecoverChunks, RecoveredChunks
  <2> QED BY <1>1, <2>1 DEF Undisturbed, Active
<1>8. CommandStep => UNCHANGED <<chunks, tasks>>
  BY DEF CommandStep, pause_batch, resume_batch, ResumeWithItems, ResumeWithoutItems,
         cancel_batch, AdminSetStatus, AdminCancelBatch, AdminCancelReservation, batchVars
<1>9. \A t \in Tasks : ~ Crash(t)
  BY DEF Crash
<1> QED
  BY <1>2, <1>3, <1>4, <1>5, <1>6, <1>7, <1>8, <1>9
     DEF Next, IngestStep, Send, HoldForBatch, PublishIngestion, LoseIngestion,
         IngestUnreadable, IngestAgain, batchVars, vars

\* What ingestion cuts has no attempt behind it.
LEMMA CutIsFresh ==
  ASSUME NEW rows \in SUBSET Rows, NEW c \in ChunkIds
  PROVE  ChunksOf(rows)[c].attempt_count = 0
BY DEF ChunksOf, NoChunk

\* No row, no chunk.
LEMMA NothingToCut ==
  ASSUME NEW c \in ChunkIds
  PROVE  ChunksOf({})[c].status = "NONE"
<1>1. Cardinality({}) = 0
  BY FS_EmptySet
<1>2. (c - 1) * ChunkSize >= 0
  <2>1. c - 1 \in Nat /\ ChunkSize \in Nat
    BY BatchConstants DEF ChunkIds
  <2> QED BY <2>1
<1> QED BY <1>1, <1>2 DEF ChunksOf, NoChunk

LEMMA WorkedOnStep ==
  ASSUME EndInv, Commands = {}, ~ Crashes, [Next]_vars, NEW c \in ChunkIds
  PROVE  WorkedOn(c)' /\ FailedWithItsRows(c)'
<1> USE DEF EndInv, LossInv, LeaseInv
<1>1. CASE \E o \in HygieneOutcomes : IngestFile(o)
  <2>1. chunks'[c].status \in {"NONE", "PENDING"}
    BY <1>1, FileIngested
  <2>2. chunks'[c].attempt_count = 0
    BY <1>1, CutIsFresh DEF IngestFile
  <2> QED BY <2>1, <2>2, BatchConstants DEF WorkedOn, FailedWithItsRows
<1>2. CASE ~ \E o \in HygieneOutcomes : IngestFile(o)
  <2>1. Right(c)
    BY <1>2, ChunksAreRight
  <2>2. RowsOf(c)' = RowsOf(c) /\ \A r \in Rows : Over(r) => Over(r)'
    BY <1>2, RowsKept
  <2>3. RowsOf(c) \subseteq Rows
    BY DEF RowsOf
  <2>4. WorkedOn(c)'
    BY <2>1 DEF Right, WorkedOn
  <2>5. FailedWithItsRows(c)'
    BY <2>1, <2>2, <2>3 DEF Right, FailedWithItsRows
  <2> QED BY <2>4, <2>5
<1> QED BY <1>1, <1>2

-----------------------------------------------------------------------------
(* What a batch ends as *)

\* With no chunk to work on, every row of an ingested file is over.
LEMMA NothingLeft ==
  ASSUME EndInv, HasItems, ActiveChunks = {}, NEW r \in Rows
  PROVE  Over(r)
<1> USE DEF EndInv, LossInv
<1> SUFFICES ASSUME ~ Over(r) PROVE FALSE
  OBVIOUS
<1>1. PICK c \in ChunkIds : r \in RowsOf(c) /\ chunks[c].status # "NONE"
  BY DEF FileIsCovered
<1>2. chunks[c].status \in {"PENDING", "RUNNING", "COMPLETED", "FAILED"}
  BY <1>1 DEF ExhaustedChunks
<1>3. chunks[c].status \notin {"PENDING", "RUNNING"}
  BY DEF ActiveChunks, InStatus
<1>4. chunks[c].status # "COMPLETED"
  BY <1>1 DEF IInv, CompletedChunkHasNoPendingItem, Over
<1>5. chunks[c].status # "FAILED"
  BY <1>1 DEF FailedWithItsRows
<1> QED BY <1>2, <1>3, <1>4, <1>5

\* A batch that is over keeps its status: the worker that would conclude it again
\* comes to the same conclusion.
LEMMA FinalStep ==
  ASSUME EndInv, Commands = {}, [Next]_vars, batch \in TERMINAL_BATCH_STATUSES
  PROVE  batch' = batch
<1> USE DEF EndInv, LossInv, LeaseInv
<1>1. ~ \E o \in HygieneOutcomes : IngestFile(o)
  BY DEF IngestFile
<1>2. ~ IngestUnreadable /\ batch # "QUEUED"
  BY DEF IngestUnreadable, TERMINAL_BATCH_STATUSES
<1>3. ASSUME NEW t \in Tasks, refresh_batch_progress(t), batch' = Conclusion
      PROVE  batch' = batch
  <2>1. tasks[t].phase # "free"
    BY <1>3 DEF refresh_batch_progress
  <2> QED BY <1>3, <2>1 DEF EndedRightly
<1> QED BY <1>1, <1>2, <1>3, Concluding

LEMMA EndedStep ==
  ASSUME EndInv, Commands = {}, [Next]_vars
  PROVE  EndedRightly'
<1> USE DEF EndInv, LossInv, LeaseInv, Core, TypeOK, BatchTypeOK
<1> SUFFICES ASSUME batch' \in TERMINAL_BATCH_STATUSES PROVE EndedRightly'
  BY DEF EndedRightly
<1> DEFINE Idle == /\ toPublish = {}
                   /\ \A t \in Tasks : tasks[t].phase = "free"
                   /\ \A c \in ChunkIds : chunks[c].status = "NONE"
\* Rows that are over, and the conclusion drawn from them, do not change.
<1>1. ASSUME \A r \in Rows : Over(r), batch' = Conclusion,
             ~ \E o \in HygieneOutcomes : IngestFile(o)
      PROVE  EndedRightly'
  <2>1. \A r \in Rows : items'[r] = items[r]
    BY <1>1, ItemsStep DEF Over
  <2>2. \A r \in Rows : Over(r)'
    BY <1>1, <2>1 DEF Over
  <2>3. batch # "CANCEL_REQUESTED" /\ batch' # "CANCEL_REQUESTED"
    BY DEF Uncommanded, TERMINAL_BATCH_STATUSES
  <2>4. Conclusion' = Conclusion
    <3>1. \A status : {r \in Rows : items'[r] = status} = {r \in Rows : items[r] = status}
      BY <2>1
    <3> QED BY <2>3, <3>1 DEF Conclusion
  <2> QED BY <1>1, <2>2, <2>4 DEF EndedRightly
<1>2. ASSUME Idle, batch \in TERMINAL_BATCH_STATUSES PROVE EndedRightly'
  <2>1. \A t \in Tasks : ~ WorkerStep(t) /\ ~ Raise(t) /\ ~ Crash(t)
    BY ZenonT(60), <1>2 DEF WorkerStep, RefuseClaim, claim_chunk, ReadItems, CheckBatch, StopChunk,
                ProcessItem, SaveCheckpoint, CompleteChunk, FailChunk,
                refresh_batch_progress, Raise, Crash
  <2>2. \A c \in ChunkIds :
          ~ PublishSent(c) /\ ~ PublishSkipped(c) /\ ~ PublishRefused(c) /\ ~ LosePublication(c)
    BY <1>2 DEF PublishSent, PublishSkipped, PublishRefused, LosePublication
  <2>3. \A o \in HygieneOutcomes : ~ IngestFile(o)
    BY <1>2 DEF IngestFile
  <2>4. UNCHANGED <<toPublish, tasks>>
    BY <1>2, <2>1, <2>2, <2>3
       DEF Next, IngestStep, CommandStep, pause_batch, resume_batch, ResumeWithItems,
           ResumeWithoutItems, cancel_batch, AdminSetStatus, AdminCancelBatch,
           AdminCancelReservation, Send, TimePasses, LeaseExpires, DispatchAges, HoldForBatch,
           PublishIngestion, LoseIngestion, IngestUnreadable, IngestAgain,
           recover_stalled_work, RecoverChunks, batchVars, vars, TERMINAL_BATCH_STATUSES
  <2>5. \A c \in ChunkIds : chunks'[c].status = "NONE"
    BY <1>2, <2>3, StatusStep
  <2> QED BY <1>2, <2>4, <2>5 DEF EndedRightly
<1>3. CASE batch \in TERMINAL_BATCH_STATUSES
  <2>1. batch' = batch /\ ~ \E o \in HygieneOutcomes : IngestFile(o)
    BY <1>3, FinalStep DEF IngestFile
  <2> QED BY <1>1, <1>2, <1>3, <2>1 DEF EndedRightly
<1>4. CASE batch \notin TERMINAL_BATCH_STATUSES
  <2>1. ASSUME NEW o \in HygieneOutcomes, IngestFile(o) PROVE EndedRightly'
    <3>1. Rows \ (o.invalid \cup o.duplicate) = {}
      BY <2>1 DEF IngestFile, TERMINAL_BATCH_STATUSES
    <3>2. toPublish' = {} /\ \A c \in ChunkIds : chunks'[c].status = "NONE"
      <4>1. \A c \in ChunkIds : ChunksOf({})[c].status = "NONE"
        BY NothingToCut
      <4> QED BY <2>1, <3>1, <4>1 DEF IngestFile
    <3>3. \A t \in Tasks : tasks'[t].phase = "free"
      BY <2>1, FileIngested
    <3> QED BY <3>2, <3>3 DEF EndedRightly
  <2>2. CASE IngestUnreadable
    BY <2>2 DEF IngestUnreadable, NothingBeforeIngestion, EndedRightly
  <2>3. ASSUME NEW t \in Tasks, refresh_batch_progress(t), ActiveChunks = {},
               batch' = Conclusion, ~ \E o \in HygieneOutcomes : IngestFile(o)
        PROVE  EndedRightly'
    <3>1. HasItems
      BY <2>3 DEF NothingBeforeIngestion, refresh_batch_progress
    <3> QED BY <1>1, <2>3, <3>1, NothingLeft
  <2> QED BY <1>4, <2>1, <2>2, <2>3, Concluding DEF TERMINAL_BATCH_STATUSES
<1> QED BY <1>3, <1>4

LEMMA EndInvStep ==
  ASSUME EndInv, Commands = {}, ~ SlowWorkers, ~ Crashes, [Next]_vars
  PROVE  EndInv'
BY LossInvStep, WorkedOnStep, EndedStep DEF EndInv

\* Without crashes a batch reported as concluded has processed every row of its
\* file (claim_chunk, process_chunk, refresh_batch_progress).
THEOREM NothingIsLost ==
  ASSUME Commands = {}, ~ SlowWorkers, ~ Crashes
  PROVE  Spec => []NoRowIsLost
<1>1. EndInv /\ [Next]_vars => EndInv'
  BY EndInvStep
<1>2. EndInv => NoRowIsLost
  BY DEF EndInv, LossInv, RowsAreLostOnlyByExhaustion, FailedWithItsRows, NoRowIsLost, Over
<1> QED BY <1>1, <1>2, EndInvInit, PTL DEF Spec

\* Without crashes a batch that is over keeps its status, although workers whose
\* refresh failed take its chunks up again (refresh_batch_progress).
THEOREM EndsAreFinal ==
  ASSUME Commands = {}, ~ SlowWorkers, ~ Crashes
  PROVE  Spec => TerminalBatchIsFinal
<1>1. EndInv /\ [Next]_vars => EndInv'
  BY EndInvStep
<1>2. EndInv /\ [Next]_vars => [(batch \in TERMINAL_BATCH_STATUSES) => (batch' = batch)]_vars
  BY FinalStep
<1> QED BY <1>1, <1>2, EndInvInit, PTL DEF Spec, TerminalBatchIsFinal

-----------------------------------------------------------------------------
(* Nobody dies: an open batch has somebody to bring it to its end.  The    *)
(* scanner looks for chunks only, so the batch would stay RUNNING for good *)
(* if the worker that ended the last chunk were not the one to refresh it. *)

\* What is left of such a worker is the refresh, after the except branch or not.
Concludes(t) == tasks[t].phase \in {"fail", "refresh", "retry", "report"}

Open == batch \in {"QUEUED", "RUNNING"}

OpenBatchHasWork ==
  Open => \/ \E c \in ChunkIds : /\ chunks[c].status = "PENDING"
                                 /\ chunks[c].attempt_count < MaxAttempts
          \/ \E t \in Tasks : Working(t)

SomebodyConcludes == Open /\ ActiveChunks = {} => \E t \in Tasks : Concludes(t)

\* A chunk is given up by the worker that completes it or fails it for good.
LEMMA ChunkIsEnded ==
  ASSUME EndInv, Commands = {}, ~ Crashes, [Next]_vars,
         ~ \E o \in HygieneOutcomes : IngestFile(o),
         NEW c \in ActiveChunks, c \notin ActiveChunks'
  PROVE  \E t \in Tasks : Concludes(t)'
<1> USE DEF EndInv, LossInv, LeaseInv, Core, TypeOK, BatchTypeOK
<1>1. /\ c \in ChunkIds /\ chunks[c] \in BatchChunk
      /\ chunks[c].status \in {"PENDING", "RUNNING"}
      /\ chunks'[c].status \notin {"PENDING", "RUNNING"}
  BY DEF ActiveChunks, InStatus
<1>2. chunks'[c].status # chunks[c].status
  BY <1>1
<1>3. ASSUME NEW t \in Tasks, WorkerStep(t) PROVE Concludes(t)'
  <2>1. tasks[t] \in Task
    OBVIOUS
  <2>2. CASE RefuseClaim(t)
    <3>1. \/ UNCHANGED chunks
          \/ Refusal(t) = "exhausted" /\ chunks' = Marked(chunks, {tasks[t].chunk}, "FAILED")
      <4>1. Refusal(t) \notin {"paused", "cancelled"}
        BY DEF Refusal, Uncommanded
      <4> QED BY <2>2, <4>1 DEF RefuseClaim
    <3>2. CASE /\ Refusal(t) = "exhausted"
               /\ chunks' = Marked(chunks, {tasks[t].chunk}, "FAILED")
      <4>1. chunks[tasks[t].chunk].status = "FAILED"
        BY <2>2, <3>2, ExhaustedHasFailed DEF RefuseClaim
      <4> QED BY <1>1, <1>2, <3>2, <4>1 DEF Marked
    <3> QED BY <1>2, <3>1, <3>2
  <2>3. CASE claim_chunk(t)
    BY <1>1, <2>3 DEF claim_chunk, BatchChunk
  <2>4. CASE ReadItems(t) \/ CheckBatch(t) \/ ProcessItem(t)
    BY <1>2, <2>4 DEF ReadItems, CheckBatch, ProcessItem
  <2>5. CASE SaveCheckpoint(t)
    BY <1>1, <1>2, <2>5 DEF SaveCheckpoint, BatchChunk
  <2>6. CASE CompleteChunk(t)
    BY <2>1, <2>6 DEF CompleteChunk, GoTo, Concludes, Task
  <2>7. CASE FailChunk(t)
    BY <2>1, <2>7 DEF FailChunk, GoTo, Concludes, Task
  <2>8. CASE refresh_batch_progress(t)
    BY <1>2, <2>8 DEF refresh_batch_progress
  <2>9. ~ StopChunk(t)
    BY DEF StopChunk, Uncommanded
  <2> HIDE DEF EndInv, LossInv, LeaseInv, Core, TypeOK, BatchTypeOK
  <2> QED BY <1>3, <2>2, <2>3, <2>4, <2>5, <2>6, <2>7, <2>8, <2>9 DEF WorkerStep
<1>4. ASSUME NEW d \in ChunkIds,
             Send(d) \/ PublishRefused(d) \/ LosePublication(d) \/ TimePasses(d)
      PROVE  chunks'[c].status = chunks[c].status
  BY <1>1, <1>4 DEF Send, PublishSent, PublishSkipped, PublishRefused, LosePublication,
                    TimePasses, LeaseExpires, DispatchAges, BatchChunk
<1>5. recover_stalled_work => UNCHANGED chunks[c]
  BY <1>1, NothingExpired DEF recover_stalled_work, RecoverChunks, RecoveredChunks
<1>6. CommandStep \/ HoldForBatch \/ PublishIngestion \/ LoseIngestion \/ IngestUnreadable
      \/ IngestAgain \/ UNCHANGED vars
        => UNCHANGED chunks
  BY DEF CommandStep, pause_batch, resume_batch, ResumeWithItems, ResumeWithoutItems,
         cancel_batch, AdminSetStatus, AdminCancelBatch, AdminCancelReservation, HoldForBatch,
         PublishIngestion, LoseIngestion, IngestUnreadable, IngestAgain, batchVars, vars
<1>7. \A t \in Tasks : (Raise(t) => UNCHANGED chunks) /\ ~ Crash(t)
  BY DEF Raise, Crash
<1> QED BY <1>2, <1>3, <1>4, <1>5, <1>6, <1>7 DEF Next, IngestStep

\* Who has a refresh before him keeps it until he makes it.
LEMMA ConcluderStays ==
  ASSUME Core, Commands = {}, ~ Crashes, [Next]_vars, NEW t \in Tasks, Concludes(t)
  PROVE  Concludes(t)' \/ refresh_batch_progress(t)
<1> USE DEF Core, TypeOK, BatchTypeOK
<1>1. tasks[t] \in Task
  OBVIOUS
<1>2. UNCHANGED tasks[t] => Concludes(t)'
  BY DEF Concludes
<1>3. ASSUME NEW u \in Tasks, u # t, WorkerStep(u) \/ Raise(u) PROVE UNCHANGED tasks[t]
  BY <1>3 DEF WorkerStep, RefuseClaim, claim_chunk, ReadItems, CheckBatch, StopChunk,
              ProcessItem, SaveCheckpoint, CompleteChunk, FailChunk, refresh_batch_progress,
              Raise, Done, GoTo, Leave
<1>4. WorkerStep(t) => FailChunk(t) \/ refresh_batch_progress(t)
  BY DEF Concludes, WorkerStep, RefuseClaim, claim_chunk, ReadItems, CheckBatch, StopChunk,
         ProcessItem, SaveCheckpoint, CompleteChunk
<1>5. FailChunk(t) \/ Raise(t) => Concludes(t)'
  <2>1. FailChunk(t) => Concludes(t)'
    BY <1>1 DEF FailChunk, GoTo, Concludes, Task
  <2>2. ASSUME Raise(t) PROVE Concludes(t)'
    <3>1. tasks'[t] = [tasks[t] EXCEPT !.phase = "fail", !.todo = <<>>, !.seen = "none"]
      BY <2>2 DEF Raise, Leave
    <3>2. DOMAIN tasks[t] = {"phase", "chunk", "todo", "seen"}
      BY <1>1 DEF Task
    <3> QED BY <3>1, <3>2 DEF Concludes
  <2> QED BY <2>1, <2>2
<1>6. ASSUME NEW d \in ChunkIds,
             Send(d) \/ PublishRefused(d) \/ LosePublication(d) \/ TimePasses(d)
      PROVE  UNCHANGED tasks[t]
  BY <1>6 DEF Send, PublishSent, PublishSkipped, PublishRefused, LosePublication, TimePasses,
              LeaseExpires, DispatchAges, Unused, Concludes
<1>7. CommandStep \/ HoldForBatch \/ PublishIngestion \/ LoseIngestion \/ IngestStep
      \/ recover_stalled_work \/ UNCHANGED vars
        => UNCHANGED tasks
  BY DEF CommandStep, pause_batch, resume_batch, ResumeWithItems, ResumeWithoutItems,
         cancel_batch, AdminSetStatus, AdminCancelBatch, AdminCancelReservation, HoldForBatch,
         PublishIngestion, LoseIngestion, IngestStep, IngestFile, IngestUnreadable, IngestAgain,
         recover_stalled_work, RecoverChunks, batchVars, vars
<1>8. \A u \in Tasks : ~ Crash(u)
  BY DEF Crash
<1> QED BY <1>2, <1>3, <1>4, <1>5, <1>6, <1>7, <1>8 DEF Next

\* Rows make at least one chunk.
LEMMA SomethingIsCut ==
  ASSUME NEW rows \in SUBSET Rows, rows # {}
  PROVE  1 \in ChunkIds /\ ChunksOf(rows)[1].status = "PENDING"
<1>1. Cardinality(rows) \in Nat /\ Cardinality(rows) # 0
  BY BatchConstants, FS_Subset, FS_CardinalityType, FS_EmptySet
<1>2. 1 \in ChunkIds
  <2>1. Cardinality(Rows) \in Nat /\ Cardinality(Rows) # 0 /\ ChunkSize \in Nat /\ ChunkSize # 0
    BY BatchConstants, FS_CardinalityType, FS_EmptySet
  <2>2. (Cardinality(Rows) + ChunkSize - 1) \div ChunkSize >= 1
    BY <2>1, SMTT(60)
  <2>3. (Cardinality(Rows) + ChunkSize - 1) \div ChunkSize \in Int
    BY <2>1
  <2> QED BY <2>2, <2>3 DEF ChunkIds
<1>3. ~ (1 - 1) * ChunkSize >= Cardinality(rows)
  BY <1>1, BatchConstants
<1> QED BY <1>2, <1>3 DEF ChunksOf, NoChunk

LEMMA ConcludersStep ==
  ASSUME EndInv, SomebodyConcludes, Commands = {}, ~ Crashes, [Next]_vars
  PROVE  SomebodyConcludes'
<1> USE DEF EndInv, LossInv, LeaseInv
<1> SUFFICES ASSUME Open', ActiveChunks' = {} PROVE \E t \in Tasks : Concludes(t)'
  BY DEF SomebodyConcludes
<1>1. ASSUME NEW o \in HygieneOutcomes, IngestFile(o) PROVE FALSE
  <2> DEFINE rows == Rows \ (o.invalid \cup o.duplicate)
  <2>1. rows # {} /\ chunks' = ChunksOf(rows)
    BY <1>1 DEF IngestFile, Open
  <2>2. rows \in SUBSET Rows
    OBVIOUS
  <2> HIDE DEF rows
  <2> QED BY <2>1, <2>2, SomethingIsCut DEF ActiveChunks, InStatus
<1>2. CASE ~ \E o \in HygieneOutcomes : IngestFile(o)
  <2>1. Open /\ ~ \E t \in Tasks : /\ refresh_batch_progress(t) /\ ActiveChunks = {}
    <3>1. Conclusion \notin {"QUEUED", "RUNNING"} /\ batch # "PAUSED"
      BY DEF Conclusion, Uncommanded
    <3>2. ASSUME NEW t \in Tasks, refresh_batch_progress(t), ActiveChunks = {} PROVE FALSE
      BY <3>1, <3>2 DEF refresh_batch_progress, Open
    <3> QED BY <1>2, <3>1, <3>2, Concluding DEF Open, IngestUnreadable
  <2>2. CASE ActiveChunks = {}
    BY <2>1, <2>2, ConcluderStays DEF SomebodyConcludes
  <2>3. CASE ActiveChunks # {}
    BY <1>2, <2>3, ChunkIsEnded
  <2> QED BY <2>2, <2>3
<1> QED BY <1>1, <1>2

\* Without crashes a batch that is not over has a chunk waiting for a worker, with
\* an attempt left for it, or a worker that has not returned: nobody is needed to
\* conclude it who is not there (refresh_batch_progress, recover_stalled_work).
THEOREM OpenBatchesHaveWork ==
  ASSUME Commands = {}, ~ SlowWorkers, ~ Crashes
  PROVE  Spec => []OpenBatchHasWork
<1>1. EndInv /\ SomebodyConcludes /\ [Next]_vars => (EndInv /\ SomebodyConcludes)'
  BY EndInvStep, ConcludersStep
<1>2. EndInv /\ SomebodyConcludes => OpenBatchHasWork
  <2> SUFFICES ASSUME EndInv, SomebodyConcludes, Open,
                      ~ \E c \in ChunkIds : /\ chunks[c].status = "PENDING"
                                            /\ chunks[c].attempt_count < MaxAttempts
               PROVE  \E t \in Tasks : Working(t)
    BY DEF OpenBatchHasWork
  <2>1. \A c \in ChunkIds : WorkedOn(c)
    BY DEF EndInv
  <2>2. CASE ActiveChunks = {}
    BY <2>2 DEF SomebodyConcludes, Concludes, Working
  <2>3. CASE ActiveChunks # {}
    BY <2>1, <2>3 DEF ActiveChunks, InStatus, WorkedOn, Active, Working
  <2> QED BY <2>2, <2>3
<1>3. Init => SomebodyConcludes
  BY DEF Init, SomebodyConcludes, Open
<1> QED BY <1>1, <1>2, <1>3, EndInvInit, PTL DEF Spec
=============================================================================
