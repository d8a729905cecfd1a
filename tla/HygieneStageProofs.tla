------------------------- MODULE HygieneStageProofs -------------------------
(***************************************************************************)
(* Theorems about HygieneStage, for every file, chunk size, number of      *)
(* messages and attempts.                                                  *)
(*                                                                         *)
(* A worker is not fenced: it may go on after its lease has expired and    *)
(* its successor has started.  What nevertheless keeps a chunk from being  *)
(* completed with a row left over is that every worker covers the chunk by *)
(* itself: each row is over or among those it has still to do, in          *)
(* ascending order, so that no checkpoint it saves passes a pending row.   *)
(***************************************************************************)
EXTENDS HygieneStage, TLAPS, FiniteSetTheorems, WellFoundedInduction

-----------------------------------------------------------------------------
(* Row numbers *)

UpTo(rows, n) == {q \in rows : q <= n}

Less == {ss \in Nat \X Nat : ss[1] < ss[2]}

LEMMA LeastNumber ==
  ASSUME NEW S \in SUBSET Nat, S # {}
  PROVE  \E n \in S : \A m \in S : n <= m
<1>1. IsWellFoundedOn(Less, Nat)
  BY NatLessThanWellFounded, Zenon DEF OpToRel, Less
<1>2. PICK n \in S : \A m \in S : <<m, n>> \notin Less
  BY <1>1, WFMin, Zenon
<1>3. ASSUME NEW m \in S PROVE n <= m
  <2>1. m \in Nat /\ n \in Nat
    OBVIOUS
  <2>2. ~ m < n
    BY <1>2, <2>1 DEF Less
  <2> QED BY <2>1, <2>2
<1> QED BY <1>3

LEMMA RowsAreNumbers == Rows \subseteq Nat \ {0} /\ IsFiniteSet(Rows) /\ Cardinality(Rows) \in Nat
<1>1. IsFiniteSet(Rows) /\ Rows = 1..Cardinality(Rows)
  BY BatchConstants
<1>2. Cardinality(Rows) \in Nat
  BY <1>1, FS_CardinalityType
<1> QED BY <1>1, <1>2

LEMMA UpToSize ==
  ASSUME NEW rows \in SUBSET Rows, NEW n
  PROVE  IsFiniteSet(UpTo(rows, n)) /\ Cardinality(UpTo(rows, n)) \in Nat
<1>1. IsFiniteSet(rows)
  BY RowsAreNumbers, FS_Subset
<1>2. UpTo(rows, n) \in SUBSET rows
  BY DEF UpTo
<1> QED BY <1>1, <1>2, FS_Subset, FS_CardinalityType

\* Counting up to n is counting up to n - 1, and n.
LEMMA UpToNext ==
  ASSUME NEW rows \in SUBSET Rows, NEW n \in Nat
  PROVE  Cardinality(UpTo(rows, n)) =
           Cardinality(UpTo(rows, n - 1)) + (IF n \in rows THEN 1 ELSE 0)
<1>1. \A r \in rows : r \in Nat
  BY RowsAreNumbers
<1>2. CASE n \in rows
  <2>1. /\ UpTo(rows, n) = UpTo(rows, n - 1) \cup {n}
        /\ n \notin UpTo(rows, n - 1)
    <3>1. \A r \in rows : r <= n <=> r <= n - 1 \/ r = n
      BY <1>1
    <3>2. n <= n /\ ~ n <= n - 1
      OBVIOUS
    <3>3. n \notin UpTo(rows, n - 1)
      BY <3>2 DEF UpTo
    <3>4. \A r : r \in UpTo(rows, n) <=> r \in UpTo(rows, n - 1) \cup {n}
      BY <1>2, <3>1, <3>2, Zenon DEF UpTo
    <3> QED BY <3>3, <3>4
  <2> QED BY <1>2, <2>1, UpToSize, FS_AddElement
<1>3. CASE n \notin rows
  <2>1. UpTo(rows, n) = UpTo(rows, n - 1)
    BY <1>1, <1>3 DEF UpTo
  <2> QED BY <1>3, <2>1, UpToSize
<1> QED BY <1>2, <1>3

\* A set of rows has a k-th row for every k up to its size.
LEMMA RowAtExists ==
  ASSUME NEW rows \in SUBSET Rows, NEW k \in 1..Cardinality(rows)
  PROVE  \E r \in rows : Cardinality(UpTo(rows, r)) = k
<1> DEFINE S == {n \in Nat : Cardinality(UpTo(rows, n)) >= k}
<1>1. PICK N \in Nat : \A r \in rows : r \in Nat /\ r <= N
  <2> DEFINE N == Cardinality(Rows)
  <2>1. N \in Nat /\ Rows = 1..N
    BY RowsAreNumbers, BatchConstants
  <2> HIDE DEF N
  <2>2. \A r \in Rows : r \in Nat /\ r <= N
    BY <2>1
  <2> QED BY <2>1, <2>2, Zenon
<1>2. N \in S
  <2>1. UpTo(rows, N) = rows
    BY <1>1 DEF UpTo
  <2>2. Cardinality(rows) \in Nat
    BY RowsAreNumbers, FS_Subset, FS_CardinalityType
  <2> QED BY <2>1, <2>2
<1>3. PICK n \in S : \A m \in S : n <= m
  <2>1. S \in SUBSET Nat
    OBVIOUS
  <2> HIDE DEF S
  <2> QED BY <1>2, <2>1, LeastNumber
<1>4. Cardinality(UpTo(rows, n - 1)) < k
  <2>1. CASE n = 0
    <3>1. UpTo(rows, n - 1) = {}
      BY <1>1, <2>1 DEF UpTo
    <3>2. Cardinality(UpTo(rows, n - 1)) = 0
      BY <3>1, UpToSize, FS_EmptySet
    <3> QED BY <3>2
  <2>2. CASE n # 0
    <3>1. n - 1 \in Nat /\ n - 1 \notin S
      BY <1>3, <2>2
    <3>2. ~ Cardinality(UpTo(rows, n - 1)) >= k /\ k \in Int
      BY <3>1
    <3>3. Cardinality(UpTo(rows, n - 1)) \in Nat
      BY UpToSize
    <3> QED BY <3>2, <3>3
  <2> QED BY <2>1, <2>2
<1>5. n \in Nat /\ Cardinality(UpTo(rows, n)) >= k
  OBVIOUS
<1>6. Cardinality(UpTo(rows, n)) \in Nat /\ Cardinality(UpTo(rows, n - 1)) \in Nat
  BY UpToSize
<1> HIDE DEF S
<1> QED BY <1>4, <1>5, <1>6, UpToNext

LEMMA RowAtIsRow ==
  ASSUME NEW rows \in SUBSET Rows, NEW k \in 1..Cardinality(rows)
  PROVE  RowAt(rows, k) \in rows /\ Cardinality(UpTo(rows, RowAt(rows, k))) = k
BY RowAtExists DEF RowAt, UpTo

\* A later row has more rows up to it.
LEMMA UpToGrows ==
  ASSUME NEW rows \in SUBSET Rows, NEW q \in rows, NEW r \in rows, q < r
  PROVE  Cardinality(UpTo(rows, q)) < Cardinality(UpTo(rows, r))
<1>1. q \in Nat /\ r \in Nat /\ \A s \in rows : s \in Nat
  BY RowsAreNumbers
<1>2. UpTo(rows, q) \in SUBSET UpTo(rows, r - 1)
  <2>1. \A s \in rows : s <= q => s <= r - 1
    BY <1>1
  <2> QED BY <2>1, Zenon DEF UpTo
<1>3. Cardinality(UpTo(rows, q)) <= Cardinality(UpTo(rows, r - 1))
  BY <1>2, UpToSize, FS_Subset
<1>4. Cardinality(UpTo(rows, r)) = Cardinality(UpTo(rows, r - 1)) + 1
  BY <1>1, UpToNext
<1> QED BY <1>3, <1>4, UpToSize

LEMMA RowAtAscends ==
  ASSUME NEW rows \in SUBSET Rows,
         NEW j \in 1..Cardinality(rows), NEW k \in 1..Cardinality(rows), j < k
  PROVE  RowAt(rows, j) < RowAt(rows, k)
<1>1. RowAt(rows, j) \in Nat /\ RowAt(rows, k) \in Nat
  BY RowAtIsRow, RowsAreNumbers
<1>2. Cardinality(rows) \in Nat
  BY RowsAreNumbers, FS_Subset, FS_CardinalityType
<1>3. CASE RowAt(rows, k) < RowAt(rows, j)
  BY <1>2, <1>3, RowAtIsRow, UpToGrows
<1>4. CASE RowAt(rows, k) = RowAt(rows, j)
  BY <1>2, <1>4, RowAtIsRow
<1> QED BY <1>1, <1>3, <1>4

LEMMA RowAtReaches ==
  ASSUME NEW rows \in SUBSET Rows, NEW r \in rows
  PROVE  \E k \in 1..Cardinality(rows) : RowAt(rows, k) = r
<1> DEFINE k == Cardinality(UpTo(rows, r))
<1>1. IsFiniteSet(rows) /\ Cardinality(rows) \in Nat
  BY RowsAreNumbers, FS_Subset, FS_CardinalityType
<1>2. k \in Nat /\ k <= Cardinality(rows)
  <2>1. UpTo(rows, r) \in SUBSET rows
    BY DEF UpTo
  <2> QED BY <1>1, <2>1, UpToSize, FS_Subset
<1>3. k # 0
  <2>1. r \in UpTo(rows, r)
    BY RowsAreNumbers DEF UpTo
  <2> QED BY <2>1, UpToSize, FS_EmptySet
<1>4. k \in 1..Cardinality(rows)
  BY <1>1, <1>2, <1>3
<1> HIDE DEF k
<1>5. RowAt(rows, k) \in rows /\ Cardinality(UpTo(rows, RowAt(rows, k))) = k
  BY <1>4, RowAtIsRow
<1>6. RowAt(rows, k) \in Nat /\ r \in Nat
  BY <1>5, RowsAreNumbers
<1>7. CASE RowAt(rows, k) < r
  BY <1>2, <1>5, <1>7, UpToGrows DEF k
<1>8. CASE r < RowAt(rows, k)
  BY <1>2, <1>5, <1>8, UpToGrows DEF k
<1> QED BY <1>4, <1>6, <1>7, <1>8

-----------------------------------------------------------------------------
(* Types *)

LEMMA NoChunkType == NoChunk \in BatchChunk
BY BatchConstants DEF NoChunk, BatchChunk, ChunkStatuses

LEMMA FreeTaskType ==
  /\ FreeTask \in Task
  /\ \A c \in ChunkIds : [FreeTask EXCEPT !.phase = "queued", !.chunk = c] \in Task
<1>1. <<>> \in Seq(Rows)
  OBVIOUS
<1> QED BY <1>1 DEF FreeTask, Task, Phases

LEMMA ReleasedType ==
  ASSUME NEW chunk \in BatchChunk, NEW status \in ChunkStatuses
  PROVE  /\ Released(chunk, status) \in BatchChunk
         /\ Released(chunk, status).start_row = chunk.start_row
         /\ Released(chunk, status).end_row = chunk.end_row
         /\ Released(chunk, status).checkpoint_row = chunk.checkpoint_row
         /\ Released(chunk, status).status = status
BY DEF Released, BatchChunk

LEMMA MarkedType ==
  ASSUME chunks \in [ChunkIds -> BatchChunk], NEW set, NEW status \in ChunkStatuses
  PROVE  Marked(chunks, set, status) \in [ChunkIds -> BatchChunk]
<1>1. \A c \in ChunkIds : [chunks[c] EXCEPT !.status = status] \in BatchChunk
  BY DEF BatchChunk
<1> QED BY <1>1 DEF Marked

\* The chunks ingestion cuts cover, each, a span of row numbers; none of their
\* rows lies behind their checkpoint.
LEMMA ChunksOfType ==
  ASSUME NEW rows \in SUBSET Rows
  PROVE  /\ ChunksOf(rows) \in [ChunkIds -> BatchChunk]
         /\ \A c \in ChunkIds :
              /\ ChunksOf(rows)[c].status \in {"NONE", "PENDING"}
              /\ \A r \in Rows : ChunksOf(rows)[c].start_row <= r
                                   => ~ r <= ChunksOf(rows)[c].checkpoint_row
<1> DEFINE n == Cardinality(rows)
           last(c) == IF c * ChunkSize < n THEN c * ChunkSize ELSE n
           first(c) == (c - 1) * ChunkSize + 1
           cut(c) == [NoChunk EXCEPT !.status = "PENDING",
                                     !.start_row = RowAt(rows, first(c)),
                                     !.end_row = RowAt(rows, last(c)),
                                     !.checkpoint_row = RowAt(rows, first(c)) - 1]
<1>1. n \in Nat
  BY RowsAreNumbers, FS_Subset, FS_CardinalityType
<1>2. ASSUME NEW c \in ChunkIds, ~ (c - 1) * ChunkSize >= n
      PROVE  /\ cut(c) \in BatchChunk
             /\ cut(c).status = "PENDING"
             /\ cut(c).start_row \in Nat
             /\ cut(c).checkpoint_row = cut(c).start_row - 1
  <2>1. c \in Nat /\ c >= 1 /\ ChunkSize \in Nat /\ ChunkSize >= 1
    BY BatchConstants DEF ChunkIds
  <2>2. (c - 1) * ChunkSize \in Nat /\ c * ChunkSize \in Nat \ {0}
    BY <2>1
  <2>3. first(c) \in 1..n /\ last(c) \in 1..n
    BY <1>1, <1>2, <2>2
  <2>4. /\ RowAt(rows, first(c)) \in Nat \ {0}
        /\ RowAt(rows, last(c)) \in Nat
    <3> HIDE DEF first, last
    <3> QED BY <2>3, RowAtIsRow, RowsAreNumbers
  <2>5. RowAt(rows, first(c)) - 1 \in Nat
    BY <2>4
  <2> HIDE DEF first, last
  <2> QED BY <2>4, <2>5, NoChunkType DEF NoChunk, BatchChunk, ChunkStatuses
<1>3. ChunksOf(rows) = [c \in ChunkIds |-> IF (c - 1) * ChunkSize >= n THEN NoChunk
                                           ELSE cut(c)]
  BY DEF ChunksOf
<1> HIDE DEF cut, n
<1>4. ASSUME NEW c \in ChunkIds
      PROVE  /\ ChunksOf(rows)[c] \in BatchChunk
             /\ ChunksOf(rows)[c].status \in {"NONE", "PENDING"}
             /\ \A r \in Rows : ChunksOf(rows)[c].start_row <= r
                                   => ~ r <= ChunksOf(rows)[c].checkpoint_row
  <2>1. CASE (c - 1) * ChunkSize >= n
    <3>1. ChunksOf(rows)[c] = NoChunk
      BY <1>3, <2>1
    <3> QED BY <3>1, NoChunkType, RowsAreNumbers DEF NoChunk
  <2>2. CASE ~ (c - 1) * ChunkSize >= n
    <3>1. ChunksOf(rows)[c] = cut(c)
      BY <1>3, <2>2
    <3> QED BY <1>2, <2>2, <3>1, RowsAreNumbers
  <2> QED BY <2>1, <2>2
<1> QED BY <1>3, <1>4

LEMMA PendingRowsType ==
  ASSUME NEW c \in ChunkIds
  PROVE  /\ PendingRows(c) \in Seq(Rows)
         /\ \A j, k \in 1..Len(PendingRows(c)) :
              j < k => PendingRows(c)[j] < PendingRows(c)[k]
         /\ \A k \in 1..Len(PendingRows(c)) : PendingRows(c)[k] \in RowsOf(c)
         /\ \A r \in RowsOf(c) :
              items[r] = "PENDING" /\ r > chunks[c].checkpoint_row =>
                \E k \in 1..Len(PendingRows(c)) : PendingRows(c)[k] = r
<1> DEFINE rows == {r \in RowsOf(c) : /\ items[r] = "PENDING"
                                      /\ r > chunks[c].checkpoint_row}
           N == Cardinality(rows)
<1>1. rows \in SUBSET Rows /\ rows \subseteq RowsOf(c)
  BY DEF RowsOf
<1>2. \A r \in RowsOf(c) :
        items[r] = "PENDING" /\ r > chunks[c].checkpoint_row => r \in rows
  OBVIOUS
<1>3. PendingRows(c) = [k \in 1..N |-> RowAt(rows, k)]
  BY DEF PendingRows
<1> HIDE DEF rows
<1>4. N \in Nat
  BY <1>1, RowsAreNumbers, FS_Subset, FS_CardinalityType
<1>5. \A k \in 1..N : RowAt(rows, k) \in rows
  BY <1>1, RowAtIsRow
<1>6. \A j, k \in 1..N : j < k => RowAt(rows, j) < RowAt(rows, k)
  BY <1>1, RowAtAscends
<1>7. \A r \in rows : \E k \in 1..N : RowAt(rows, k) = r
  BY <1>1, RowAtReaches
<1> HIDE DEF N
<1>8. PendingRows(c) \in Seq(Rows) /\ Len(PendingRows(c)) = N
  BY <1>1, <1>3, <1>4, <1>5
<1>9. \A k \in 1..N : PendingRows(c)[k] = RowAt(rows, k)
  BY <1>3
<1>10. \A j, k \in 1..N : j < k => PendingRows(c)[j] < PendingRows(c)[k]
  BY <1>6, <1>9, Zenon
<1>11. \A k \in 1..N : PendingRows(c)[k] \in RowsOf(c)
  BY <1>1, <1>5, <1>9, Zenon
<1>12. \A r \in rows : \E k \in 1..N : PendingRows(c)[k] = r
  BY <1>7, <1>9, Zenon
<1> QED BY <1>2, <1>8, <1>10, <1>11, <1>12, Zenon

LEMMA TasksType ==
  ASSUME tasks \in [Tasks -> Task], NEW t \in Tasks
  PROVE  /\ \A phase \in Phases : GoTo(t, phase) => tasks' \in [Tasks -> Task]
         /\ \A phase \in Phases : Leave(t, phase) => tasks' \in [Tasks -> Task]
         /\ Done(t) => tasks' \in [Tasks -> Task]
         /\ \A c \in ChunkIds :
              tasks' = [tasks EXCEPT ![t] = [FreeTask EXCEPT !.phase = "queued",
                                                             !.chunk = c]]
                => tasks' \in [Tasks -> Task]
<1>1. ASSUME NEW phase \in Phases, GoTo(t, phase) PROVE tasks' \in [Tasks -> Task]
  BY <1>1 DEF GoTo, Task
<1>2. ASSUME NEW phase \in Phases, Leave(t, phase) PROVE tasks' \in [Tasks -> Task]
  <2>1. <<>> \in Seq(Rows)
    OBVIOUS
  <2> QED BY <1>2, <2>1 DEF Leave, Task
<1>3. Done(t) => tasks' \in [Tasks -> Task]
  BY FreeTaskType DEF Done
<1>4. ASSUME NEW c \in ChunkIds,
             tasks' = [tasks EXCEPT ![t] = [FreeTask EXCEPT !.phase = "queued",
                                                            !.chunk = c]]
      PROVE  tasks' \in [Tasks -> Task]
  <2> DEFINE new == [FreeTask EXCEPT !.phase = "queued", !.chunk = c]
  <2>1. new \in Task
    BY FreeTaskType
  <2>2. tasks' = [tasks EXCEPT ![t] = new]
    BY <1>4
  <2> HIDE DEF new
  <2> QED BY <2>1, <2>2
<1> QED BY <1>1, <1>2, <1>3, <1>4

\* A message or a worker always is about a chunk, and one at work on a row has
\* a row to do.
TasksHaveWork ==
  \A t \in Tasks :
    /\ tasks[t].phase # "free" => tasks[t].chunk \in ChunkIds
    /\ tasks[t].phase \in {"item", "checkpoint"} => tasks[t].todo # <<>>

\* Before the file is ingested there is nothing to publish or to work on.
NothingBeforeIngestion ==
  /\ (\A r \in Rows : items[r] = "NONE") \/ (\A r \in Rows : items[r] # "NONE")
  /\ ~HasItems => /\ toPublish = {}
                  /\ \A t \in Tasks : tasks[t].phase = "free"
                  /\ \A c \in ChunkIds : chunks[c].status = "NONE"

Core == TypeOK /\ TasksHaveWork /\ NothingBeforeIngestion

\* Every transaction on a chunk row leaves it well typed.
LEMMA ChunkUpdates ==
  ASSUME chunks \in [ChunkIds -> BatchChunk], NEW c \in ChunkIds
  PROVE  /\ \A d \in {"none", "recent", "old"} :
              [chunks EXCEPT ![c].dispatched = d] \in [ChunkIds -> BatchChunk]
         /\ [chunks EXCEPT ![c].lease = "expired"] \in [ChunkIds -> BatchChunk]
         /\ \A status \in ChunkStatuses :
              [chunks EXCEPT ![c] = Released(@, status)] \in [ChunkIds -> BatchChunk]
         /\ \A r \in Rows : [chunks EXCEPT ![c].checkpoint_row = r, ![c].lease = "live"]
                              \in [ChunkIds -> BatchChunk]
         /\ [chunks EXCEPT ![c] = [Released(@, "COMPLETED") EXCEPT !.dispatched = "none"]]
              \in [ChunkIds -> BatchChunk]
<1>1. \A d \in {"none", "recent", "old"} :
        [chunks EXCEPT ![c].dispatched = d] \in [ChunkIds -> BatchChunk]
  BY DEF BatchChunk
<1>2. [chunks EXCEPT ![c].lease = "expired"] \in [ChunkIds -> BatchChunk]
  BY DEF BatchChunk
<1>3. \A status \in ChunkStatuses :
        [chunks EXCEPT ![c] = Released(@, status)] \in [ChunkIds -> BatchChunk]
  BY ReleasedType
<1>4. \A r \in Rows : [chunks EXCEPT ![c].checkpoint_row = r, ![c].lease = "live"]
                         \in [ChunkIds -> BatchChunk]
  BY ZenonT(60), RowsAreNumbers DEF BatchChunk
<1>5. [chunks EXCEPT ![c] = [Released(@, "COMPLETED") EXCEPT !.dispatched = "none"]]
         \in [ChunkIds -> BatchChunk]
  BY ZenonT(60) DEF BatchChunk, Released, ChunkStatuses
<1> QED BY <1>1, <1>2, <1>3, <1>4, <1>5

LEMMA WorkerTypes ==
  ASSUME TypeOK, TasksHaveWork, NEW t \in Tasks, WorkerStep(t)
  PROVE  BatchTypeOK'
<1> DEFINE c == tasks[t].chunk
<1> USE DEF TypeOK, BatchTypeOK
<1>0. tasks[t] \in Task /\ tasks[t].todo \in Seq(Rows)
  BY DEF Task
<1>c. tasks[t].phase # "free" => c \in ChunkIds
  BY DEF TasksHaveWork
<1> HIDE DEF c
<1>1. CASE RefuseClaim(t)
  <2>1. chunks' \in [ChunkIds -> BatchChunk]
    BY <1>1, MarkedType DEF RefuseClaim, ChunkStatuses
  <2> QED BY <1>1, <2>1, TasksType DEF RefuseClaim
<1>2. CASE claim_chunk(t)
  <2>1. chunks[c] \in BatchChunk /\ c \in ChunkIds
    BY <1>2, <1>c DEF claim_chunk, c
  <2>2. chunks[c].attempt_count < MaxAttempts /\ MaxAttempts \in Nat
    BY <1>2, <2>1, BatchConstants DEF claim_chunk, Refusal, c, BatchChunk
  <2>3. chunks[c].attempt_count + 1 \in 0..MaxAttempts
    BY <2>1, <2>2 DEF BatchChunk
  <2>4. chunks' \in [ChunkIds -> BatchChunk]
    BY <1>2, <2>1, <2>3 DEF claim_chunk, c, BatchChunk, ChunkStatuses
  <2> QED BY <1>2, <2>4, TasksType DEF claim_chunk, BatchStatuses, Phases
<1>3. CASE ReadItems(t)
  <2>1. PendingRows(c) \in Seq(Rows)
    BY <1>3, <1>c, PendingRowsType DEF ReadItems
  <2>2. tasks' \in [Tasks -> Task]
    BY ZenonT(60), <1>3, <2>1 DEF ReadItems, Task, Phases, c
  <2> QED BY <1>3, <2>2 DEF ReadItems
<1>4. CASE CheckBatch(t)
  <2>1. tasks' \in [Tasks -> Task]
    <3>1. CASE batch \in {"PAUSED", "CANCEL_REQUESTED"}
      <4> DEFINE new == [tasks[t] EXCEPT !.phase = "stop", !.seen = batch]
      <4>1. new \in Task
        BY <1>0, <3>1 DEF Task, Phases
      <4>2. tasks' = [tasks EXCEPT ![t] = new]
        BY <1>4, <3>1 DEF CheckBatch
      <4> HIDE DEF new
      <4> QED BY <4>1, <4>2
    <3>2. CASE batch \notin {"PAUSED", "CANCEL_REQUESTED"}
      BY <1>4, <3>2, TasksType DEF CheckBatch, Phases
    <3> QED BY <3>1, <3>2
  <2> QED BY <1>4, <2>1 DEF CheckBatch
<1>5. CASE StopChunk(t)
  <2>1. chunks' \in [ChunkIds -> BatchChunk]
    BY <1>5, <1>c, ChunkUpdates DEF StopChunk, ChunkStatuses, c
  <2> QED BY <1>5, <2>1, TasksType DEF StopChunk, Phases
<1>6. CASE ProcessItem(t)
  <2>1. items' \in [Rows -> ItemStatuses]
    BY <1>6, HygieneConstants
       DEF ProcessItem, ItemStatuses, TERMINAL_ITEM_STATUSES
  <2> QED BY <1>6, <2>1, TasksType DEF ProcessItem, Phases
<1>7. CASE SaveCheckpoint(t)
  <2>1. Head(tasks[t].todo) \in Rows /\ Tail(tasks[t].todo) \in Seq(Rows)
    BY <1>0, <1>7 DEF SaveCheckpoint, TasksHaveWork
  <2>2. chunks' \in [ChunkIds -> BatchChunk]
    BY <1>7, <1>c, <2>1, ChunkUpdates DEF SaveCheckpoint, c
  <2>3. tasks' \in [Tasks -> Task]
    BY ZenonT(60), <1>7, <2>1 DEF SaveCheckpoint, Task, Phases
  <2> QED BY <1>7, <2>2, <2>3 DEF SaveCheckpoint
<1>8. CASE CompleteChunk(t)
  <2>1. chunks' \in [ChunkIds -> BatchChunk]
    BY <1>8, <1>c, ChunkUpdates DEF CompleteChunk, c
  <2> QED BY <1>8, <2>1, TasksType DEF CompleteChunk, Phases
<1>9. CASE FailChunk(t)
  <2>1. chunks' \in [ChunkIds -> BatchChunk]
    BY <1>9, <1>c, ChunkUpdates DEF FailChunk, ChunkStatuses, c
  <2>2. items' \in [Rows -> ItemStatuses]
    BY <1>9 DEF FailChunk, ItemStatuses
  <2> QED BY <1>9, <2>1, <2>2, TasksType DEF FailChunk, Phases
<1>10. CASE refresh_batch_progress(t)
  <2>1. batch' \in BatchStatuses
    BY <1>10 DEF refresh_batch_progress, Conclusion, BatchStatuses
  <2>2. tasks' \in [Tasks -> Task]
    BY <1>10, <1>c, TasksType DEF refresh_batch_progress, c
  <2> QED BY <1>10, <2>1, <2>2 DEF refresh_batch_progress
<1> QED BY <1>1, <1>2, <1>3, <1>4, <1>5, <1>6, <1>7, <1>8, <1>9, <1>10 DEF WorkerStep

LEMMA TypeStep == ASSUME TypeOK, TasksHaveWork, [Next]_vars PROVE TypeOK'
<1> USE DEF TypeOK, BatchTypeOK
<1>i. /\ IngestionTaken => ingestion' \in {"queued", "none"}
      /\ IngestionAgain \subseteq {"none", "publishing", "queued", "twice"}
  BY DEF IngestionTaken, IngestionAgain
<1>1. CASE UNCHANGED vars
  BY <1>1 DEF vars
<1>2. CASE HoldForBatch
  BY <1>2 DEF HoldForBatch, batchVars, ReservationStatuses
<1>3. CASE PublishIngestion \/ LoseIngestion
  BY <1>3 DEF PublishIngestion, LoseIngestion, batchVars
<1>4. ASSUME NEW o \in HygieneOutcomes, IngestFile(o) PROVE TypeOK'
  <2>1. chunks' \in [ChunkIds -> BatchChunk]
    BY <1>4, ChunksOfType DEF IngestFile
  <2>2. items' \in [Rows -> ItemStatuses]
    BY <1>4 DEF IngestFile, ItemStatuses
  <2>3. batch' \in BatchStatuses
    BY <1>4 DEF IngestFile, BatchStatuses
  <2>4. toPublish' \subseteq ChunkIds
    BY <1>4 DEF IngestFile
  <2> QED BY <1>i, <1>4, <2>1, <2>2, <2>3, <2>4 DEF IngestFile
<1>5. CASE IngestUnreadable \/ IngestAgain
  BY <1>i, <1>5 DEF IngestUnreadable, IngestAgain, BatchStatuses, InStatus
<1>6. CASE CommandStep
  <2>1. CASE pause_batch /\ UNCHANGED restVars
    BY <2>1, MarkedType DEF pause_batch, restVars, BatchStatuses, ChunkStatuses
  <2>2. CASE resume_batch
    <3>1. ASSUME ResumeWithItems, UNCHANGED restVars PROVE TypeOK'
      <4>1. \A c \in ChunkIds :
              [chunks[c] EXCEPT !.status = "PENDING", !.dispatched = "none"] \in BatchChunk
        BY ZenonT(60) DEF BatchChunk, ChunkStatuses
      <4>2. chunks' \in [ChunkIds -> BatchChunk]
        BY <3>1, <4>1 DEF ResumeWithItems
      <4> QED BY <3>1, <4>2 DEF ResumeWithItems, restVars, BatchStatuses, InStatus
    <3>2. CASE ResumeWithoutItems
      BY <1>i, <3>2 DEF ResumeWithoutItems, BatchStatuses
    <3> QED BY <2>2, <3>1, <3>2 DEF resume_batch
  <2>3. CASE cancel_batch /\ UNCHANGED restVars
    BY <2>3, MarkedType DEF cancel_batch, restVars, BatchStatuses, ChunkStatuses
  <2>4. ASSUME NEW command, NEW status \in {"PAUSED", "RUNNING"},
               AdminSetStatus(command, status), UNCHANGED restVars
        PROVE  TypeOK'
    BY <2>4 DEF AdminSetStatus, restVars, BatchStatuses
  <2>5. CASE AdminCancelBatch
    BY <2>5 DEF AdminCancelBatch, BatchStatuses
  <2>6. CASE AdminCancelReservation
    BY <2>6 DEF AdminCancelReservation, batchVars, ReservationStatuses
  <2> QED BY <1>6, <2>1, <2>2, <2>3, <2>4, <2>5, <2>6 DEF CommandStep
<1>7. CASE recover_stalled_work
  <2>1. \A c \in ChunkIds : [Released(chunks[c], "PENDING") EXCEPT !.dispatched = "none"]
                              \in BatchChunk
    BY ReleasedType DEF BatchChunk, ChunkStatuses
  <2>2. chunks' \in [ChunkIds -> BatchChunk]
    BY <1>7, <2>1 DEF recover_stalled_work, RecoverChunks, RecoveredChunks
  <2>3. ingestion' \in {"none", "publishing", "queued", "twice"}
    BY <1>i, <1>7 DEF recover_stalled_work
  <2> QED BY <1>7, <2>2, <2>3 DEF recover_stalled_work, RecoverChunks, Stalled
<1>8. ASSUME NEW t \in Tasks, WorkerStep(t) PROVE TypeOK'
  <2>1. reservation' \in ReservationStatuses
    BY <1>8 DEF WorkerStep, restVars, refresh_batch_progress, ReservationStatuses
  <2>2. UNCHANGED <<ingestion, adminCancel>>
    BY <1>8 DEF WorkerStep, restVars, refresh_batch_progress
  <2> QED BY <1>8, <2>1, <2>2, WorkerTypes
<1>9. ASSUME NEW t \in Tasks, Raise(t) \/ Crash(t), UNCHANGED restVars PROVE TypeOK'
  <2>1. tasks' \in [Tasks -> Task]
    BY <1>9, TasksType DEF Raise, Crash, Phases, TasksHaveWork
  <2> QED BY <1>9, <2>1 DEF Raise, Crash, restVars
<1>10. ASSUME NEW c \in ChunkIds,
              PublishSent(c) \/ PublishSkipped(c) \/ PublishRefused(c) \/ LosePublication(c),
              UNCHANGED restVars
       PROVE  TypeOK'
  <2>1. chunks' \in [ChunkIds -> BatchChunk]
    BY <1>10
       DEF PublishSent, PublishSkipped, PublishRefused, LosePublication, BatchChunk
  <2>2. tasks' \in [Tasks -> Task]
    BY <1>10, TasksType
       DEF PublishSent, PublishSkipped, PublishRefused, LosePublication
  <2> QED BY <1>10, <2>1, <2>2
          DEF PublishSent, PublishSkipped, PublishRefused, LosePublication, restVars
<1>11. ASSUME NEW c \in ChunkIds, TimePasses(c) PROVE TypeOK'
  <2>1. chunks' \in [ChunkIds -> BatchChunk]
    BY <1>11 DEF TimePasses, LeaseExpires, DispatchAges, BatchChunk
  <2> QED BY <1>11, <2>1 DEF TimePasses, LeaseExpires, DispatchAges, restVars
<1> QED
  BY <1>1, <1>2, <1>3, <1>4, <1>5, <1>6, <1>7, <1>8, <1>9, <1>10, <1>11
     DEF Next, IngestStep, Send

\* Steps other than those of the worker itself leave a task as it is, free it or
\* put its message in the queue.
TaskUntouched(t) ==
  \/ tasks'[t] = tasks[t]
  \/ tasks'[t] = FreeTask
  \/ \E c \in ChunkIds : tasks'[t] = [FreeTask EXCEPT !.phase = "queued", !.chunk = c]

LEMMA OtherTasks ==
  ASSUME TypeOK, TasksHaveWork, [Next]_vars, NEW u \in Tasks,
         ~ WorkerStep(u), ~ Raise(u)
  PROVE  TaskUntouched(u)
<1> USE DEF TypeOK, BatchTypeOK, TaskUntouched
<1>1. CASE UNCHANGED tasks
  BY <1>1
<1>2. ASSUME NEW t \in Tasks, WorkerStep(t) PROVE TaskUntouched(u)
  <2>1. \A v \in Tasks : v # t => tasks'[v] = tasks[v]
    BY <1>2 DEF WorkerStep, RefuseClaim, claim_chunk, ReadItems, CheckBatch, StopChunk,
                ProcessItem, SaveCheckpoint, CompleteChunk, FailChunk,
                refresh_batch_progress, GoTo, Leave, Done
  <2> QED BY <1>2, <2>1
<1>3. ASSUME NEW t \in Tasks, Raise(t) PROVE TaskUntouched(u)
  BY <1>3 DEF Raise, Leave
<1>4. ASSUME NEW t \in Tasks, Crash(t) PROVE TaskUntouched(u)
  BY <1>4 DEF Crash, Done, TasksHaveWork
<1>5. ASSUME NEW c \in ChunkIds, PublishSent(c) PROVE TaskUntouched(u)
  BY <1>5 DEF PublishSent
<1>6. ASSUME NEW o \in HygieneOutcomes, IngestFile(o) PROVE UNCHANGED tasks
  BY <1>6 DEF IngestFile
<1>7. CommandStep \/ recover_stalled_work => UNCHANGED tasks
  BY DEF CommandStep, pause_batch, resume_batch, ResumeWithItems, ResumeWithoutItems,
         cancel_batch, AdminSetStatus, AdminCancelBatch, AdminCancelReservation,
         batchVars, recover_stalled_work, RecoverChunks
<1>8. \A c \in ChunkIds :
        PublishSkipped(c) \/ PublishRefused(c) \/ LosePublication(c) \/ TimePasses(c)
          => UNCHANGED tasks
  BY DEF PublishSkipped, PublishRefused, LosePublication, TimePasses, LeaseExpires,
         DispatchAges
<1> QED
  BY <1>1, <1>2, <1>3, <1>4, <1>5, <1>6, <1>7, <1>8
     DEF Next, IngestStep, Send, HoldForBatch, PublishIngestion, LoseIngestion,
         IngestUnreadable, IngestAgain, batchVars, vars

LEMMA TasksStep == ASSUME TypeOK, TasksHaveWork, [Next]_vars PROVE TasksHaveWork'
<1> USE DEF TypeOK, BatchTypeOK
<1> SUFFICES ASSUME NEW u \in Tasks
             PROVE  /\ tasks'[u].phase # "free" => tasks'[u].chunk \in ChunkIds
                    /\ tasks'[u].phase \in {"item", "checkpoint"} => tasks'[u].todo # <<>>
  BY DEF TasksHaveWork
<1>0. tasks[u] \in Task
  OBVIOUS
<1>1. CASE TaskUntouched(u)
  <2>1. CASE tasks'[u] = tasks[u]
    BY <2>1 DEF TasksHaveWork
  <2>2. CASE tasks'[u] = FreeTask
    BY <2>2 DEF FreeTask
  <2>3. ASSUME NEW c \in ChunkIds,
               tasks'[u] = [FreeTask EXCEPT !.phase = "queued", !.chunk = c]
        PROVE  tasks'[u].phase = "queued" /\ tasks'[u].chunk = c
    BY <2>3 DEF FreeTask
  <2> QED BY <1>1, <2>1, <2>2, <2>3 DEF TaskUntouched
<1>2. CASE Raise(u)
  BY <1>0, <1>2 DEF Raise, Leave, TasksHaveWork, Task
<1>3. CASE WorkerStep(u)
  <2>1. CASE RefuseClaim(u)
    BY <2>1 DEF RefuseClaim, Done, FreeTask
  <2>2. ASSUME NEW phase \in {"read", "refresh", "retry", "report"}, GoTo(u, phase),
               tasks[u].phase # "free"
        PROVE  tasks'[u].chunk \in ChunkIds /\ tasks'[u].phase = phase
    BY <1>0, <2>2 DEF GoTo, TasksHaveWork, Task
  <2>c. claim_chunk(u) \/ CompleteChunk(u) \/ FailChunk(u) =>
          /\ tasks[u].phase # "free"
          /\ \E phase \in {"read", "refresh", "retry", "report"} : GoTo(u, phase)
    BY DEF claim_chunk, CompleteChunk, FailChunk
  <2>3. CASE ReadItems(u)
    BY <1>0, <2>3 DEF ReadItems, TasksHaveWork, Task
  <2>4. CASE CheckBatch(u)
    <3>1. tasks'[u].chunk = tasks[u].chunk /\ tasks'[u].todo = tasks[u].todo
      BY <1>0, <2>4 DEF CheckBatch, GoTo, Task
    <3> QED BY <2>4, <3>1 DEF CheckBatch, TasksHaveWork
  <2>5. CASE StopChunk(u)
    BY <1>0, <2>5 DEF StopChunk, Leave, TasksHaveWork, Task
  <2>6. CASE ProcessItem(u)
    BY <1>0, <2>6 DEF ProcessItem, GoTo, TasksHaveWork, Task
  <2>7. CASE SaveCheckpoint(u)
    BY <1>0, <2>7 DEF SaveCheckpoint, TasksHaveWork, Task
  <2>8. CASE refresh_batch_progress(u)
    <3>1. tasks[u].chunk \in ChunkIds
      BY <2>8 DEF refresh_batch_progress, TasksHaveWork
    <3>2. \/ tasks'[u] = FreeTask
          \/ tasks'[u] = [FreeTask EXCEPT !.phase = "queued", !.chunk = tasks[u].chunk]
      BY <2>8 DEF refresh_batch_progress, Done
    <3>3. /\ FreeTask.phase = "free"
          /\ [FreeTask EXCEPT !.phase = "queued", !.chunk = tasks[u].chunk].phase = "queued"
          /\ [FreeTask EXCEPT !.phase = "queued", !.chunk = tasks[u].chunk].chunk
               = tasks[u].chunk
      BY DEF FreeTask
    <3> QED BY <3>1, <3>2, <3>3
  <2> QED BY <1>3, <2>1, <2>2, <2>c, <2>3, <2>4, <2>5, <2>6, <2>7, <2>8 DEF WorkerStep
<1> QED BY <1>1, <1>2, <1>3, OtherTasks

\* Items change when the file is ingested, when a worker processes a row that
\* is not over, and when it fails the pending rows of an exhausted chunk.
LEMMA ItemsStep ==
  ASSUME TypeOK, TasksHaveWork, [Next]_vars
  PROVE  \/ \E o \in HygieneOutcomes : IngestFile(o)
         \/ \A r \in Rows : \/ items'[r] = items[r]
                            \/ /\ items[r] \notin TERMINAL_ITEM_STATUSES
                               /\ items'[r] \in TERMINAL_ITEM_STATUSES
                               /\ \E t \in Tasks : tasks[t].phase # "free"
<1> USE DEF TypeOK, BatchTypeOK
<1>1. ASSUME NEW t \in Tasks, ProcessItem(t), NEW r \in Rows
      PROVE  \/ items'[r] = items[r]
             \/ /\ items[r] \notin TERMINAL_ITEM_STATUSES
                /\ items'[r] \in TERMINAL_ITEM_STATUSES
                /\ tasks[t].phase # "free"
  <2>1. tasks[t].phase = "item"
    BY <1>1 DEF ProcessItem
  <2>2. CASE items[Head(tasks[t].todo)] \in TERMINAL_ITEM_STATUSES
    BY <1>1, <2>2 DEF ProcessItem
  <2>3. CASE items[Head(tasks[t].todo)] \notin TERMINAL_ITEM_STATUSES
    BY <1>1, <2>1, <2>3, HygieneConstants DEF ProcessItem
  <2> QED BY <2>2, <2>3
<1>2. ASSUME NEW t \in Tasks, FailChunk(t), NEW r \in Rows
      PROVE  \/ items'[r] = items[r]
             \/ /\ items[r] \notin TERMINAL_ITEM_STATUSES
                /\ items'[r] \in TERMINAL_ITEM_STATUSES
                /\ tasks[t].phase # "free"
  BY <1>2 DEF FailChunk, AbandonedRows, TERMINAL_ITEM_STATUSES
<1>3. CASE UNCHANGED items
  BY <1>3
<1>4. ASSUME NEW t \in Tasks, WorkerStep(t), ~ ProcessItem(t), ~ FailChunk(t)
      PROVE  UNCHANGED items
  BY <1>4 DEF WorkerStep, RefuseClaim, claim_chunk, ReadItems, CheckBatch, StopChunk,
              SaveCheckpoint, CompleteChunk, refresh_batch_progress
<1>5. CommandStep \/ recover_stalled_work => UNCHANGED items
  BY DEF CommandStep, pause_batch, resume_batch, ResumeWithItems, ResumeWithoutItems,
         cancel_batch, AdminSetStatus, AdminCancelBatch, AdminCancelReservation,
         batchVars, recover_stalled_work, RecoverChunks
<1>6. \A c \in ChunkIds :
        PublishSent(c) \/ PublishSkipped(c) \/ PublishRefused(c) \/ LosePublication(c)
          \/ TimePasses(c)
          => UNCHANGED items
  BY DEF PublishSent, PublishSkipped, PublishRefused, LosePublication, TimePasses,
         LeaseExpires, DispatchAges
<1>7. \A t \in Tasks : Raise(t) \/ Crash(t) => UNCHANGED items
  BY DEF Raise, Crash
<1> QED
  BY <1>1, <1>2, <1>3, <1>4, <1>5, <1>6, <1>7
     DEF Next, IngestStep, Send, HoldForBatch, PublishIngestion, LoseIngestion,
         IngestUnreadable, IngestAgain, batchVars, vars

LEMMA IngestionStep == ASSUME Core, [Next]_vars PROVE NothingBeforeIngestion'
<1> USE DEF Core, TypeOK, BatchTypeOK
<1>1. ASSUME NEW o \in HygieneOutcomes, IngestFile(o) PROVE NothingBeforeIngestion'
  <2>1. \A r \in Rows : items'[r] # "NONE"
    BY <1>1 DEF IngestFile
  <2>2. \E r \in Rows : items'[r] # "NONE"
    BY <2>1, BatchConstants
  <2> QED BY <2>1, <2>2 DEF NothingBeforeIngestion, HasItems
<1>2. CASE HasItems /\ ~ \E o \in HygieneOutcomes : IngestFile(o)
  <2>1. \A r \in Rows : items[r] # "NONE"
    BY <1>2 DEF NothingBeforeIngestion, HasItems
  <2>2. \A r \in Rows : items'[r] # "NONE"
    BY <1>2, <2>1, ItemsStep DEF TERMINAL_ITEM_STATUSES
  <2>3. \E r \in Rows : items'[r] # "NONE"
    BY <2>2, BatchConstants
  <2> QED BY <2>2, <2>3 DEF NothingBeforeIngestion, HasItems
<1>3. CASE ~ HasItems /\ ~ \E o \in HygieneOutcomes : IngestFile(o)
  <2>1. /\ toPublish = {}
        /\ \A t \in Tasks : tasks[t].phase = "free"
        /\ \A c \in ChunkIds : chunks[c].status = "NONE"
    BY <1>3 DEF NothingBeforeIngestion
  <2>2. \A r \in Rows : items[r] = "NONE" /\ items'[r] = "NONE"
    BY <1>3, <2>1, ItemsStep DEF HasItems
  <2>3. \A t \in Tasks : ~ WorkerStep(t) /\ ~ Raise(t) /\ ~ Crash(t)
    BY ZenonT(60), <2>1 DEF WorkerStep, RefuseClaim, claim_chunk, ReadItems, CheckBatch, StopChunk,
                ProcessItem, SaveCheckpoint, CompleteChunk, FailChunk,
                refresh_batch_progress, Raise, Crash
  <2>4. \A c \in ChunkIds : /\ ~ PublishSent(c) /\ ~ PublishSkipped(c)
                            /\ ~ PublishRefused(c) /\ ~ LosePublication(c)
    BY <2>1 DEF PublishSent, PublishSkipped, PublishRefused, LosePublication
  <2>5. /\ toPublish' = {}
        /\ UNCHANGED tasks
        /\ \A c \in ChunkIds : chunks'[c].status = "NONE"
    <3>1. \A statuses : "NONE" \notin statuses => InStatus(statuses) = {}
      BY <2>1 DEF InStatus
    <3>2. CASE CommandStep
      BY <1>3, <2>1, <3>1, <3>2
         DEF CommandStep, pause_batch, resume_batch, ResumeWithItems, ResumeWithoutItems,
             cancel_batch, AdminSetStatus, AdminCancelBatch, AdminCancelReservation,
             batchVars, Marked
    <3>3. CASE recover_stalled_work
      <4>1. Expired = {}
        BY <3>1 DEF Expired
      <4>2. RecoveredChunks = chunks
        BY <4>1 DEF RecoveredChunks
      <4>3. Stalled = {}
        BY <2>1, <4>2 DEF Stalled
      <4> QED BY <2>1, <3>3, <4>2, <4>3 DEF recover_stalled_work, RecoverChunks
    <3>4. CASE \E c \in ChunkIds : TimePasses(c)
      BY <2>1, <3>4 DEF TimePasses, LeaseExpires, DispatchAges, BatchChunk
    <3> QED
      BY <1>3, <2>1, <2>3, <2>4, <3>2, <3>3, <3>4
         DEF Next, IngestStep, Send, HoldForBatch, PublishIngestion, LoseIngestion,
             IngestUnreadable, IngestAgain, batchVars, vars
  <2> QED BY <2>1, <2>2, <2>5 DEF NothingBeforeIngestion, HasItems
<1> QED BY <1>1, <1>2, <1>3

LEMMA CoreInit == Init => Core
<1> SUFFICES ASSUME Init PROVE Core
  OBVIOUS
<1>1. TypeOK
  BY NoChunkType, FreeTaskType
     DEF Init, TypeOK, BatchTypeOK, BatchStatuses, ItemStatuses, ReservationStatuses
<1>2. TasksHaveWork
  BY DEF Init, TasksHaveWork, FreeTask
<1>3. NothingBeforeIngestion
  BY DEF Init, NothingBeforeIngestion, FreeTask, NoChunk
<1> QED BY <1>1, <1>2, <1>3 DEF Core

LEMMA CoreStep == ASSUME Core, [Next]_vars PROVE Core'
BY TypeStep, TasksStep, IngestionStep DEF Core

LEMMA CoreAlways == Spec => []Core
BY CoreInit, CoreStep, PTL DEF Spec

\* The status of the batch, its items, chunks and messages are well typed in
\* every reachable state, for every file and every number of messages.
THEOREM TypeCorrect == Spec => []TypeOK
<1>1. Core => TypeOK
  BY DEF Core
<1> QED BY <1>1, CoreAlways, PTL

\* No command, crash, replay or second worker ever changes the result of an
\* item that has one (process_item and the except branch of process_chunk).
THEOREM ResultsAreKept == Spec => ConfirmedItemsAreKept
<1>1. ASSUME Core, [Next]_vars
      PROVE  [\A r \in Rows : items[r] \in TERMINAL_ITEM_STATUSES
                                => items'[r] = items[r]]_vars
  <2>1. CASE \E o \in HygieneOutcomes : IngestFile(o)
    BY <2>1 DEF IngestFile, HasItems, TERMINAL_ITEM_STATUSES
  <2> QED BY <1>1, <2>1, ItemsStep DEF Core
<1> QED BY <1>1, CoreAlways, PTL DEF Spec, ConfirmedItemsAreKept

-----------------------------------------------------------------------------
(* No chunk is completed with a row left over *)

Over(r) == items[r] \in TERMINAL_ITEM_STATUSES

\* Behind a checkpoint every row is over.
BehindCheckpoint ==
  \A c \in ChunkIds : \A r \in RowsOf(c) : r <= chunks[c].checkpoint_row => Over(r)

Ascends(s) == \A j, k \in 1..Len(s) : j < k => s[j] < s[k]

\* A worker's list is ascending, and every row of its chunk is over or on it;
\* the row whose checkpoint it is about to save is over.
CoversChunk(t) ==
  tasks[t].phase \in {"check", "item", "checkpoint"} =>
    /\ Ascends(tasks[t].todo)
    /\ \A r \in RowsOf(tasks[t].chunk) :
         Over(r) \/ \E k \in 1..Len(tasks[t].todo) : tasks[t].todo[k] = r
    /\ tasks[t].phase = "checkpoint" => Over(Head(tasks[t].todo))

IInv ==
  /\ Core
  /\ BehindCheckpoint
  /\ \A t \in Tasks : CoversChunk(t)
  /\ CompletedChunkHasNoPendingItem

\* Once cut, a chunk keeps its rows; its checkpoint moves when a worker saves it,
\* and it becomes COMPLETED when a worker completes it.
LEMMA ChunkStep ==
  ASSUME Core, [Next]_vars, NEW c \in ChunkIds
  PROVE  \/ \E o \in HygieneOutcomes : IngestFile(o)
         \/ /\ chunks'[c].start_row = chunks[c].start_row
            /\ chunks'[c].end_row = chunks[c].end_row
            /\ \/ chunks'[c].checkpoint_row = chunks[c].checkpoint_row
               \/ \E t \in Tasks : SaveCheckpoint(t) /\ tasks[t].chunk = c
            /\ \/ chunks'[c].status = chunks[c].status
               \/ chunks'[c].status # "COMPLETED"
               \/ \E t \in Tasks : CompleteChunk(t) /\ tasks[t].chunk = c
<1> USE DEF Core, TypeOK, BatchTypeOK
<1> DEFINE Kept == /\ chunks'[c].start_row = chunks[c].start_row
                   /\ chunks'[c].end_row = chunks[c].end_row
                   /\ chunks'[c].checkpoint_row = chunks[c].checkpoint_row
           NotCompleted == \/ chunks'[c].status = chunks[c].status
                           \/ chunks'[c].status # "COMPLETED"
<1>0. chunks[c] \in BatchChunk
  OBVIOUS
<1>1. CASE UNCHANGED chunks
  BY <1>1
<1>2. \A set, status :
        chunks' = Marked(chunks, set, status) /\ status # "COMPLETED"
          => Kept /\ NotCompleted
  BY <1>0 DEF Marked, BatchChunk
<1>3. ASSUME CommandStep, ~ UNCHANGED chunks PROVE Kept /\ NotCompleted
  <2>1. CASE \E set, status : chunks' = Marked(chunks, set, status) /\ status # "COMPLETED"
    BY <1>2, <2>1
  <2>2. CASE ResumeWithItems
    BY <1>0, <2>2 DEF ResumeWithItems, BatchChunk
  <2> QED
    BY <1>3, <2>1, <2>2
       DEF CommandStep, pause_batch, resume_batch, ResumeWithoutItems, cancel_batch,
           AdminSetStatus, AdminCancelBatch, AdminCancelReservation, batchVars
<1>4. ASSUME recover_stalled_work PROVE Kept /\ NotCompleted
  <2>1. chunks' = RecoveredChunks
    BY <1>4 DEF recover_stalled_work, RecoverChunks
  <2> QED BY <1>0, <2>1 DEF RecoveredChunks, Released, BatchChunk
<1>5. ASSUME NEW d \in ChunkIds,
             PublishSent(d) \/ PublishSkipped(d) \/ PublishRefused(d) \/ LosePublication(d)
               \/ TimePasses(d)
      PROVE  Kept /\ NotCompleted
  BY <1>0, <1>5 DEF PublishSent, PublishSkipped, PublishRefused, LosePublication, TimePasses,
                    LeaseExpires, DispatchAges, BatchChunk
<1>6. ASSUME NEW t \in Tasks, WorkerStep(t), ~ SaveCheckpoint(t), ~ CompleteChunk(t)
      PROVE  Kept /\ NotCompleted
  <2>1. CASE RefuseClaim(t)
    <3>1. \/ UNCHANGED chunks
          \/ \E set, status : chunks' = Marked(chunks, set, status) /\ status # "COMPLETED"
      BY <2>1 DEF RefuseClaim
    <3> QED BY <1>2, <3>1
  <2>2. CASE claim_chunk(t)
    BY <1>0, <2>2 DEF claim_chunk, BatchChunk
  <2>3. CASE StopChunk(t) \/ FailChunk(t)
    <3>1. \E status \in ChunkStatuses \ {"COMPLETED"} :
            chunks' = [chunks EXCEPT ![tasks[t].chunk] = Released(@, status)]
      BY <2>3 DEF StopChunk, FailChunk, ChunkStatuses
    <3> QED BY <1>0, <3>1, ReleasedType
  <2>4. CASE UNCHANGED chunks
    BY <2>4
  <2> QED BY <1>6, <2>1, <2>2, <2>3, <2>4
          DEF WorkerStep, ReadItems, CheckBatch, ProcessItem, refresh_batch_progress
<1>7. ASSUME NEW t \in Tasks, SaveCheckpoint(t)
      PROVE  /\ chunks'[c].start_row = chunks[c].start_row
             /\ chunks'[c].end_row = chunks[c].end_row
             /\ \/ chunks'[c].checkpoint_row = chunks[c].checkpoint_row
                \/ tasks[t].chunk = c
             /\ NotCompleted
  BY <1>0, <1>7 DEF SaveCheckpoint, BatchChunk
<1>8. ASSUME NEW t \in Tasks, CompleteChunk(t)
      PROVE  Kept /\ (NotCompleted \/ tasks[t].chunk = c)
  BY <1>0, <1>8 DEF CompleteChunk, BatchChunk, Released
<1>9. \A t \in Tasks : Raise(t) \/ Crash(t) => UNCHANGED chunks
  BY DEF Raise, Crash
<1> QED
  BY <1>1, <1>3, <1>4, <1>5, <1>6, <1>7, <1>8, <1>9
     DEF Next, IngestStep, Send, HoldForBatch, PublishIngestion, LoseIngestion,
         IngestUnreadable, IngestAgain, batchVars, vars

LEMMA RowsKept ==
  ASSUME Core, [Next]_vars, ~ \E o \in HygieneOutcomes : IngestFile(o)
  PROVE  /\ \A c \in ChunkIds : RowsOf(c)' = RowsOf(c)
         /\ \A r \in Rows : Over(r) => Over(r)'
<1>1. \A c \in ChunkIds : RowsOf(c)' = RowsOf(c)
  BY ChunkStep DEF RowsOf
<1>2. \A r \in Rows : Over(r) => Over(r)'
  BY ItemsStep DEF Over, Core
<1> QED BY <1>1, <1>2

LEMMA FileIngested ==
  ASSUME Core, NEW o \in HygieneOutcomes, IngestFile(o)
  PROVE  /\ \A t \in Tasks : tasks'[t].phase = "free"
         /\ \A c \in ChunkIds :
              /\ chunks'[c].status \in {"NONE", "PENDING"}
              /\ \A r \in Rows : chunks'[c].start_row <= r
                                   => ~ r <= chunks'[c].checkpoint_row
<1>1. \A t \in Tasks : tasks'[t].phase = "free"
  BY DEF IngestFile, Core, NothingBeforeIngestion
<1>2. PICK rows \in SUBSET Rows : chunks' = ChunksOf(rows)
  BY DEF IngestFile
<1>3. \A c \in ChunkIds :
        /\ ChunksOf(rows)[c].status \in {"NONE", "PENDING"}
        /\ \A r \in Rows : ChunksOf(rows)[c].start_row <= r
                             => ~ r <= ChunksOf(rows)[c].checkpoint_row
  BY ChunksOfType
<1> QED BY <1>1, <1>2, <1>3, Zenon

LEMMA CheckpointStep ==
  ASSUME Core, BehindCheckpoint, \A t \in Tasks : CoversChunk(t), [Next]_vars
  PROVE  BehindCheckpoint'
<1>1. CASE \E o \in HygieneOutcomes : IngestFile(o)
  BY <1>1, FileIngested DEF BehindCheckpoint, RowsOf
<1>2. CASE ~ \E o \in HygieneOutcomes : IngestFile(o)
  <2> SUFFICES ASSUME NEW c \in ChunkIds, NEW r \in Rows, r \in RowsOf(c)',
                      r <= chunks'[c].checkpoint_row
               PROVE  Over(r)'
    BY DEF BehindCheckpoint, RowsOf
  <2>1. r \in RowsOf(c) /\ (Over(r) => Over(r)')
    BY <1>2, RowsKept
  <2>2. CASE chunks'[c].checkpoint_row = chunks[c].checkpoint_row
    BY <2>1, <2>2 DEF BehindCheckpoint
  <2>3. ASSUME NEW t \in Tasks, SaveCheckpoint(t), tasks[t].chunk = c PROVE Over(r)'
    <3> DEFINE todo == tasks[t].todo
    <3>1. todo \in Seq(Rows) /\ todo # <<>> /\ tasks[t].phase = "checkpoint"
      BY <2>3 DEF SaveCheckpoint, Core, TypeOK, BatchTypeOK, Task, TasksHaveWork
    <3>2. chunks'[c].checkpoint_row = Head(todo)
      BY <2>3 DEF SaveCheckpoint, Core, TypeOK, BatchTypeOK, BatchChunk
    <3>3. /\ Ascends(todo) /\ Over(Head(todo))
          /\ Over(r) \/ \E k \in 1..Len(todo) : todo[k] = r
      BY <2>1, <2>3, <3>1 DEF CoversChunk
    <3>4. ASSUME NEW k \in 1..Len(todo), todo[k] = r PROVE Over(r)
      <4>1. todo[1] = Head(todo) /\ 1 \in 1..Len(todo) /\ todo[1] \in Nat /\ r \in Nat
        BY <3>1, RowsAreNumbers
      <4>2. CASE k = 1
        BY <3>3, <3>4, <4>1, <4>2
      <4>3. CASE k > 1
        <5>1. todo[1] < r
          BY <3>3, <3>4, <4>1, <4>3 DEF Ascends
        <5> QED BY <3>2, <4>1, <5>1
      <4> QED BY <4>2, <4>3
    <3> QED BY <2>1, <3>3, <3>4
  <2> QED BY <1>2, <2>2, <2>3, ChunkStep
<1> QED BY <1>1, <1>2

LEMMA CoversStep ==
  ASSUME Core, BehindCheckpoint, \A t \in Tasks : CoversChunk(t), [Next]_vars,
         NEW u \in Tasks
  PROVE  CoversChunk(u)'
<1> USE DEF Core, TypeOK, BatchTypeOK
<1>0. tasks[u] \in Task /\ tasks[u].todo \in Seq(Rows)
  BY DEF Task
<1>1. CASE \E o \in HygieneOutcomes : IngestFile(o)
  BY <1>1, FileIngested DEF CoversChunk
<1>2. CASE ~ \E o \in HygieneOutcomes : IngestFile(o)
  <2> DEFINE c == tasks[u].chunk
             todo == tasks[u].todo
             Busy == tasks[u].phase \in {"check", "item", "checkpoint"}
  <2>a. /\ tasks[u].phase # "free" => c \in ChunkIds
        /\ \A d \in ChunkIds : RowsOf(d)' = RowsOf(d)
        /\ \A d \in ChunkIds : RowsOf(d) \in SUBSET Rows
    BY <1>2, RowsKept DEF TasksHaveWork, RowsOf
  <2>b. \A r \in Rows : Over(r) => Over(r)'
    BY <1>2, RowsKept
  <2>1. CASE tasks'[u].phase \notin {"check", "item", "checkpoint"}
    BY <2>1 DEF CoversChunk
  <2>2. CASE tasks'[u] = tasks[u] /\ Busy
    <3>1. Over(Head(todo)) => Over(Head(todo))' \/ tasks[u].phase # "checkpoint"
      BY <1>0, <2>b, <2>2 DEF TasksHaveWork, Over
    <3> QED BY <2>2, <2>a, <2>b, <3>1 DEF CoversChunk
  <2>3. CASE ReadItems(u)
    <3>1. /\ tasks'[u].todo = PendingRows(c) /\ tasks'[u].chunk = c
          /\ tasks'[u].phase = "check" /\ tasks[u].phase = "read"
      BY <1>0, <2>3 DEF ReadItems, Task
    <3>2. \A r \in Rows : items[r] # "NONE"
      BY <3>1 DEF NothingBeforeIngestion, HasItems
    <3>3. \A r \in RowsOf(c) : Over(r) \/ items[r] = "PENDING"
      BY <2>a, <3>1, <3>2 DEF Over, ItemStatuses, TERMINAL_ITEM_STATUSES
    <3>4. \A r \in RowsOf(c) : r > chunks[c].checkpoint_row \/ Over(r)
      <4>1. \A r \in RowsOf(c) : r \in Nat /\ chunks[c].checkpoint_row \in Nat
        BY <2>a, <3>1, RowsAreNumbers DEF BatchChunk
      <4> QED BY <2>a, <3>1, <4>1 DEF BehindCheckpoint
    <3>5. \A r \in RowsOf(c) :
            Over(r) \/ \E k \in 1..Len(PendingRows(c)) : PendingRows(c)[k] = r
      BY <2>a, <3>1, <3>3, <3>4, PendingRowsType
    <3>6. Ascends(PendingRows(c))
      BY <2>a, <3>1, PendingRowsType DEF Ascends
    <3> QED BY <2>a, <2>b, <3>1, <3>5, <3>6 DEF CoversChunk
  <2>4. CASE CheckBatch(u)
    <3>1. /\ tasks'[u].todo = todo /\ tasks'[u].chunk = c
          /\ tasks'[u].phase \in {"stop", "item"} /\ tasks[u].phase = "check"
      BY <1>0, <2>4 DEF CheckBatch, GoTo, Task
    <3> QED BY <2>a, <2>b, <3>1 DEF CoversChunk
  <2>5. CASE ProcessItem(u)
    <3>1. /\ tasks'[u].todo = todo /\ tasks'[u].chunk = c
          /\ tasks'[u].phase = "checkpoint" /\ tasks[u].phase = "item"
      BY <1>0, <2>5 DEF ProcessItem, GoTo, Task
    <3>2. Head(todo) \in Rows
      BY <1>0, <3>1 DEF TasksHaveWork
    <3>3. Over(Head(todo))'
      BY <2>5, <3>1, <3>2, HygieneConstants DEF ProcessItem, Over
    <3> QED BY <2>a, <2>b, <3>1, <3>3 DEF CoversChunk, Over
  <2>6. CASE SaveCheckpoint(u)
    <3> DEFINE rest == Tail(todo)
    <3>1. /\ tasks'[u].todo = rest /\ tasks'[u].chunk = c
          /\ tasks'[u].phase = "check" /\ tasks[u].phase = "checkpoint"
      BY <1>0, <2>6 DEF SaveCheckpoint, Task
    <3>2. /\ Len(rest) = Len(todo) - 1
          /\ \A k \in 1..Len(rest) : k + 1 \in 1..Len(todo) /\ rest[k] = todo[k + 1]
          /\ Len(todo) \in Nat /\ todo[1] = Head(todo) /\ Head(todo) \in Rows
      BY <1>0, <3>1 DEF TasksHaveWork
    <3>3. Ascends(todo) /\ Over(Head(todo))
      BY <3>1 DEF CoversChunk
    <3>4. Ascends(rest)
      <4> SUFFICES ASSUME NEW j \in 1..Len(rest), NEW k \in 1..Len(rest), j < k
                   PROVE  rest[j] < rest[k]
        BY DEF Ascends
      <4>1. todo[j + 1] < todo[k + 1]
        BY <3>2, <3>3 DEF Ascends
      <4> QED BY <3>2, <4>1
    <3>5. ASSUME NEW r \in RowsOf(c), ~ Over(r)
          PROVE  \E k \in 1..Len(rest) : rest[k] = r
      <4>1. PICK k \in 1..Len(todo) : todo[k] = r
        BY <3>1, <3>5 DEF CoversChunk
      <4>2. k # 1
        BY <3>2, <3>3, <3>5, <4>1
      <4>3. k - 1 \in 1..Len(rest) /\ rest[k - 1] = todo[k]
        BY <3>2, <4>2
      <4> QED BY <4>1, <4>3
    <3> QED BY <2>a, <2>b, <3>1, <3>4, <3>5 DEF CoversChunk
  <2>7. ASSUME WorkerStep(u), ~ ReadItems(u), ~ CheckBatch(u), ~ ProcessItem(u),
               ~ SaveCheckpoint(u)
        PROVE  tasks'[u].phase \notin {"check", "item", "checkpoint"}
    <3>0. \A phase : GoTo(u, phase) => tasks'[u].phase = phase
      BY <1>0 DEF GoTo, Task
    <3>1. \A phase : Leave(u, phase) => tasks'[u].phase = phase
      BY <1>0 DEF Leave, Task
    <3>2. Done(u) => tasks'[u].phase = "free"
      BY DEF Done, FreeTask
    <3>3. CASE refresh_batch_progress(u)
      <4>1. CASE Done(u)
        BY <3>2, <4>1
      <4>2. CASE tasks'[u] = [FreeTask EXCEPT !.phase = "queued", !.chunk = tasks[u].chunk]
        BY <4>2 DEF FreeTask
      <4> QED BY <3>3, <4>1, <4>2 DEF refresh_batch_progress
    <3> QED BY <2>7, <3>0, <3>1, <3>2, <3>3
            DEF WorkerStep, RefuseClaim, claim_chunk, StopChunk, CompleteChunk, FailChunk
  <2>8. CASE Raise(u)
    BY <1>0, <2>1, <2>8 DEF Raise, Leave, Task
  <2>9. CASE TaskUntouched(u)
    <3>1. tasks'[u] = tasks[u] \/ tasks'[u].phase \in {"free", "queued"}
      <4>1. CASE tasks'[u] = FreeTask
        BY <4>1 DEF FreeTask
      <4>2. ASSUME NEW d \in ChunkIds,
                   tasks'[u] = [FreeTask EXCEPT !.phase = "queued", !.chunk = d]
            PROVE  tasks'[u].phase = "queued"
        BY <4>2 DEF FreeTask
      <4> QED BY <2>9, <4>1, <4>2 DEF TaskUntouched
    <3> QED BY <2>1, <2>2, <3>1
  <2> QED BY <2>1, <2>3, <2>4, <2>5, <2>6, <2>7, <2>8, <2>9, OtherTasks
<1> QED BY <1>1, <1>2

LEMMA CompletedStep == ASSUME IInv, [Next]_vars PROVE CompletedChunkHasNoPendingItem'
<1> SUFFICES ASSUME NEW c \in ChunkIds, chunks'[c].status = "COMPLETED",
                    NEW r \in Rows, r \in RowsOf(c)'
             PROVE  Over(r)'
  BY DEF CompletedChunkHasNoPendingItem, RowsOf, Over
<1>1. ~ \E o \in HygieneOutcomes : IngestFile(o)
  BY FileIngested DEF IInv
<1>2. r \in RowsOf(c) /\ (Over(r) => Over(r)')
  BY <1>1, RowsKept DEF IInv
<1>3. CASE chunks[c].status = "COMPLETED"
  BY <1>2, <1>3 DEF IInv, CompletedChunkHasNoPendingItem, Over
<1>4. ASSUME NEW t \in Tasks, CompleteChunk(t), tasks[t].chunk = c PROVE Over(r)
  <2>1. tasks[t].phase = "check" /\ tasks[t].todo = <<>>
    BY <1>4 DEF CompleteChunk
  <2>2. Len(tasks[t].todo) = 0
    BY <2>1
  <2> QED BY <1>2, <1>4, <2>1, <2>2 DEF IInv, CoversChunk
<1> QED BY <1>1, <1>2, <1>3, <1>4, ChunkStep DEF IInv

LEMMA IInvInit == Init => IInv
<1> SUFFICES ASSUME Init PROVE IInv
  OBVIOUS
<1>1. BehindCheckpoint
  BY RowsAreNumbers DEF Init, BehindCheckpoint, RowsOf, NoChunk
<1>2. \A t \in Tasks : CoversChunk(t)
  BY DEF Init, CoversChunk, FreeTask
<1>3. CompletedChunkHasNoPendingItem
  BY DEF Init, CompletedChunkHasNoPendingItem, NoChunk
<1> QED BY <1>1, <1>2, <1>3, CoreInit DEF IInv

LEMMA IInvStep == ASSUME IInv, [Next]_vars PROVE IInv'
BY CoreStep, CheckpointStep, CoversStep, CompletedStep DEF IInv

\* A chunk is never COMPLETED with a row left over, whatever tenants and
\* administrators command, and although workers die, outlive their leases and
\* go on beside their successors (process_chunk).
THEOREM CompletedChunksAreComplete == Spec => []CompletedChunkHasNoPendingItem
<1>1. IInv => CompletedChunkHasNoPendingItem
  BY DEF IInv
<1> QED BY <1>1, IInvInit, IInvStep, PTL DEF Spec
=============================================================================
