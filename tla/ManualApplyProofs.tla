--------------------------- MODULE ManualApplyProofs ---------------------------
(***************************************************************************)
(* Proofs about ManualApply: nothing a user saved is lost, a commit that   *)
(* needed no repair is all or nothing, and what can be undone is on disk.  *)
(***************************************************************************)
EXTENDS ManualApply, FiniteSetTheorems, TLAPS

-------------------------------------------------------------------------------
(* Types.                                                                  *)

Batches  == [Edits -> Texts]
EventIds == Ids \X Nat
Events   == [id : EventIds, edits : SUBSET Edits, text : Batches]
Tombs    == [id : EventIds, before : Sources]

Live ==
    [pc : {"waiting", "rejected", "finishing"}, batch : Batches, before : Sources,
     eventBefore : Sources, tx : Ids \cup {None}, sent : Nat, chunked : BOOLEAN,
     todo : Seq(SUBSET Edits), applied : SUBSET Edits, failed : SUBSET Edits,
     status : {"done", "partial", "error"}, files : BOOLEAN, attempt : Nat,
     decide : BOOLEAN]

Commits == {NoCommit, Over} \cup Live

Servers ==
    [staged : Batches, source : Sources, tx : {None} \cup Transactions, commits : [Ids -> Commits],
     queue : SUBSET Events, timedOut : SUBSET Tombs]

Work == {Idle} \cup [id : EventIds, edits : SUBSET Edits, text : Batches, edited : BOOLEAN]

Counts == 0..Cardinality(Edits)

Messages ==
    [type : {"stashed", "started", "decide", "done", "rollback", "discarded"}, count : Counts]

Pages == [locked : BOOLEAN, stored : {None, "applying", "decision"}, count : Counts]

Types ==
    /\ srv \in Servers
    /\ agent \in [Agents -> Work]
    /\ page \in Pages /\ (page.locked => page.stored # None)
    /\ sse \in Seq(Messages)
    /\ saving \in Batches /\ typed \in Batches /\ wanted \in Batches
    /\ trouble \in {None, "late"} \cup Kinds

-------------------------------------------------------------------------------
(* Events: each is in the queue or with one agent.                         *)

\* What is in an event is the commit's.
EventOf(v, commit) == v.text = commit.batch /\ v.edits \subseteq Pending(commit.batch)

\* A commit that is not over: its chunks are of its batch.
Sound(commit) ==
    /\ ~ commit.decide
    /\ \A i \in DOMAIN commit.todo : commit.todo[i] \subseteq Pending(commit.batch)

Queued ==
    \A v \in srv.queue : \E c \in Waiting(srv) :
      v.id = Awaited(srv, c) /\ EventOf(v, srv.commits[c])

QueuedOnce == \A v, w \in srv.queue : v.id = w.id => v = w

\* An agent's event is none that is queued, none still to come, and if its
\* commit waits for it, it is that commit's.
Held ==
    \A a \in Agents : agent[a] # Idle =>
      /\ \A v \in srv.queue : v.id # agent[a].id
      /\ \A c \in Ids : agent[a].id[1] = c =>
           /\ srv.commits[c] # NoCommit
           /\ srv.commits[c] \in Live => agent[a].id[2] <= srv.commits[c].sent
           /\ c \in Waiting(srv) /\ agent[a].id = Awaited(srv, c)
                => EventOf(agent[a], srv.commits[c])

HeldOnce ==
    \A a, b \in Agents :
      agent[a] # Idle /\ agent[b] # Idle /\ agent[a].id = agent[b].id => a = b

OpenIsSound == \A c \in Ids : srv.commits[c].pc \in {"waiting", "rejected"} => Sound(srv.commits[c])

EventInv == Queued /\ QueuedOnce /\ Held /\ HeldOnce /\ OpenIsSound

-------------------------------------------------------------------------------
(* The dock, as long as there is one tab and it has heard what happened.   *)

Quiet == trouble \notin {"tab", "late"}

Ends(m) == m.type \in {"decide", "done"}

NoEndUnderWay == \A i \in DOMAIN sse : ~ Ends(sse[i])

\* A commit is the only one, the page has heard of every earlier outcome and
\* asks nothing.
Alone(c) ==
    /\ \A d \in Running : d = c
    /\ NoEndUnderWay /\ page.stored # "decision"

\* The page is locked, and what the commit does can be undone.
Guarded(c) ==
    /\ page.locked /\ Pending(srv.staged) # {}
    /\ srv.tx # None /\ srv.tx.id = srv.commits[c].tx

Asked == page.stored = "decision" \/ \E i \in DOMAIN sse : sse[i].type = "decide"

StashesCount == \A i \in DOMAIN sse : sse[i].type = "stashed" => sse[i].count > 0

Covered ==
    /\ \A c \in Running : Alone(c)
    /\ \A c \in Running : srv.commits[c].pc # "finishing" => Guarded(c)
    /\ \A c \in Running : srv.commits[c].pc = "finishing" /\ srv.commits[c].decide
                           => srv.tx # None
    /\ Asked => srv.tx # None

DockInv == StashesCount /\ (Quiet => Covered)

-------------------------------------------------------------------------------
(* The texts, as long as no event is given up.                             *)

Steady == trouble \in {None, "race", "reload"}

\* An older text of an edit than the one under way.
Old(e, text) == text <= typed[e] /\ (saving[e] # 0 => text < saving[e])

AllOld(batch) == \A e \in Edits : Old(e, batch[e])

Fresh ==
    /\ \A e \in Edits : saving[e] <= typed[e]
    /\ AllOld(srv.staged) /\ AllOld(srv.source.text)
    /\ srv.tx # None => AllOld(srv.tx.before.text)
    /\ \A c \in Waiting(srv) :
         AllOld(srv.commits[c].batch) /\ AllOld(srv.commits[c].before.text)

\* A commit waits for what an agent has been given, and nothing is given up.
Answered ==
    /\ \A a \in Agents : agent[a] # Idle =>
         \E c \in Waiting(srv) : agent[a].id = Awaited(srv, c)
    /\ \A c \in Ids : srv.commits[c].pc # "rejected"

\* A text staged since the commit began is one nobody has written.
Raced(commit) ==
    \A e \in Edits :
      \/ srv.staged[e] = commit.batch[e]
      \/ srv.staged[e] \notin {srv.source.text[e], commit.before.text[e], commit.batch[e]}

Atomic(commit) ==
    \/ srv.source = commit.before
    \/ /\ srv.source.ok
       /\ \A e \in Pending(srv.staged) :
            srv.staged[e] \notin {srv.source.text[e]} \ {commit.before.text[e]}

Orderly ==
    /\ Answered /\ Fresh
    /\ \A c \in Waiting(srv) : Raced(srv.commits[c])
    /\ \A c \in Running :
         srv.commits[c].pc = "finishing" /\ srv.commits[c].attempt = 0 => Atomic(srv.commits[c])

SteadyInv == Steady => Orderly

Calm == trouble \in {None, "reload"}

\* Nothing is lost if these are the texts of the source.
Keeps(text) == \A e \in Edits : srv.staged[e] = 0 => wanted[e] \in {0, text[e]}

\* The transaction goes with the commit that is finishing.
Going == \E c \in Running :
    srv.commits[c].pc = "finishing" /\ ~ srv.commits[c].decide /\ srv.commits[c].tx = srv.tx.id

Kept ==
    /\ \A e \in Edits : srv.staged[e] # 0 => wanted[e] = srv.staged[e]
    /\ Keeps(srv.source.text)
    /\ \A c \in Waiting(srv) :
         srv.staged = srv.commits[c].batch /\ Keeps(srv.commits[c].before.text)
    /\ srv.tx # None /\ ~ Going => Keeps(srv.tx.before.text)

KeptInv == Calm => Kept

IInv == Types /\ EventInv /\ DockInv /\ SteadyInv /\ KeptInv

-------------------------------------------------------------------------------
(* Operators of the model.                                                 *)

\* The constants, and the records that stand for no commit.
LEMMA Constants ==
    /\ IsFiniteSet(Edits) /\ MaxText \in Nat /\ MaxText > 0 /\ MaxCommits \in Nat
    /\ MaxRepairs \in Nat /\ MaxRepairs > 0 /\ ChunkSize \in 1..20
    /\ Ids \subseteq Nat /\ Texts \subseteq Nat /\ 0 \in Texts
    /\ Nothing \in Batches /\ Original \in Sources
    /\ None \notin {"applying", "decision", "late", "timeout", "restart", "race", "tab", "reload"}
    /\ None \notin Transactions /\ Batches = [Edits -> Texts]
BY BoundsAssumption, NoneAssumption
   DEF Ids, Texts, Nothing, Batches, Original, Sources, Kinds

\* A commit that is open or finishing is neither none nor over.
LEMMA LiveCommits ==
    ASSUME NEW commit \in Commits
    PROVE  /\ commit \in Live <=> commit.pc \in {"waiting", "rejected", "finishing"}
           /\ commit \in Live => commit # NoCommit /\ commit # Over
           /\ commit.pc = "none" <=> commit = NoCommit
           /\ commit.pc = "over" <=> commit = Over
           /\ NoCommit # Over
BY DEF Commits, Live, NoCommit, Over

\* What is staged is counted.
LEMMA Counted ==
    ASSUME NEW s \in Servers
    PROVE  Count(s) \in Counts /\ (Count(s) = 0 <=> Pending(s.staged) = {})
<1>1. Pending(s.staged) \in SUBSET Edits
  BY DEF Pending
<1>2. /\ IsFiniteSet(Pending(s.staged))
      /\ Cardinality(Pending(s.staged)) <= Cardinality(Edits)
  BY <1>1, Constants, FS_Subset
<1>3. Cardinality(Pending(s.staged)) \in Nat /\ Cardinality(Edits) \in Nat
  BY <1>2, Constants, FS_CardinalityType
<1> QED BY <1>2, <1>3, FS_EmptySet DEF Count, Counts

\* The chunks of a batch are sets of its edits, and there is one.
LEMMA Chunks ==
    ASSUME NEW edits \in SUBSET Edits, edits # {}
    PROVE  LET chunks == splitManualApplyBatch(edits)
           IN  /\ Head(chunks) \in SUBSET edits
               /\ Tail(chunks) \in Seq(SUBSET Edits)
               /\ \A i \in DOMAIN Tail(chunks) : Tail(chunks)[i] \subseteq edits
<1> DEFINE n == Cardinality(edits)
           order == SetToSeq(edits)
           number == (n + ChunkSize - 1) \div ChunkSize
           chunks == splitManualApplyBatch(edits)
<1>1. IsFiniteSet(edits) /\ n \in Nat /\ ExistsBijection(1..n, edits) /\ n # 0
  BY Constants, FS_Subset, FS_CardinalityType, FS_EmptySet
<1>2. \E f \in [1..n -> edits] : IsInjective(f)
  BY <1>1 DEF ExistsBijection, Bijection, Injection, IsInjective
<1>3. order \in [1..n -> edits]
  BY <1>2 DEF SetToSeq
<1>4. order \in Seq(edits) /\ Len(order) = n
  BY <1>1, <1>3, SMT
<1>5. number \in Nat /\ number >= 1
  BY <1>1, Constants, SMTT(60)
<1>6. \A i \in 1..number : {order[j] : j \in ((i - 1) * ChunkSize + 1)..
            (IF i * ChunkSize > n THEN n ELSE i * ChunkSize)} \in SUBSET edits
  <2> SUFFICES ASSUME NEW i \in 1..number,
                      NEW j \in ((i - 1) * ChunkSize + 1)..
                                (IF i * ChunkSize > n THEN n ELSE i * ChunkSize)
               PROVE  order[j] \in edits
    OBVIOUS
  <2> DEFINE a == (i - 1) * ChunkSize  b == i * ChunkSize
  <2>1. i - 1 \in Nat /\ ChunkSize \in Nat /\ i \in Nat
    BY Constants, <1>5
  <2>2. a \in Nat /\ b \in Nat
    BY <2>1
  <2>3. j \in (a + 1)..(IF b > n THEN n ELSE b)
    OBVIOUS
  <2> HIDE DEF a, b
  <2>4. j \in 1..n
    BY <2>2, <2>3, <1>1
  <2> QED BY <2>4, <1>3
<1> HIDE DEF n, number, order
<1>7. /\ chunks \in [1..number -> SUBSET edits]
  BY <1>4, <1>6 DEF splitManualApplyBatch, n, number, order
<1> HIDE DEF chunks
<1>8. chunks \in Seq(SUBSET edits) /\ Len(chunks) = number
  BY <1>5, <1>7
<1>9. chunks # <<>> /\ Head(chunks) = chunks[1]
  BY <1>5, <1>8
<1>10. Head(chunks) \in SUBSET edits
  BY <1>5, <1>7, <1>9
<1>11. Tail(chunks) \in Seq(SUBSET edits)
  BY <1>8, <1>9
<1>12. \A i \in DOMAIN Tail(chunks) : Tail(chunks)[i] \in SUBSET edits
  BY <1>11
<1>13. Tail(chunks) \in Seq(SUBSET Edits)
  BY <1>11, <1>12
<1> QED BY <1>10, <1>12, <1>13 DEF chunks

-------------------------------------------------------------------------------
(* How a commit goes on.                                                   *)

\* The commit c, as it is in `commit', goes on: nothing else changes.
Goes(s, t, c, commit) ==
    /\ t \in Servers /\ t.tx = s.tx /\ t.timedOut = s.timedOut
    /\ \A d \in Ids : d # c => t.commits[d] = s.commits[d]
    /\ t.commits[c] \in Live /\ t.commits[c].batch = commit.batch
    /\ t.commits[c].before = commit.before /\ t.commits[c].tx = commit.tx

\* It sends an event and waits.
Pushed(s, t, c, commit) ==
    /\ t.commits[c].pc = "waiting" /\ t.commits[c].sent = commit.sent + 1
    /\ Sound(t.commits[c])
    /\ t.staged = s.staged /\ t.source = s.source
    /\ \E edits \in SUBSET Pending(commit.batch) :
         t.queue = s.queue \cup {[id |-> <<c, commit.sent + 1>>, edits |-> edits,
                                  text |-> commit.batch]}

\* It finishes: it is undone, the user has to decide, or what the source shows
\* is taken off the stage.
Finished(s, t, c, commit) ==
    /\ t.commits[c].pc = "finishing" /\ t.commits[c].sent = commit.sent
    /\ t.queue = s.queue
    /\ \/ t.staged = s.staged /\ t.source = commit.before /\ ~ t.commits[c].decide
       \/ /\ t.staged = s.staged /\ t.source = s.source
          /\ t.commits[c].decide /\ t.commits[c].attempt > 0
       \/ /\ t.source = s.source /\ ~ t.commits[c].decide
          /\ \E verified \in SUBSET Shown(s.source, commit) :
               /\ t.staged = [e \in Edits |-> IF e \in verified THEN 0 ELSE s.staged[e]]
               /\ t.commits[c].attempt = 0 =>
                    \/ s.source = commit.before
                    \/ /\ s.source.ok
                       /\ Shown(s.source, commit) \subseteq
                            verified \cup Shown(commit.before, commit)

GoesOn(s, t, c, commit) ==
    Goes(s, t, c, commit) /\ (Pushed(s, t, c, commit) \/ Finished(s, t, c, commit))

\* All that matters of a commit that goes on.
Alike(commit, other) ==
    /\ commit \in Live /\ other \in Live /\ commit.batch = other.batch
    /\ commit.before = other.before /\ commit.tx = other.tx /\ commit.sent = other.sent

LEMMA GoesOnAlike ==
    ASSUME NEW s, NEW t, NEW c, NEW commit, NEW other,
           Alike(commit, other), GoesOn(s, t, c, other)
    PROVE  GoesOn(s, t, c, commit)
BY DEF Alike, GoesOn, Goes, Pushed, Finished, Shown, Pending

\* A batch's edits.
LEMMA PendingEdits ==
    ASSUME NEW batch PROVE Pending(batch) \in SUBSET Edits
BY DEF Pending

LEMMA PushGoes ==
    ASSUME NEW s \in Servers, NEW c \in Ids, NEW commit \in Live, Sound(commit),
           NEW edits \in SUBSET Pending(commit.batch)
    PROVE  GoesOn(s, pushApplyEvent(s, c, commit, edits), c, commit)
<1> DEFINE t == pushApplyEvent(s, c, commit, edits)
           next == [commit EXCEPT !.pc = "waiting", !.sent = @ + 1, !.eventBefore = s.source]
           event == [id |-> <<c, commit.sent + 1>>, edits |-> edits, text |-> commit.batch]
<1>0. s.source \in Sources /\ commit.sent + 1 \in Nat
  BY DEF Live, Servers
<1>1. next \in Live /\ next.pc = "waiting" /\ next.sent = commit.sent + 1
  BY <1>0 DEF Live
<1>2. /\ next.batch = commit.batch /\ next.before = commit.before /\ next.tx = commit.tx
      /\ next.todo = commit.todo /\ next.decide = commit.decide
  BY DEF Live
<1>3. event \in Events
  BY PendingEdits DEF Events, EventIds, Live
<1> HIDE DEF next, event
<1>4. t = [s EXCEPT !.commits[c] = next, !.queue = @ \cup {event}]
  BY DEF pushApplyEvent, next, event
<1>5. /\ t \in Servers /\ t.tx = s.tx /\ t.timedOut = s.timedOut /\ t.staged = s.staged
      /\ t.source = s.source /\ t.queue = s.queue \cup {event} /\ t.commits[c] = next
      /\ \A d \in Ids : d # c => t.commits[d] = s.commits[d]
  <2> HIDE DEF t
  <2> QED BY <1>1, <1>3, <1>4 DEF Servers, Commits
<1> HIDE DEF t
<1>6. Goes(s, t, c, commit)
  BY <1>1, <1>2, <1>5 DEF Goes
<1>7. Sound(next)
  BY <1>2 DEF Sound
<1>8. Pushed(s, t, c, commit)
  BY <1>1, <1>5, <1>7 DEF Pushed, event
<1> QED BY <1>6, <1>8 DEF GoesOn, t

\* The server after a commit's last step.
LEMMA FinishGoes ==
    ASSUME NEW s \in Servers, NEW c \in Ids, NEW commit \in Live
    PROVE  LET t == Finishing(s, c, commit)
           IN  /\ Goes(s, t, c, commit)
               /\ t.commits[c].pc = "finishing" /\ t.commits[c].sent = commit.sent
               /\ t.commits[c].decide = commit.decide /\ t.commits[c].attempt = commit.attempt
               /\ t.queue = s.queue /\ t.staged = s.staged /\ t.source = s.source
<1> DEFINE t == Finishing(s, c, commit)
           next == [commit EXCEPT !.pc = "finishing"]
<1>1. next \in Live /\ next.pc = "finishing" /\ next.sent = commit.sent
  BY DEF Live
<1>2. /\ next.batch = commit.batch /\ next.before = commit.before /\ next.tx = commit.tx
      /\ next.attempt = commit.attempt /\ next.decide = commit.decide
  BY DEF Live
<1> HIDE DEF next
<1>4. t = [s EXCEPT !.commits[c] = next]
  BY DEF Finishing, next
<1>5. /\ t \in Servers /\ t.tx = s.tx /\ t.timedOut = s.timedOut /\ t.staged = s.staged
      /\ t.source = s.source /\ t.queue = s.queue /\ t.commits[c] = next
      /\ \A d \in Ids : d # c => t.commits[d] = s.commits[d]
  <2> HIDE DEF t
  <2> QED BY <1>1, <1>4 DEF Servers, Commits
<1> HIDE DEF t
<1>6. Goes(s, t, c, commit)
  BY <1>1, <1>2, <1>5 DEF Goes
<1> QED BY <1>1, <1>2, <1>5, <1>6 DEF t

LEMMA RollbackGoes ==
    ASSUME NEW s \in Servers, NEW c \in Ids, NEW commit \in Live, Sound(commit)
    PROVE  GoesOn(s, rollbackChangedFiles(s, c, commit), c, commit)
<1> DEFINE r == [s EXCEPT !.source = commit.before]
           t == Finishing(r, c, commit)
<1>1. /\ r \in Servers /\ r.tx = s.tx /\ r.timedOut = s.timedOut /\ r.commits = s.commits
      /\ r.queue = s.queue /\ r.staged = s.staged /\ r.source = commit.before
  BY DEF Servers, Live
<1> HIDE DEF r
<1>2. /\ Goes(r, t, c, commit)
      /\ t.commits[c].pc = "finishing" /\ t.commits[c].sent = commit.sent
      /\ t.commits[c].decide = commit.decide
      /\ t.queue = r.queue /\ t.staged = r.staged /\ t.source = r.source
  BY <1>1, FinishGoes
<1> HIDE DEF t
<1>3. Goes(s, t, c, commit)
  BY <1>1, <1>2 DEF Goes
<1>4. Finished(s, t, c, commit)
  BY <1>1, <1>2 DEF Finished, Sound
<1>5. t = rollbackChangedFiles(s, c, commit)
  BY DEF rollbackChangedFiles, t, r
<1> QED BY <1>3, <1>4, <1>5 DEF GoesOn

\* With the condition under which a commit without repair takes edits off.
LEMMA ClearGoes ==
    ASSUME NEW s \in Servers, NEW c \in Ids, NEW commit \in Live, Sound(commit),
           NEW verified \in SUBSET Shown(s.source, commit),
           commit.attempt = 0 =>
             \/ s.source = commit.before
             \/ /\ s.source.ok
                /\ Shown(s.source, commit) \subseteq verified \cup Shown(commit.before, commit)
    PROVE  GoesOn(s, clearAppliedEntries(s, c, commit, verified), c, commit)
<1> DEFINE staged == [e \in Edits |-> IF e \in verified THEN 0 ELSE s.staged[e]]
           r == [s EXCEPT !.staged = staged]
           t == Finishing(r, c, commit)
<1>0. staged \in Batches
  BY Constants DEF Batches, Servers
<1> HIDE DEF staged
<1>1. /\ r \in Servers /\ r.tx = s.tx /\ r.timedOut = s.timedOut /\ r.commits = s.commits
      /\ r.queue = s.queue /\ r.staged = staged /\ r.source = s.source
  BY <1>0 DEF Servers
<1>r. r = [s EXCEPT !.staged = [e \in Edits |-> IF e \in verified THEN 0 ELSE @[e]]]
  BY DEF r, staged, Servers
<1> HIDE DEF r
<1>2. /\ Goes(r, t, c, commit)
      /\ t.commits[c].pc = "finishing" /\ t.commits[c].sent = commit.sent
      /\ t.commits[c].decide = commit.decide /\ t.commits[c].attempt = commit.attempt
      /\ t.queue = r.queue /\ t.staged = r.staged /\ t.source = r.source
  BY <1>1, FinishGoes
<1>5. t = clearAppliedEntries(s, c, commit, verified)
  BY <1>r DEF clearAppliedEntries, t
<1> HIDE DEF t
<1>3. Goes(s, t, c, commit)
  BY <1>1, <1>2 DEF Goes
<1>4. Finished(s, t, c, commit)
  <2>1. ~ t.commits[c].decide
    BY <1>2 DEF Sound
  <2> QED BY <1>1, <1>2, <2>1 DEF Finished, staged
<1> QED BY <1>3, <1>4, <1>5 DEF GoesOn


LEMMA RepairGoes ==
    ASSUME NEW s \in Servers, NEW c \in Ids, NEW commit \in Live, Sound(commit)
    PROVE  GoesOn(s, Repair(s, c, commit), c, commit)
<1>1. CASE commit.attempt < MaxRepairs
  <2> DEFINE next == [commit EXCEPT !.attempt = @ + 1]
  <2>1. next \in Live /\ Alike(commit, next) /\ Sound(next)
    BY DEF Live, Alike, Sound
  <2> HIDE DEF next
  <2>2. Pending(commit.batch) = Pending(next.batch)
    BY <2>1 DEF Alike
  <2>3. GoesOn(s, pushApplyEvent(s, c, next, Pending(commit.batch)), c, next)
    BY <2>1, <2>2, PushGoes
  <2>4. Repair(s, c, commit) = pushApplyEvent(s, c, next, Pending(commit.batch))
    BY <1>1 DEF Repair, next
  <2> QED BY <2>1, <2>3, <2>4, GoesOnAlike
<1>2. CASE ~ (commit.attempt < MaxRepairs)
  <2> DEFINE next == [commit EXCEPT !.decide = TRUE]
             t == Finishing(s, c, next)
  <2>1. next \in Live /\ Alike(commit, next) /\ next.decide = TRUE
        /\ next.attempt = commit.attempt /\ commit.attempt \in Nat
    BY DEF Live, Alike
  <2> HIDE DEF next
  <2>2. /\ Goes(s, t, c, next)
        /\ t.commits[c].pc = "finishing" /\ t.commits[c].sent = next.sent
        /\ t.commits[c].decide = next.decide /\ t.commits[c].attempt = next.attempt
        /\ t.queue = s.queue /\ t.staged = s.staged /\ t.source = s.source
    BY <2>1, FinishGoes
  <2> HIDE DEF t
  <2>3. next.attempt > 0
    BY <1>2, <2>1, Constants
  <2>4. Finished(s, t, c, next)
    BY <2>1, <2>2, <2>3 DEF Finished
  <2>5. GoesOn(s, t, c, commit)
    BY <2>1, <2>2, <2>4, GoesOnAlike DEF GoesOn
  <2>6. Repair(s, c, commit) = t
    BY <1>2 DEF Repair, next, t
  <2> QED BY <2>5, <2>6
<1> QED BY <1>1, <1>2

\* An agent's whole result, or the source as it is found by a repair.
LEMMA ValidateGoes ==
    ASSUME NEW s \in Servers, NEW c \in Ids, NEW commit \in Live, Sound(commit)
    PROVE  GoesOn(s, Validate(s, c, commit), c, commit)
<1> DEFINE edits    == Pending(commit.batch)
           verified == commit.applied \cap Shown(s.source, commit)
           leaked   == Shown(s.source, commit) \
                         (commit.applied \cup Shown(commit.before, commit))
           undone   == \/ commit.status = "error"
                       \/ commit.applied \cap commit.failed # {}
                       \/ ~ commit.files /\ s.source # commit.before
           claimed  == [commit EXCEPT !.applied = IF @ = {} THEN edits ELSE @]
           goal(t)  == GoesOn(s, t, c, commit)
<1>1. goal(rollbackChangedFiles(s, c, commit)) /\ goal(Repair(s, c, commit))
  BY RollbackGoes, RepairGoes
<1>2. goal(Repair(s, c, claimed))
  <2>1. claimed \in Live /\ Alike(commit, claimed) /\ Sound(claimed)
    BY PendingEdits DEF Live, Alike, Sound
  <2> HIDE DEF claimed
  <2> QED BY <2>1, RepairGoes, GoesOnAlike
<1>3. ASSUME ~ undone, leaked = {}, verified = commit.applied,
             ~ (commit.files /\ ~ s.source.ok)
      PROVE  goal(clearAppliedEntries(s, c, commit, verified))
  <2>1. verified \in SUBSET Shown(s.source, commit)
    OBVIOUS
  <2>2. \/ s.source = commit.before
        \/ /\ s.source.ok
           /\ Shown(s.source, commit) \subseteq verified \cup Shown(commit.before, commit)
    BY <1>3
  <2> QED BY <2>1, <2>2, ClearGoes
<1>4. Validate(s, c, commit) =
        IF undone THEN rollbackChangedFiles(s, c, commit)
        ELSE IF commit.applied # {} /\ ~ commit.files THEN Repair(s, c, commit)
        ELSE IF leaked # {} THEN rollbackChangedFiles(s, c, commit)
        ELSE IF verified # commit.applied THEN Repair(s, c, commit)
        ELSE IF commit.files /\ ~ s.source.ok THEN Repair(s, c, claimed)
        ELSE clearAppliedEntries(s, c, commit, verified)
  BY DEF Validate
<1> HIDE DEF undone, leaked, verified, claimed, goal
<1> QED BY <1>1, <1>2, <1>3, <1>4 DEF goal

LEMMA RevalidateGoes ==
    ASSUME NEW s \in Servers, NEW c \in Ids, NEW commit \in Live, Sound(commit),
           commit.attempt > 0
    PROVE  GoesOn(s, Revalidate(s, c, commit), c, commit)
<1>1. CASE \/ ~ commit.applied \subseteq Shown(s.source, commit)
           \/ commit.files /\ ~ s.source.ok
  BY <1>1, RepairGoes DEF Revalidate
<1>2. CASE ~ (\/ ~ commit.applied \subseteq Shown(s.source, commit)
              \/ commit.files /\ ~ s.source.ok)
  <2>1. commit.applied \in SUBSET Shown(s.source, commit)
    BY <1>2
  <2>2. commit.attempt # 0
    BY DEF Live
  <2>3. GoesOn(s, clearAppliedEntries(s, c, commit, commit.applied), c, commit)
    BY <2>1, <2>2, ClearGoes
  <2> QED BY <1>2, <2>3 DEF Revalidate
<1> QED BY <1>1, <1>2

LEMMA ChunkedAlike ==
    ASSUME NEW commit \in Live, Sound(commit)
    PROVE  Chunked(commit) \in Live /\ Sound(Chunked(commit)) /\ Alike(commit, Chunked(commit))
<1>1. Pending(commit.batch) \ commit.applied \in SUBSET Edits
  BY PendingEdits
<1>2. <<>> \in Seq(SUBSET Edits) /\ DOMAIN <<>> = {}
  OBVIOUS
<1>3. Chunked(commit) \in Live /\ Chunked(commit).todo = <<>>
  BY <1>1, <1>2 DEF Chunked, Live
<1> QED BY <1>2, <1>3 DEF Chunked, Live, Alike, Sound

RepliesOf == [status : {"done", "partial", "error"}, applied : SUBSET Edits,
              failed : SUBSET Edits, files : BOOLEAN]

\* A reply that is waited for.
LEMMA ResolveGoes ==
    ASSUME NEW s \in Servers, NEW c \in Ids, s.commits[c] \in Live, Sound(s.commits[c]),
           NEW reply \in RepliesOf
    PROVE  GoesOn(s, resolveDeferred(s, c, reply), c, s.commits[c])
<1> DEFINE commit == s.commits[c]
           heard  == [commit EXCEPT !.files = @ \/ reply.files]
           claims == IF reply.status = "error" THEN {} ELSE reply.applied \ reply.failed
           chunk  == [heard EXCEPT !.applied = @ \cup claims]
           more   == [heard EXCEPT !.applied = @ \cup reply.applied]
           lone   == [heard EXCEPT !.applied = reply.applied, !.failed = reply.failed,
                                   !.status = reply.status]
           next   == [chunk EXCEPT !.todo = Tail(@)]
           t      == resolveDeferred(s, c, reply)
<1>0. commit \in Live /\ Sound(commit)
  OBVIOUS
<1>1. /\ t = (IF commit.attempt > 0 THEN Revalidate(s, c, more)
              ELSE IF ~ commit.chunked THEN Validate(s, c, lone)
              ELSE IF commit.todo = <<>> \/ reply.status = "error"
              THEN Validate(s, c, Chunked(chunk))
              ELSE pushApplyEvent(s, c, next, Head(commit.todo)))
  BY DEF resolveDeferred
<1> HIDE DEF commit, t
<1>2. heard \in Live /\ Sound(heard) /\ Alike(commit, heard)
      /\ heard.attempt = commit.attempt /\ heard.todo = commit.todo
  BY <1>0 DEF Live, Sound, Alike, RepliesOf
<1>c. claims \in SUBSET Edits
  BY DEF RepliesOf
<1> HIDE DEF heard, claims
<1>3. chunk \in Live /\ Sound(chunk) /\ Alike(commit, chunk) /\ chunk.todo = commit.todo
  BY <1>2, <1>c DEF Live, Sound, Alike
<1>4. more \in Live /\ Sound(more) /\ Alike(commit, more) /\ more.attempt = commit.attempt
  BY <1>2 DEF Live, Sound, Alike, RepliesOf
<1>5. lone \in Live /\ Sound(lone) /\ Alike(commit, lone)
  BY <1>2 DEF Live, Sound, Alike, RepliesOf
<1> HIDE DEF chunk, more, lone
<1>6. CASE commit.attempt > 0
  <2>1. GoesOn(s, Revalidate(s, c, more), c, more)
    BY <1>4, <1>6, RevalidateGoes
  <2> QED BY <1>1, <1>4, <1>6, <2>1, GoesOnAlike DEF t, commit
<1>7. CASE ~ (commit.attempt > 0) /\ ~ commit.chunked
  <2>1. GoesOn(s, Validate(s, c, lone), c, lone)
    BY <1>5, ValidateGoes
  <2> QED BY <1>1, <1>5, <1>7, <2>1, GoesOnAlike DEF t, commit
<1>8. CASE /\ ~ (commit.attempt > 0) /\ commit.chunked
           /\ commit.todo = <<>> \/ reply.status = "error"
  <2>1. Chunked(chunk) \in Live /\ Sound(Chunked(chunk)) /\ Alike(chunk, Chunked(chunk))
    BY <1>3, ChunkedAlike
  <2>2. Alike(commit, Chunked(chunk))
    BY <1>3, <2>1 DEF Alike
  <2>3. GoesOn(s, Validate(s, c, Chunked(chunk)), c, Chunked(chunk))
    BY <2>1, ValidateGoes
  <2> QED BY <1>1, <1>8, <2>2, <2>3, GoesOnAlike DEF t, commit
<1>9. CASE /\ ~ (commit.attempt > 0) /\ commit.chunked
           /\ ~ (commit.todo = <<>> \/ reply.status = "error")
  <2>1. commit.todo \in Seq(SUBSET Edits) /\ commit.todo # <<>>
    BY <1>0, <1>9 DEF Live
  <2>2. /\ Head(commit.todo) = commit.todo[1] /\ 1 \in DOMAIN commit.todo
        /\ Tail(commit.todo) \in Seq(SUBSET Edits)
        /\ \A i \in DOMAIN Tail(commit.todo) :
             i + 1 \in DOMAIN commit.todo /\ Tail(commit.todo)[i] = commit.todo[i + 1]
    BY <2>1
  <2>3. Head(commit.todo) \in SUBSET Pending(commit.batch)
    BY <1>0, <2>2 DEF Sound
  <2>4. \A i \in DOMAIN Tail(commit.todo) : Tail(commit.todo)[i] \subseteq Pending(commit.batch)
    BY <1>0, <2>2 DEF Sound
  <2>5. next \in Live /\ Alike(commit, next) /\ next.decide = chunk.decide
        /\ next.todo = Tail(commit.todo)
    BY <1>3, <2>2 DEF Live, Alike
  <2> HIDE DEF next
  <2>6. Sound(next) /\ Head(commit.todo) \in SUBSET Pending(next.batch)
    BY <1>3, <2>3, <2>4, <2>5 DEF Sound, Alike
  <2>7. GoesOn(s, pushApplyEvent(s, c, next, Head(commit.todo)), c, next)
    BY <2>5, <2>6, PushGoes
  <2> QED BY <1>1, <1>9, <2>5, <2>7, GoesOnAlike DEF t, commit
<1> QED BY <1>6, <1>7, <1>8, <1>9 DEF t, commit

\* No reply.
LEMMA RejectGoes ==
    ASSUME NEW s \in Servers, NEW c \in Ids, s.commits[c] \in Live, Sound(s.commits[c])
    PROVE  GoesOn(s, rejectDeferred(s, c), c, s.commits[c])
<1> DEFINE commit == s.commits[c]
           t == rejectDeferred(s, c)
<1>1. t = (IF commit.attempt > 0 THEN Repair(s, c, commit)
           ELSE IF ~ commit.chunked THEN rollbackChangedFiles(s, c, commit)
           ELSE Validate(s, c, Chunked(commit)))
  BY DEF rejectDeferred
<1>2. GoesOn(s, Repair(s, c, commit), c, commit)
  BY RepairGoes
<1>3. GoesOn(s, rollbackChangedFiles(s, c, commit), c, commit)
  BY RollbackGoes
<1>4. GoesOn(s, Validate(s, c, Chunked(commit)), c, commit)
  BY ChunkedAlike, ValidateGoes, GoesOnAlike
<1> HIDE DEF commit, t
<1> QED BY <1>1, <1>2, <1>3, <1>4 DEF commit, t

-------------------------------------------------------------------------------
(* Files and routes.                                                       *)

\* The source goes back to the transaction's, if an edit of it is staged.
LEMMA RolledBack ==
    ASSUME NEW s \in Servers
    PROVE  LET t == rollbackTransaction(s)
           IN  /\ t \in Servers /\ t.tx = None /\ t.staged = s.staged
               /\ t.commits = s.commits /\ t.queue = s.queue /\ t.timedOut = s.timedOut
               /\ \/ t.source = s.source
                  \/ s.tx \in Transactions /\ s.tx # None /\ t.source = s.tx.before
<1> DEFINE t == rollbackTransaction(s)
<1>1. CASE s.tx = None
  BY <1>1 DEF rollbackTransaction, Servers
<1>2. CASE s.tx # None
  <2> DEFINE source == IF s.tx.edits \cap Pending(s.staged) # {} THEN s.tx.before ELSE s.source
  <2>1. s.tx \in Transactions /\ s.tx.before \in Sources /\ s.source \in Sources
    BY <1>2 DEF Servers, Transactions
  <2>2. source \in Sources /\ (source = s.source \/ source = s.tx.before)
    BY <2>1
  <2> HIDE DEF source
  <2>3. t = [s EXCEPT !.tx = None, !.source = source]
    BY <1>2 DEF rollbackTransaction, source
  <2> HIDE DEF t
  <2>4. /\ t \in Servers /\ t.tx = None /\ t.staged = s.staged /\ t.source = source
        /\ t.commits = s.commits /\ t.queue = s.queue /\ t.timedOut = s.timedOut
    BY <2>2, <2>3 DEF Servers
  <2> QED BY <1>2, <2>1, <2>2, <2>4 DEF t
<1> QED BY <1>1, <1>2

\* What a commit that begins makes of the server, its transaction's source being
\* the commit's own.
Begun(s, t, c) ==
    /\ t \in Servers /\ t.timedOut = s.timedOut /\ t.staged = s.staged
    /\ \A d \in Ids : d # c => t.commits[d] = s.commits[d]
    /\ t.commits[c] \in Live /\ t.commits[c].batch = s.staged
    /\ t.commits[c].before = t.source /\ ~ t.commits[c].decide
    /\ \/ /\ Pending(s.staged) = {} /\ t.tx = None
          /\ t.commits[c].pc = "finishing" /\ t.queue = s.queue
       \/ /\ Pending(s.staged) # {} /\ t.commits[c].pc = "waiting" /\ Sound(t.commits[c])
          /\ t.tx \in Transactions /\ t.tx # None /\ t.tx.id = c /\ t.tx.before = t.source
          /\ t.commits[c].tx = c
          /\ \E edits \in SUBSET Pending(s.staged) :
               t.queue = s.queue \cup {[id |-> <<c, t.commits[c].sent>>, edits |-> edits,
                                        text |-> s.staged]}

LEMMA NewCommitLive ==
    ASSUME NEW s \in Servers, NEW transaction \in Ids \cup {None}
    PROVE  LET commit == NewCommit(s, transaction)
           IN  /\ commit \in Live /\ Sound(commit) /\ commit.tx = transaction
               /\ commit.batch = s.staged /\ commit.before = s.source
               /\ commit.sent = 0 /\ commit.todo = <<>> /\ commit.attempt = 0
<1> DEFINE commit == NewCommit(s, transaction)
<1>1. <<>> \in Seq(SUBSET Edits) /\ DOMAIN <<>> = {}
  OBVIOUS
<1>2. commit \in Live
  BY <1>1 DEF NewCommit, Live, Servers
<1> QED BY <1>1, <1>2 DEF NewCommit, Sound

LEMMA CommitBegins ==
    ASSUME NEW s \in Servers, NEW c \in Ids
    PROVE  /\ Begun(s, CommitStarted(s, c), c)
           /\ CommitStarted(s, c).source = rollbackTransaction(s).source
<1> DEFINE clean  == rollbackTransaction(s)
           chunks == splitManualApplyBatch(Pending(s.staged))
           t      == CommitStarted(s, c)
           fresh  == NewCommit(clean, c)
<1>1. /\ clean \in Servers /\ clean.tx = None /\ clean.staged = s.staged
      /\ clean.commits = s.commits /\ clean.queue = s.queue /\ clean.timedOut = s.timedOut
  BY RolledBack
<1> HIDE DEF clean
<1>2. /\ fresh \in Live /\ Sound(fresh) /\ fresh.tx = c /\ fresh.batch = s.staged
      /\ fresh.before = clean.source /\ fresh.sent = 0
  BY <1>1, NewCommitLive
<1> HIDE DEF fresh
<1>3. CASE Count(s) = 0
  <2>1. t = Finishing(clean, c, fresh)
    BY <1>3 DEF CommitStarted, clean, fresh
  <2>2. Pending(s.staged) = {}
    BY <1>3, Counted
  <2> HIDE DEF t
  <2>3. /\ Goes(clean, t, c, fresh)
        /\ t.commits[c].pc = "finishing" /\ t.commits[c].decide = fresh.decide
        /\ t.queue = clean.queue /\ t.staged = clean.staged /\ t.source = clean.source
    BY <1>1, <1>2, <2>1, FinishGoes
  <2> QED BY <1>1, <1>2, <2>2, <2>3 DEF Begun, Goes, Sound, t, clean
<1>4. CASE Count(s) # 0
  <2> DEFINE next == [fresh EXCEPT !.chunked = Len(chunks) > 1, !.todo = Tail(chunks)]
             tx   == [id |-> c, edits |-> Pending(s.staged), before |-> clean.source]
             r    == [clean EXCEPT !.tx = tx]
  <2>1. Pending(s.staged) # {} /\ Pending(s.staged) \in SUBSET Edits
    BY <1>4, Counted, PendingEdits
  <2>2. /\ Head(chunks) \in SUBSET Pending(s.staged) /\ Tail(chunks) \in Seq(SUBSET Edits)
        /\ \A i \in DOMAIN Tail(chunks) : Tail(chunks)[i] \subseteq Pending(s.staged)
    BY <2>1, Chunks
  <2>3. t = pushApplyEvent(r, c, next, Head(chunks))
    BY <1>1, <1>4 DEF CommitStarted, writeTransaction, clean, fresh
  <2> HIDE DEF chunks, t
  <2>m. (Len(chunks) > 1) \in BOOLEAN
    OBVIOUS
  <2>4. next \in Live /\ Alike(fresh, next) /\ next.todo = Tail(chunks) /\ ~ next.decide
    BY <1>2, <2>2, <2>m DEF Live, Alike, Sound
  <2> HIDE DEF next
  <2>5. Sound(next) /\ Head(chunks) \in SUBSET Pending(next.batch)
    BY <1>2, <2>2, <2>4 DEF Sound, Alike
  <2>6. tx \in Transactions /\ tx.id = c /\ tx.before = clean.source
    BY <1>1, <2>1 DEF Transactions, Servers
  <2> HIDE DEF tx
  <2>7. /\ r \in Servers /\ r.tx = tx /\ r.staged = s.staged /\ r.source = clean.source
        /\ r.commits = s.commits /\ r.queue = s.queue /\ r.timedOut = s.timedOut
    BY <1>1, <2>6 DEF Servers
  <2> HIDE DEF r
  <2>8. GoesOn(r, t, c, next)
    BY <2>3, <2>4, <2>5, <2>7, PushGoes
  <2>9. Pushed(r, t, c, next)
    <3>1. t = [r EXCEPT !.commits[c] = [next EXCEPT !.pc = "waiting", !.sent = @ + 1,
                                                       !.eventBefore = r.source],
                        !.queue = @ \cup {[id |-> <<c, next.sent + 1>>, edits |-> Head(chunks),
                                            text |-> next.batch]}]
      BY <2>3 DEF pushApplyEvent
    <3>2. t.commits[c].pc = "waiting"
      BY <3>1, <2>4, <2>7 DEF Servers, Live
    <3> QED BY <2>8, <3>2 DEF GoesOn, Finished
  <2>a. next.batch = s.staged /\ next.before = clean.source /\ next.tx = c
    BY <1>2, <2>4 DEF Alike
  <2> HIDE DEF clean, fresh
  <2>b. Goes(r, t, c, next)
    BY <2>8 DEF GoesOn
  <2>c. /\ t \in Servers /\ t.timedOut = s.timedOut /\ t.staged = s.staged /\ t.tx = tx
        /\ \A d \in Ids : d # c => t.commits[d] = s.commits[d]
        /\ t.commits[c] \in Live /\ t.commits[c].batch = s.staged
        /\ t.source = clean.source /\ t.commits[c].before = t.source /\ t.commits[c].tx = c
    BY <2>7, <2>9, <2>a, <2>b DEF Goes, Pushed
  <2>d. /\ t.commits[c].pc = "waiting" /\ Sound(t.commits[c])
        /\ \E edits \in SUBSET Pending(s.staged) :
             t.queue = s.queue \cup {[id |-> <<c, t.commits[c].sent>>, edits |-> edits,
                                      text |-> s.staged]}
    BY <2>7, <2>9, <2>a DEF Pushed
  <2>e. Begun(s, t, c)
    BY <2>1, <2>6, <2>c, <2>d, Constants DEF Begun, Sound
  <2> QED BY <2>c, <2>e DEF t, clean
<1> QED BY <1>3, <1>4


\* A commit whose event is given up.
Rejected(commit) == [commit EXCEPT !.pc = "rejected"]

LEMMA RejectedLive ==
    ASSUME NEW commit \in Live
    PROVE  /\ Rejected(commit) \in Live /\ Rejected(commit).pc = "rejected"
           /\ Rejected(commit).sent = commit.sent /\ Rejected(commit).tx = commit.tx
           /\ Sound(commit) => Sound(Rejected(commit))
BY DEF Rejected, Live, Sound

LEMMA WaitingLive ==
    ASSUME NEW s \in Servers, NEW c \in Waiting(s)
    PROVE  c \in Ids /\ s.commits[c] \in Live /\ s.commits[c].pc = "waiting"
BY LiveCommits DEF Waiting, Servers

\* An event runs out of time.
LEMMA TimedOut ==
    ASSUME NEW s \in Servers, NEW c \in Waiting(s)
    PROVE  LET t == [Tombstoned(s, c) EXCEPT !.commits[c].pc = "rejected"]
           IN  /\ t \in Servers /\ t.staged = s.staged /\ t.source = s.source /\ t.tx = s.tx
               /\ t.queue = {v \in s.queue : v.id # Awaited(s, c)}
               /\ t.commits[c] = Rejected(s.commits[c])
               /\ \A d \in Ids : d # c => t.commits[d] = s.commits[d]
<1> DEFINE t     == [Tombstoned(s, c) EXCEPT !.commits[c].pc = "rejected"]
           r     == Tombstoned(s, c)
           stone == [id |-> Awaited(s, c), before |-> s.commits[c].eventBefore]
           queue == {v \in s.queue : v.id # Awaited(s, c)}
<1>1. c \in Ids /\ s.commits[c] \in Live
  BY WaitingLive
<1>2. stone \in Tombs
  BY <1>1 DEF Tombs, EventIds, Awaited, Live
<1>3. queue \in SUBSET Events
  BY DEF Servers
<1>r. r = [s EXCEPT !.queue = queue, !.timedOut = @ \cup {stone}]
  BY DEF Tombstoned
<1> HIDE DEF stone, queue, r
<1>4. /\ r \in Servers /\ r.queue = queue /\ r.commits = s.commits /\ r.tx = s.tx
      /\ r.staged = s.staged /\ r.source = s.source
  BY <1>2, <1>3, <1>r DEF Servers
<1>5. t = [r EXCEPT !.commits = [@ EXCEPT ![c] = Rejected(r.commits[c])]]
  BY <1>4, <1>1 DEF Rejected, r
<1> HIDE DEF t
<1>6. Rejected(r.commits[c]) \in Commits
  BY <1>1, <1>4, RejectedLive DEF Commits
<1>7. /\ t \in Servers /\ t.queue = r.queue /\ t.tx = r.tx /\ t.staged = r.staged
      /\ t.source = r.source /\ t.commits[c] = Rejected(r.commits[c])
      /\ \A d \in Ids : d # c => t.commits[d] = r.commits[d]
  BY <1>1, <1>4, <1>5, <1>6 DEF Servers
<1> QED BY <1>4, <1>7 DEF t, queue

\* All events are given up.
LEMMA Cancelled ==
    ASSUME NEW s \in Servers, NEW last \in Waiting(s)
    PROVE  LET t == cancelPendingEvents(s, last)
           IN  /\ t \in Servers /\ t.staged = s.staged /\ t.tx = s.tx /\ t.queue = {}
               /\ \A d \in Ids : t.commits[d] = IF d \in Waiting(s) THEN Rejected(s.commits[d])
                                                ELSE s.commits[d]
<1> DEFINE t       == cancelPendingEvents(s, last)
           stones  == {[id |-> Awaited(s, c), before |-> s.commits[c].eventBefore] :
                         c \in Waiting(s)}
           commits == [d \in Ids |-> IF d \in Waiting(s) THEN Rejected(s.commits[d])
                                     ELSE s.commits[d]]
<1>1. stones \in SUBSET Tombs
  BY WaitingLive DEF Tombs, EventIds, Awaited, Live
<1>2. commits \in [Ids -> Commits]
  BY WaitingLive, RejectedLive DEF Servers, Commits
<1>3. s.commits[last].eventBefore \in Sources
  BY WaitingLive DEF Live
<1>4. t = [s EXCEPT !.queue = {}, !.source = s.commits[last].eventBefore,
                    !.timedOut = @ \cup stones, !.commits = commits]
  BY DEF cancelPendingEvents, Rejected
<1> HIDE DEF t, stones, commits
<1>5. /\ t \in Servers /\ t.staged = s.staged /\ t.tx = s.tx /\ t.queue = {}
      /\ t.commits = commits
  BY <1>1, <1>2, <1>3, <1>4 DEF Servers
<1> QED BY <1>5 DEF t, commits

\* A commit is over.
LEMMA CommitIsOver ==
    ASSUME NEW s \in Servers, NEW c \in Ids, s.commits[c] \in Live
    PROVE  LET commit == s.commits[c]
               t == [IF commit.decide THEN s ELSE clearTransaction(s, commit.tx)
                       EXCEPT !.commits[c] = Over]
           IN  /\ t \in Servers /\ t.staged = s.staged /\ t.source = s.source
               /\ t.queue = s.queue /\ t.timedOut = s.timedOut /\ t.commits[c] = Over
               /\ \A d \in Ids : d # c => t.commits[d] = s.commits[d]
               /\ t.tx = IF ~ commit.decide /\ s.tx # None /\ s.tx.id = commit.tx
                         THEN None ELSE s.tx
<1> DEFINE commit == s.commits[c]
           tx == IF ~ commit.decide /\ s.tx # None /\ s.tx.id = commit.tx THEN None ELSE s.tx
           r == IF commit.decide THEN s ELSE clearTransaction(s, commit.tx)
           t == [r EXCEPT !.commits[c] = Over]
<1>1. r = [s EXCEPT !.tx = tx]
  <2>1. s = [s EXCEPT !.tx = s.tx]
    BY DEF Servers
  <2> QED BY <2>1 DEF clearTransaction
<1>2. tx \in {None} \cup Transactions
  BY DEF Servers
<1> HIDE DEF r, tx
<1>3. /\ r \in Servers /\ r.tx = tx /\ r.staged = s.staged /\ r.source = s.source
      /\ r.queue = s.queue /\ r.timedOut = s.timedOut /\ r.commits = s.commits
  BY <1>1, <1>2 DEF Servers
<1>4. /\ t \in Servers /\ t.tx = r.tx /\ t.staged = r.staged /\ t.source = r.source
      /\ t.queue = r.queue /\ t.timedOut = r.timedOut /\ t.commits[c] = Over
      /\ \A d \in Ids : d # c => t.commits[d] = r.commits[d]
  BY <1>3 DEF Servers, Commits
<1> QED BY <1>3, <1>4 DEF t, r, tx

\* A new server.
LEMMA Restarted ==
    ASSUME NEW s \in Servers
    PROVE  LET r == [s EXCEPT !.queue = {}, !.timedOut = {},
                       !.commits = [c \in Ids |-> IF @[c] = NoCommit THEN NoCommit ELSE Over]]
               t == rollbackTransaction(r)
           IN  /\ t \in Servers /\ t.queue = {} /\ t.tx = None
               /\ \A c \in Ids : t.commits[c] = IF s.commits[c] = NoCommit THEN NoCommit ELSE Over
<1> DEFINE commits == [c \in Ids |-> IF s.commits[c] = NoCommit THEN NoCommit ELSE Over]
           r == [s EXCEPT !.queue = {}, !.timedOut = {}, !.commits = commits]
<1>1. commits \in [Ids -> Commits]
  BY DEF Commits
<1> HIDE DEF commits
<1>2. r \in Servers /\ r.queue = {} /\ r.commits = commits
  BY <1>1 DEF Servers
<1>3. r = [s EXCEPT !.queue = {}, !.timedOut = {},
                    !.commits = [c \in Ids |-> IF @[c] = NoCommit THEN NoCommit ELSE Over]]
  BY DEF commits
<1> HIDE DEF r
<1>4. LET t == rollbackTransaction(r) IN t \in Servers /\ t.tx = None /\ t.commits = commits
                                         /\ t.queue = {}
  BY <1>2, RolledBack
<1> QED BY <1>3, <1>4 DEF commits


\* A repair begins with the source as it is.
LEMMA RepairBegins ==
    ASSUME NEW s \in Servers, NEW c \in Ids, s.tx # None
    PROVE  LET t == IF Count(s) = 0 THEN Finishing(s, c, NewCommit(s, None))
                    ELSE Validate(s, c, [NewCommit(s, s.tx.id) EXCEPT
                                           !.applied = Pending(s.staged), !.files = TRUE])
           IN  \E commit \in Live :
                 /\ GoesOn(s, t, c, commit) /\ Sound(commit) /\ commit.sent = 0
                 /\ commit.batch = s.staged /\ commit.before = s.source
                 /\ Pending(s.staged) # {} => commit.tx = s.tx.id
                 /\ Pending(s.staged) = {} =>
                      /\ t.commits[c].pc = "finishing" /\ ~ t.commits[c].decide
                      /\ t.staged = s.staged /\ t.source = s.source
<1>1. CASE Count(s) = 0
  <2> DEFINE commit == NewCommit(s, None)
             t == Finishing(s, c, commit)
  <2>1. /\ commit \in Live /\ Sound(commit) /\ commit.tx = None /\ commit.batch = s.staged
        /\ commit.before = s.source /\ commit.sent = 0
    BY NewCommitLive
  <2> HIDE DEF commit
  <2>2. /\ Goes(s, t, c, commit)
        /\ t.commits[c].pc = "finishing" /\ t.commits[c].sent = commit.sent
        /\ t.commits[c].decide = commit.decide
        /\ t.queue = s.queue /\ t.staged = s.staged /\ t.source = s.source
    BY <2>1, FinishGoes
  <2> HIDE DEF t
  <2>3. GoesOn(s, t, c, commit) /\ ~ t.commits[c].decide
    BY <2>1, <2>2 DEF GoesOn, Finished, Sound
  <2>4. Pending(s.staged) = {}
    BY <1>1, Counted
  <2> QED BY <1>1, <2>1, <2>2, <2>3, <2>4 DEF t, commit
<1>2. CASE Count(s) # 0
  <2> DEFINE fresh  == NewCommit(s, s.tx.id)
             commit == [fresh EXCEPT !.applied = Pending(s.staged), !.files = TRUE]
  <2>1. s.tx.id \in Ids \cup {None}
    BY DEF Servers, Transactions
  <2>2. /\ fresh \in Live /\ Sound(fresh) /\ fresh.tx = s.tx.id /\ fresh.batch = s.staged
        /\ fresh.before = s.source /\ fresh.sent = 0
    BY <2>1, NewCommitLive
  <2> HIDE DEF fresh
  <2>3. commit \in Live /\ Alike(fresh, commit) /\ Sound(commit)
    BY <2>2, PendingEdits DEF Live, Alike, Sound
  <2>4. Pending(s.staged) # {}
    BY <1>2, Counted
  <2> HIDE DEF commit
  <2>5. GoesOn(s, Validate(s, c, commit), c, commit)
    BY <2>3, ValidateGoes
  <2> QED BY <1>2, <2>2, <2>3, <2>4, <2>5 DEF Alike, commit, fresh
<1> QED BY <1>1, <1>2

-------------------------------------------------------------------------------
(* The dock's operators.                                                   *)

LEMMA Counter ==
    ASSUME NEW p \in Pages, NEW n \in Counts
    PROVE  LET q == updatePendingCounter(p, n)
           IN  /\ q \in Pages /\ (q.locked => q.stored # None)
               /\ (p.locked \/ p.stored # None) /\ n > 0 => q.locked
               /\ q.stored = "decision" => p.stored = "decision"
               /\ q.locked => p.locked \/ p.stored # None
<1>1. 0 \in Counts /\ Counts \subseteq Nat
  BY Constants, FS_CardinalityType DEF Counts
<1>2. CASE n = 0
  <2>1. updatePendingCounter(p, n) = NewPage
    BY <1>2 DEF updatePendingCounter
  <2>2. NewPage \in Pages /\ ~ NewPage.locked /\ NewPage.stored # "decision"
    BY <1>1, Constants DEF NewPage, Pages
  <2> QED BY <1>1, <1>2, <2>1, <2>2
<1>3. CASE n # 0 /\ (p.locked \/ p.stored # None)
  <2> DEFINE q == [p EXCEPT !.locked = TRUE,
                            !.stored = IF @ = None THEN "applying" ELSE @, !.count = n]
  <2>1. updatePendingCounter(p, n) = q
    BY <1>3 DEF updatePendingCounter, Locked, Pages
  <2>2. q \in Pages /\ q.locked /\ q.stored = (IF p.stored = None THEN "applying" ELSE p.stored)
    BY DEF Pages
  <2> HIDE DEF q
  <2> QED BY <1>3, <2>1, <2>2, Constants
<1>4. CASE n # 0 /\ ~ (p.locked \/ p.stored # None)
  <2>1. updatePendingCounter(p, n) = [p EXCEPT !.count = n]
    BY <1>4 DEF updatePendingCounter
  <2> QED BY <1>4, <2>1, Constants DEF Pages
<1> QED BY <1>2, <1>3, <1>4

\* A message joins those that are under way.
Joined(messages, told, type, n) ==
    \A i \in DOMAIN told :
      \/ i \in DOMAIN messages /\ told[i] = messages[i]
      \/ told[i].type = type /\ told[i].count = n

LEMMA Told ==
    ASSUME NEW s \in Servers, NEW messages \in Seq(Messages),
           NEW type \in {"stashed", "started", "decide", "done", "rollback", "discarded"}
    PROVE  LET told == Append(messages, [type |-> type, count |-> Count(s)])
           IN  told \in Seq(Messages) /\ Joined(messages, told, type, Count(s))
<1> DEFINE m == [type |-> type, count |-> Count(s)]
<1>1. m \in Messages /\ m.type = type /\ m.count = Count(s)
  BY Counted DEF Messages
<1> HIDE DEF m
<1>2. Append(messages, m) \in Seq(Messages)
  BY <1>1
<1>3. ASSUME NEW i \in DOMAIN Append(messages, m)
      PROVE  \/ i \in DOMAIN messages /\ Append(messages, m)[i] = messages[i]
             \/ Append(messages, m)[i] = m
  OBVIOUS
<1> QED BY <1>1, <1>2, <1>3 DEF m, Joined

\* A message is handled; those behind it stay in order.
LEMMA Heard ==
    ASSUME Types, sse # <<>>
    PROVE  /\ Head(sse) \in Messages /\ Head(sse) = sse[1] /\ 1 \in DOMAIN sse
           /\ Tail(sse) \in Seq(Messages)
           /\ \A i \in DOMAIN Tail(sse) : i + 1 \in DOMAIN sse /\ Tail(sse)[i] = sse[i + 1]
           /\ Handled(Head(sse)) \in Pages
           /\ Handled(Head(sse)).locked => Handled(Head(sse)).stored # None
<1>1. /\ sse \in Seq(Messages) /\ page \in Pages /\ (page.locked => page.stored # None)
      /\ srv \in Servers
  BY DEF Types
<1>2. /\ Head(sse) \in Messages /\ Head(sse) = sse[1] /\ 1 \in DOMAIN sse
      /\ Tail(sse) \in Seq(Messages)
      /\ \A i \in DOMAIN Tail(sse) : i + 1 \in DOMAIN sse /\ Tail(sse)[i] = sse[i + 1]
  BY <1>1
<1> DEFINE m == Head(sse)
           Good(q) == q \in Pages /\ (q.locked => q.stored # None)
<1>3. m.count \in Counts /\ Count(srv) \in Counts /\ 0 \in Counts
      /\ m.type \in {"stashed", "started", "decide", "done", "rollback", "discarded"}
  BY <1>1, <1>2, Counted, Constants, FS_CardinalityType DEF Messages, Counts
<1> HIDE DEF m
<1>4. Good(NewPage) /\ Good(page) /\ Good([page EXCEPT !.stored = None, !.locked = FALSE])
  BY <1>1, <1>3 DEF NewPage, Pages
<1>5. CASE m.type = "stashed"
  <2>1. Good(updatePendingCounter(page, m.count))
    BY <1>1, <1>3, Counter
  <2> QED BY <1>2, <1>5, <2>1 DEF Handled, m
<1>6. CASE m.type = "started"
  <2>1. Good([page EXCEPT !.locked = TRUE, !.stored = "applying",
                           !.count = IF m.count > 0 THEN m.count ELSE @])
    BY <1>1, <1>3, Constants DEF Pages
  <2> QED BY <1>2, <1>6, <2>1 DEF Handled, m
<1>7. CASE m.type = "decide"
  <2>1. Good(showManualApplyDecision(page))
    BY <1>1, Constants DEF Pages, showManualApplyDecision
  <2> QED BY <1>2, <1>7, <2>1 DEF Handled, m
<1>8. CASE m.type = "done"
  <2>1. Good(updatePendingCounter(NewPage, m.count))
    BY <1>3, <1>4, Counter
  <2> QED BY <1>2, <1>8, <2>1 DEF Handled, m
<1>9. CASE m.type = "rollback"
  <2>1. Good(updatePendingCounter([page EXCEPT !.stored = None], Count(srv)))
    <3>1. [page EXCEPT !.stored = None] \in Pages
      BY <1>1 DEF Pages
    <3> QED BY <1>3, <3>1, Counter
  <2> QED BY <1>2, <1>9, <2>1 DEF Handled, m
<1>a. CASE m.type = "discarded"
  <2>1. Good(updatePendingCounter(page, Count(srv)))
    BY <1>1, <1>3, Counter
  <2> QED BY <1>2, <1>a, <2>1 DEF Handled, m
<1> QED BY <1>2, <1>3, <1>5, <1>6, <1>7, <1>8, <1>9, <1>a DEF m

-------------------------------------------------------------------------------
(* Types.                                                                  *)

\* What a server step that a commit takes makes of the commits.
LEMMA OpenLive ==
    ASSUME Types, EventInv, NEW c \in Ids, srv.commits[c].pc \in {"waiting", "rejected"}
    PROVE  srv.commits[c] \in Live /\ Sound(srv.commits[c])
BY LiveCommits DEF Types, Servers, EventInv, OpenIsSound

\* The reply of an agent, if a commit waits for it.
LEMMA ReplyGoes ==
    ASSUME Types, EventInv, NEW a \in Agents, AgentReplies(a)
    PROVE  \/ \E c \in Waiting(srv) : /\ Awaited(srv, c) = agent[a].id
                                      /\ GoesOn(srv, srv', c, srv.commits[c])
           \/ /\ \A c \in Waiting(srv) : Awaited(srv, c) # agent[a].id
              /\ \/ \E stone \in srv.timedOut : srv' = rollbackTimedOutReply(srv, stone)
                 \/ srv' = srv
<1> DEFINE awaiting == {c \in Waiting(srv) : Awaited(srv, c) = agent[a].id}
<1>1. CASE \E c \in awaiting, r \in Replies(agent[a].edits) : srv' = resolveDeferred(srv, c, r)
  <2>1. PICK c \in awaiting, r \in Replies(agent[a].edits) : srv' = resolveDeferred(srv, c, r)
    BY <1>1
  <2>2. agent[a].edits \in SUBSET Edits
    <3>1. agent[a] \in Work /\ agent[a] # Idle
      BY DEF AgentReplies, Types
    <3> QED BY <3>1 DEF Work
  <2>3. r \in RepliesOf
    BY <2>2 DEF Replies, RepliesOf
  <2>4. c \in Ids /\ c \in Waiting(srv) /\ srv.commits[c].pc = "waiting" /\ srv \in Servers
    BY DEF Waiting, Types
  <2>5. srv.commits[c] \in Live /\ Sound(srv.commits[c])
    BY <2>4, OpenLive
  <2>6. GoesOn(srv, srv', c, srv.commits[c])
    BY <2>1, <2>3, <2>4, <2>5, ResolveGoes
  <2> QED BY <2>6
<1>2. CASE awaiting = {} /\ \E stone \in {t \in srv.timedOut : t.id = agent[a].id} :
                              srv' = rollbackTimedOutReply(srv, stone)
  BY <1>2
<1>3. CASE awaiting = {} /\ UNCHANGED srv
  BY <1>3
<1> QED BY <1>1, <1>2, <1>3 DEF AgentReplies

\* A commit hears that there will be no reply.
LEMMA RejectionGoes ==
    ASSUME Types, EventInv, NEW c \in Ids, CommitRejected(c)
    PROVE  GoesOn(srv, srv', c, srv.commits[c]) /\ srv.commits[c] \in Live
<1>1. srv.commits[c] \in Live /\ Sound(srv.commits[c])
  BY OpenLive DEF CommitRejected
<1> QED BY <1>1, RejectGoes DEF CommitRejected, Types

\* Everything on the page is given up.
LEMMA Discards ==
    ASSUME Types, manualEditDiscard
    PROVE  /\ srv' \in Servers /\ srv'.staged = Nothing /\ srv'.tx = None
           /\ \A d \in Ids : srv'.commits[d] = IF d \in Waiting(srv) THEN Rejected(srv.commits[d])
                                               ELSE srv.commits[d]
           /\ IF Waiting(srv) = {} THEN srv'.queue = srv.queue ELSE srv'.queue = {}
<1> DEFINE r     == rollbackTransaction(srv)
           clean == [r EXCEPT !.staged = Nothing]
<1>1. r \in Servers /\ r.tx = None /\ r.commits = srv.commits /\ r.queue = srv.queue
  BY RolledBack DEF Types
<1> HIDE DEF r
<1>2. /\ clean \in Servers /\ clean.staged = Nothing /\ clean.tx = None
      /\ clean.commits = srv.commits /\ clean.queue = srv.queue
  BY <1>1, Constants DEF Servers
<1> HIDE DEF clean
<1>3. Waiting(clean) = Waiting(srv)
  BY <1>2 DEF Waiting
<1>4. \/ Waiting(srv) = {} /\ srv' = clean
      \/ \E c \in Waiting(srv) : srv' = cancelPendingEvents(clean, c)
  BY DEF manualEditDiscard, clean, r
<1>5. CASE Waiting(srv) = {} /\ srv' = clean
  BY <1>2, <1>5
<1>6. CASE \E c \in Waiting(srv) : srv' = cancelPendingEvents(clean, c)
  BY <1>2, <1>3, <1>6, Cancelled
<1> QED BY <1>4, <1>5, <1>6

\* A commit's last step.
LEMMA Finishes ==
    ASSUME Types, NEW c \in Ids, CommitFinishes(c)
    PROVE  /\ srv.commits[c] \in Live /\ c \in Running
           /\ srv' \in Servers /\ srv'.staged = srv.staged /\ srv'.source = srv.source
           /\ srv'.queue = srv.queue /\ srv'.commits[c] = Over
           /\ \A d \in Ids : d # c => srv'.commits[d] = srv.commits[d]
           /\ srv'.tx = IF /\ ~ srv.commits[c].decide
                          /\ srv.tx # None /\ srv.tx.id = srv.commits[c].tx
                       THEN None ELSE srv.tx
<1> DEFINE commit == srv.commits[c]
           t == [IF commit.decide THEN srv ELSE clearTransaction(srv, commit.tx)
                   EXCEPT !.commits[c] = Over]
<1>1. srv \in Servers /\ commit.pc = "finishing" /\ srv' = t
  BY DEF CommitFinishes, Types
<1>2. commit \in Live /\ c \in Running
  BY <1>1, LiveCommits DEF Running, Servers
<1>3. /\ t \in Servers /\ t.staged = srv.staged /\ t.source = srv.source
      /\ t.queue = srv.queue /\ t.commits[c] = Over
      /\ \A d \in Ids : d # c => t.commits[d] = srv.commits[d]
      /\ t.tx = IF ~ commit.decide /\ srv.tx # None /\ srv.tx.id = commit.tx
                THEN None ELSE srv.tx
  BY <1>1, <1>2, CommitIsOver
<1> HIDE DEF t
<1> QED BY <1>1, <1>2, <1>3

LEMMA TypesInit ==
    Init => Types
<1> SUFFICES ASSUME Init PROVE Types
  OBVIOUS
<1>1. srv \in Servers
  BY Constants DEF Init, Servers, Commits
<1>2. page \in Pages /\ ~ page.locked
  BY Constants, FS_CardinalityType DEF Init, Pages, NewPage, Counts
<1> QED BY <1>1, <1>2, Constants DEF Init, Types, Work, Nothing, Batches

\* The transaction is the same but for the edits it knows of.
SameTransaction(s, t) ==
    /\ t.tx = None <=> s.tx = None
    /\ s.tx # None => t.tx.id = s.tx.id /\ t.tx.before = s.tx.before

\* A save leaves everything but its entry.
LEMMA Entered ==
    ASSUME NEW s \in Servers, NEW e \in Edits, NEW text \in Texts
    PROVE  LET t == stageEntry(s, e, text)
           IN  /\ t \in Servers /\ SameTransaction(s, t)
               /\ t.staged = [s.staged EXCEPT ![e] = text] /\ t.source = s.source
               /\ t.commits = s.commits /\ t.queue = s.queue /\ t.timedOut = s.timedOut
<1> DEFINE tx     == IF s.tx # None /\ s.staged[e] = 0
                     THEN [s.tx EXCEPT !.edits = s.tx.edits \ {e}] ELSE s.tx
           staged == [s.staged EXCEPT ![e] = text]
           t      == [s EXCEPT !.staged = staged, !.tx = tx]
<1>1. staged \in Batches
  BY DEF Servers, Batches
<1>2. s.tx \in {None} \cup Transactions
  BY DEF Servers
<1>3. tx \in {None} \cup Transactions /\ (tx = None <=> s.tx = None)
      /\ (s.tx # None => tx.id = s.tx.id /\ tx.before = s.tx.before)
  BY <1>2, Constants DEF Transactions
<1>4. stageEntry(s, e, text) = t
  BY DEF stageEntry
<1> HIDE DEF tx, staged
<1>5. /\ t \in Servers /\ t.tx = tx /\ t.staged = staged /\ t.source = s.source
      /\ t.commits = s.commits /\ t.queue = s.queue /\ t.timedOut = s.timedOut
  BY <1>1, <1>3 DEF Servers
<1> QED BY <1>3, <1>4, <1>5 DEF SameTransaction, staged

\* The server's part of a step.
LEMMA ServersNext ==
    ASSUME Types, EventInv, [Next]_vars
    PROVE  srv' \in Servers
<1> USE DEF Types
<1>1. ASSUME NEW c \in Ids, manualEditCommit(c) PROVE srv' \in Servers
  BY <1>1, CommitBegins DEF manualEditCommit, Begun
<1>2. ASSUME NEW c \in Ids, manualEditRepair(c), srv.tx # None PROVE srv' \in Servers
  BY <1>2, RepairBegins DEF manualEditRepair, GoesOn, Goes
<1>3. ASSUME manualEditDiscard PROVE srv' \in Servers
  BY <1>3, Discards
<1>4. ASSUME onPendingRollbackClick PROVE srv' \in Servers
  BY <1>4, RolledBack DEF onPendingRollbackClick
<1>5. ASSUME NEW e \in Edits, StashArrives(e) PROVE srv' \in Servers
  <2>1. saving[e] \in Texts
    BY DEF Batches
  <2> QED BY <1>5, <2>1, Entered DEF StashArrives
<1>6. ASSUME NEW c \in Ids, CommitRejected(c) PROVE srv' \in Servers
  BY <1>6, RejectionGoes DEF GoesOn, Goes
<1>7. ASSUME NEW c \in Ids, CommitFinishes(c) PROVE srv' \in Servers
  BY <1>7, Finishes
<1>8. ASSUME NEW a \in Agents, PollEvent(a) PROVE srv' \in Servers
  BY <1>8 DEF PollEvent, Servers
<1>9. ASSUME NEW a \in Agents, AgentEdits(a) PROVE srv' \in Servers
  <2>1. agent[a] \in Work /\ agent[a] # Idle
    BY <1>9 DEF AgentEdits
  <2>2. agent[a].text \in Batches
    BY <2>1 DEF Work
  <2>3. PICK written \in SUBSET agent[a].edits, ok \in BOOLEAN :
          srv' = [srv EXCEPT !.source =
                    [text |-> [e \in Edits |-> IF e \in written THEN agent[a].text[e]
                                               ELSE @.text[e]], ok |-> ok]]
    BY <1>9 DEF AgentEdits
  <2> DEFINE text == [e \in Edits |-> IF e \in written THEN agent[a].text[e]
                                      ELSE srv.source.text[e]]
  <2>4. text \in Batches
    BY <2>2 DEF Batches, Servers, Sources
  <2> HIDE DEF text
  <2>5. [text |-> text, ok |-> ok] \in Sources
    BY <2>4, Constants DEF Sources
  <2>6. srv' = [srv EXCEPT !.source = [text |-> text, ok |-> ok]]
    BY <2>3 DEF text
  <2> QED BY <2>5, <2>6 DEF Servers
<1>a. ASSUME NEW a \in Agents, AgentReplies(a) PROVE srv' \in Servers
  <2>1. CASE \E c \in Waiting(srv) : GoesOn(srv, srv', c, srv.commits[c])
    BY <2>1 DEF GoesOn, Goes
  <2>2. CASE \E stone \in srv.timedOut : srv' = rollbackTimedOutReply(srv, stone)
    BY <2>2 DEF rollbackTimedOutReply, Servers, Tombs
  <2> QED BY <1>a, <2>1, <2>2, ReplyGoes
<1>b. ASSUME NEW c \in Ids, EventTimesOut(c) PROVE srv' \in Servers
  BY <1>b, TimedOut DEF EventTimesOut
<1>c. ASSUME Restart PROVE srv' \in Servers
  BY <1>c, Restarted DEF Restart
<1>d. ASSUME UNCHANGED srv PROVE srv' \in Servers
  BY <1>d
<1> QED BY <1>1, <1>2, <1>3, <1>4, <1>5, <1>6, <1>7, <1>8, <1>9, <1>a, <1>b, <1>c, <1>d
        DEF Next, vars, User, Server, AgentSteps, applyEditing, onPendingPillClick,
            onPendingKeepFixingClick, onPendingTrashClick, handleManualEditActivity,
            OtherTab, Reload


LEMMA OverType ==
    ASSUME Types, Overtakes \/ UNCHANGED trouble \/ \E kind \in Kinds : Suffers(kind)
    PROVE  trouble' \in {None, "late"} \cup Kinds
BY DEF Types, Overtakes, Suffers

LEMMA TypesNext ==
    ASSUME Types, EventInv, [Next]_vars
    PROVE  Types'
<1>s. srv \in Servers /\ srv' \in Servers
  BY ServersNext DEF Types
<1>c. Count(srv) \in Counts /\ Count(srv') \in Counts /\ Count(srv)' = Count(srv')
      /\ 0 \in Counts
  BY <1>s, Counted, Constants, FS_CardinalityType DEF Counts, Count
<1>p. page \in Pages /\ (page.locked => page.stored # None)
  BY DEF Types
<1> DEFINE Dock   == page' \in Pages /\ (page'.locked => page'.stored # None)
           Others == /\ agent' \in [Agents -> Work] /\ sse' \in Seq(Messages)
                     /\ saving' \in Batches /\ typed' \in Batches /\ wanted' \in Batches
           Kind   == trouble' \in {None, "late"} \cup Kinds
           Rest   == Dock /\ Others /\ Kind
<1>q. ASSUME NEW p \in Pages, NEW n \in Counts, page' = updatePendingCounter(p, n) PROVE Dock
  BY <1>q, Counter
<1>t. ASSUME NEW type \in {"stashed", "started", "decide", "done", "rollback", "discarded"},
             NEW s \in Servers, Tell(type, s)
      PROVE  sse' \in Seq(Messages)
  BY <1>t, Told DEF Types, Tell
<1>l. Locked(page) \in Pages /\ Locked(page).stored # None
      /\ [page EXCEPT !.locked = TRUE, !.stored = "applying"] \in Pages
      /\ NewPage \in Pages /\ ~ NewPage.locked
      /\ \A stored \in {None, "applying", "decision"} :
           [page EXCEPT !.stored = stored] \in Pages /\ [NewPage EXCEPT !.stored = stored] \in Pages
  BY <1>p, <1>c, Constants DEF Locked, Pages, NewPage
<1>1. ASSUME NEW c \in Ids, manualEditCommit(c), Dock, Overtakes \/ UNCHANGED trouble
             \/ \E kind \in Kinds : Suffers(kind)
      PROVE  Rest
  BY <1>1, <1>s, <1>t, OverType DEF manualEditCommit, Types
<1>2. ASSUME manualEditDiscard, Dock, Overtakes \/ UNCHANGED trouble
             \/ \E kind \in Kinds : Suffers(kind)
      PROVE  Rest
  BY <1>2, <1>s, <1>t, OverType, Constants DEF manualEditDiscard, Types
<1>3. ASSUME NEW c \in Ids, onPendingPillClick(c) PROVE Rest
  <2>1. Dock
    BY <1>3, <1>l DEF onPendingPillClick
  <2> QED BY <1>1, <1>3, <2>1 DEF onPendingPillClick
<1>4. ASSUME onPendingTrashClick PROVE Rest
  <2>1. Dock
    BY <1>4, <1>l DEF onPendingTrashClick
  <2> QED BY <1>2, <1>4, <2>1 DEF onPendingTrashClick
<1>5. ASSUME NEW c \in Ids, onPendingKeepFixingClick(c) PROVE Rest
  <2>1. Dock
    BY <1>5, <1>l, <1>p, Constants DEF onPendingKeepFixingClick, Pages
  <2>2. sse' \in Seq(Messages)
    BY <1>5, <1>s, <1>t DEF onPendingKeepFixingClick, manualEditRepair
  <2> QED BY <1>5, <2>1, <2>2, OverType DEF onPendingKeepFixingClick, Types
<1>6. ASSUME onPendingRollbackClick PROVE Rest
  <2>1. Dock
    BY <1>6, <1>l, <1>c, <1>q DEF onPendingRollbackClick
  <2>2. sse' \in Seq(Messages)
    BY <1>6, <1>s, <1>t DEF onPendingRollbackClick
  <2> QED BY <1>6, <2>1, <2>2, OverType DEF onPendingRollbackClick, Types
<1>7. ASSUME NEW e \in Edits, applyEditing(e) PROVE Rest
  <2>1. typed[e] + 1 \in Texts
    BY <1>7, Constants DEF applyEditing, Types, Batches, Texts
  <2> QED BY <1>7, <1>p, <2>1 DEF applyEditing, Types, Batches
<1>8. ASSUME NEW e \in Edits, StashArrives(e) PROVE Rest
  <2>1. Dock
    BY <1>8, <1>p, <1>c, <1>q DEF StashArrives
  <2>2. sse' \in Seq(Messages)
    BY <1>8, <1>s, <1>t DEF StashArrives
  <2>3. Kind
    BY <1>8, OverType DEF StashArrives, Kinds
  <2>4. saving' \in Batches /\ wanted' \in Batches
    BY <1>8, Constants DEF StashArrives, Types, Batches
  <2> QED BY <1>8, <2>1, <2>2, <2>3, <2>4 DEF StashArrives, Types
<1>9. ASSUME NEW c \in Ids, CommitRejected(c) PROVE Rest
  BY <1>9, <1>p DEF CommitRejected, Types
<1>a. ASSUME NEW c \in Ids, CommitFinishes(c) PROVE Rest
  <2>1. sse' \in Seq(Messages)
    BY <1>a, <1>s, <1>t DEF CommitFinishes
  <2> QED BY <1>a, <1>p, <2>1 DEF CommitFinishes, Types
<1>b. ASSUME handleManualEditActivity PROVE Rest
  BY <1>b, Heard DEF handleManualEditActivity, Types
<1>d. ASSUME NEW a \in Agents, PollEvent(a) PROVE Rest
  <2>1. PICK v \in srv.queue :
          agent' = [agent EXCEPT ![a] = [id |-> v.id, edits |-> v.edits, text |-> v.text,
                                         edited |-> FALSE]]
    BY <1>d DEF PollEvent
  <2>2. v \in Events
    BY <1>s DEF Servers
  <2>3. [id |-> v.id, edits |-> v.edits, text |-> v.text, edited |-> FALSE] \in Work
    BY <2>2 DEF Events, Work
  <2> QED BY <1>d, <1>p, <2>1, <2>3 DEF PollEvent, Types
<1>e. ASSUME NEW a \in Agents, AgentEdits(a) PROVE Rest
  <2>1. agent[a] \in Work /\ agent[a] # Idle
    BY <1>e DEF AgentEdits, Types
  <2>2. [agent[a] EXCEPT !.edited = TRUE] \in Work
    BY <2>1 DEF Work
  <2> QED BY <1>e, <1>p, <2>2 DEF AgentEdits, Types
<1>f. ASSUME NEW a \in Agents, AgentReplies(a) PROVE Rest
  BY <1>f, <1>p DEF AgentReplies, Types, Work
<1>g. ASSUME NEW c \in Ids, EventTimesOut(c) PROVE Rest
  BY <1>g, <1>p, OverType DEF EventTimesOut, Types, Kinds
<1>h. ASSUME OtherTab PROVE Rest
  <2>1. Dock
    BY <1>h, <1>p DEF OtherTab
  <2>2. \E kind \in Kinds : Suffers(kind)
    BY <1>h DEF OtherTab, Kinds
  <2> QED BY <1>h, <1>1, <1>2, <2>1, <2>2 DEF OtherTab
<1>i. ASSUME Reload PROVE Rest
  <2>1. Dock
    <3>1. page.stored \in {None, "applying", "decision"}
      BY <1>p DEF Pages
    <3> QED BY <1>i, <1>l, <1>c, <1>q, <3>1 DEF Reload
  <2>2. Kind
    BY <1>i, OverType DEF Reload, Kinds
  <2>3. <<>> \in Seq(Messages)
    OBVIOUS
  <2> QED BY <1>i, <2>1, <2>2, <2>3 DEF Reload, Types
<1>j. ASSUME Restart PROVE Rest
  <2>1. Count(srv) \in Counts
    BY <1>c
  <2>2. Dock
    BY <1>j, <1>l, <1>c, <1>q DEF Restart
  <2>3. Kind
    BY <1>j, OverType DEF Restart, Kinds
  <2>4. <<>> \in Seq(Messages)
    OBVIOUS
  <2> QED BY <1>j, <2>2, <2>3, <2>4, Constants DEF Restart, Types
<1>k. ASSUME UNCHANGED vars PROVE Rest
  BY <1>k, <1>p DEF vars, Types
<1>r. Rest
  BY <1>3, <1>4, <1>5, <1>6, <1>7, <1>8, <1>9, <1>a, <1>b, <1>d, <1>e, <1>f, <1>g, <1>h,
     <1>i, <1>j, <1>k
     DEF Next, User, Server, AgentSteps
<1> QED BY <1>s, <1>r DEF Types

-------------------------------------------------------------------------------
(* Events.                                                                 *)

\* The commit c goes from one event to the next, or needs none.
Moved(s, t, c) ==
    /\ \A d \in Ids : d # c => t.commits[d] = s.commits[d]
    /\ t.commits[c] \in Live
    /\ \/ /\ t.commits[c].pc = "finishing" /\ t.queue = s.queue
          /\ s.commits[c] \in Live => t.commits[c].sent = s.commits[c].sent
       \/ /\ t.commits[c].pc = "waiting" /\ Sound(t.commits[c])
          /\ s.commits[c] \in Live => t.commits[c].sent = s.commits[c].sent + 1
          /\ \E edits \in SUBSET Pending(t.commits[c].batch) :
               t.queue = s.queue \cup {[id |-> <<c, t.commits[c].sent>>, edits |-> edits,
                                        text |-> t.commits[c].batch]}

LEMMA GoesOnMoved ==
    ASSUME NEW s, NEW t, NEW c, NEW commit, GoesOn(s, t, c, commit),
           s.commits[c] = commit \/ s.commits[c] = NoCommit
    PROVE  Moved(s, t, c)
<1>1. NoCommit \notin Live
  BY DEF NoCommit, Live
<1>2. /\ \A d \in Ids : d # c => t.commits[d] = s.commits[d]
      /\ t.commits[c] \in Live /\ t.commits[c].batch = commit.batch
  BY DEF GoesOn, Goes
<1>3. CASE Pushed(s, t, c, commit)
  BY <1>1, <1>2, <1>3 DEF Moved, Pushed
<1>4. CASE Finished(s, t, c, commit)
  BY <1>1, <1>2, <1>4 DEF Moved, Finished
<1> QED BY <1>3, <1>4 DEF GoesOn

LEMMA BegunMoved ==
    ASSUME NEW s, NEW t, NEW c, Begun(s, t, c), s.commits[c] = NoCommit
    PROVE  Moved(s, t, c)
<1>1. NoCommit \notin Live
  BY DEF NoCommit, Live
<1> QED BY <1>1 DEF Begun, Moved

LEMMA RepairMoved ==
    ASSUME Types, NEW c \in Ids, manualEditRepair(c), srv.tx # None
    PROVE  srv.commits[c] = NoCommit /\ Moved(srv, srv', c)
<1> DEFINE t == IF Count(srv) = 0 THEN Finishing(srv, c, NewCommit(srv, None))
                ELSE Validate(srv, c, [NewCommit(srv, srv.tx.id) EXCEPT
                                         !.applied = Pending(srv.staged), !.files = TRUE])
<1>0. srv \in Servers
  BY DEF Types
<1>1. \E commit \in Live : GoesOn(srv, t, c, commit)
  BY <1>0, RepairBegins, Zenon
<1>2. srv' = t /\ srv.commits[c] = NoCommit
  BY DEF manualEditRepair, IsNext
<1> HIDE DEF t
<1> QED BY <1>1, <1>2, GoesOnMoved

\* The events after a commit has gone on.
LEMMA EventMoved ==
    ASSUME Types, Types', EventInv, NEW c \in Ids, Moved(srv, srv', c),
           srv.commits[c] = NoCommit \/ srv.commits[c] \in Live,
           \A v \in srv.queue : v.id[1] # c,
           \A a \in Agents : agent'[a] = Idle \/ agent'[a] = agent[a]
    PROVE  EventInv'
<1> DEFINE s == srv  t == srv'
<1>1. s \in Servers /\ t \in Servers /\ s.queue \subseteq Events /\ t.queue \subseteq Events
  BY DEF Types, Servers
<1>2. /\ \A d \in Ids : d # c => t.commits[d] = s.commits[d]
      /\ t.commits[c] \in Live /\ t.commits[c].pc \in {"waiting", "finishing"}
  BY DEF Moved
<1>3. \A d \in Ids : d # c /\ d \in Waiting(s) => d \in Waiting(t) /\ Awaited(t, d) = Awaited(s, d)
  BY <1>2 DEF Waiting, Awaited
<1>4. \A v \in s.queue : \E d \in Waiting(t) : v.id = Awaited(t, d) /\ EventOf(v, t.commits[d])
  <2> SUFFICES ASSUME NEW v \in s.queue
               PROVE  \E d \in Waiting(t) : v.id = Awaited(t, d) /\ EventOf(v, t.commits[d])
    OBVIOUS
  <2>1. PICK d \in Waiting(s) : v.id = Awaited(s, d) /\ EventOf(v, s.commits[d])
    BY DEF EventInv, Queued
  <2>2. d \in Ids /\ d # c
    BY <2>1 DEF Awaited, Waiting
  <2> QED BY <1>2, <1>3, <2>1, <2>2
<1>5. \A a \in Agents : agent'[a] # Idle =>
        /\ agent[a] # Idle /\ agent'[a] = agent[a]
        /\ agent[a].id \in EventIds /\ agent[a].id[1] \in Ids /\ agent[a].id[2] \in Nat
        /\ agent[a].id = <<agent[a].id[1], agent[a].id[2]>>
  BY DEF Types, Work, EventIds
<1>6. \A a \in Agents : agent'[a] # Idle /\ agent[a].id[1] = c =>
        /\ s.commits[c] \in Live /\ agent[a].id[2] <= s.commits[c].sent
  BY <1>5 DEF EventInv, Held
<1>7. s.commits[c] \in Live => s.commits[c].sent \in Nat
  BY DEF Live
<1>8. OpenIsSound'
  <2> SUFFICES ASSUME NEW d \in Ids, t.commits[d].pc \in {"waiting", "rejected"}
               PROVE  Sound(t.commits[d])
    BY DEF OpenIsSound
  <2> QED BY <1>2 DEF EventInv, OpenIsSound, Moved
<1>9. HeldOnce'
  BY <1>5 DEF EventInv, HeldOnce
<1>10. CASE t.commits[c].pc = "finishing" /\ t.queue = s.queue
             /\ (s.commits[c] \in Live => t.commits[c].sent = s.commits[c].sent)
  <2>1. Queued' /\ QueuedOnce'
    BY <1>4, <1>10 DEF Queued, QueuedOnce, EventInv
  <2>2. Held'
    <3> SUFFICES ASSUME NEW a \in Agents, agent'[a] # Idle
                 PROVE  /\ \A v \in t.queue : v.id # agent[a].id
                        /\ \A d \in Ids : agent[a].id[1] = d =>
                             /\ t.commits[d] # NoCommit
                             /\ t.commits[d] \in Live => agent[a].id[2] <= t.commits[d].sent
                             /\ d \in Waiting(t) /\ agent[a].id = Awaited(t, d)
                                  => EventOf(agent[a], t.commits[d])
      BY <1>5 DEF Held
    <3>1. \A v \in t.queue : v.id # agent[a].id
      BY <1>5, <1>10 DEF EventInv, Held
    <3>2. CASE agent[a].id[1] = c
      <4>1. c \notin Waiting(t)
        BY <1>10 DEF Waiting
      <4>2. t.commits[c] # NoCommit
        BY <1>10 DEF NoCommit
      <4> QED BY <1>6, <1>10, <3>1, <3>2, <4>1, <4>2
    <3>3. CASE agent[a].id[1] # c
      <4> SUFFICES ASSUME NEW d \in Ids, agent[a].id[1] = d
                   PROVE  /\ t.commits[d] # NoCommit
                          /\ t.commits[d] \in Live => agent[a].id[2] <= t.commits[d].sent
                          /\ d \in Waiting(t) /\ agent[a].id = Awaited(t, d)
                               => EventOf(agent[a], t.commits[d])
        BY <3>1
      <4>1. t.commits[d] = s.commits[d]
        BY <1>2, <3>3
      <4>2. d \in Waiting(t) => d \in Waiting(s) /\ Awaited(t, d) = Awaited(s, d)
        BY <4>1 DEF Waiting, Awaited
      <4> QED BY <1>5, <4>1, <4>2 DEF EventInv, Held
    <3> QED BY <3>2, <3>3
  <2> QED BY <1>8, <1>9, <2>1, <2>2 DEF EventInv
<1>11. CASE /\ t.commits[c].pc = "waiting" /\ Sound(t.commits[c])
            /\ s.commits[c] \in Live => t.commits[c].sent = s.commits[c].sent + 1
            /\ \E edits \in SUBSET Pending(t.commits[c].batch) :
                 t.queue = s.queue \cup {[id |-> <<c, t.commits[c].sent>>, edits |-> edits,
                                          text |-> t.commits[c].batch]}
  <2>1. PICK edits \in SUBSET Pending(t.commits[c].batch) :
          t.queue = s.queue \cup {[id |-> <<c, t.commits[c].sent>>, edits |-> edits,
                                   text |-> t.commits[c].batch]}
    BY <1>11
  <2> DEFINE new == [id |-> <<c, t.commits[c].sent>>, edits |-> edits,
                     text |-> t.commits[c].batch]
  <2>2. /\ t.queue = s.queue \cup {new} /\ new.id = Awaited(t, c) /\ new.id[1] = c
        /\ EventOf(new, t.commits[c]) /\ c \in Waiting(t) /\ new.id[2] = t.commits[c].sent
    BY <2>1, <1>11 DEF Awaited, EventOf, Waiting
  <2> HIDE DEF new
  <2>3. Queued'
    BY <1>4, <2>2 DEF Queued
  <2>4. QueuedOnce'
    BY <2>2 DEF QueuedOnce, EventInv
  <2>5. Held'
    <3> SUFFICES ASSUME NEW a \in Agents, agent'[a] # Idle
                 PROVE  /\ \A v \in t.queue : v.id # agent[a].id
                        /\ \A d \in Ids : agent[a].id[1] = d =>
                             /\ t.commits[d] # NoCommit
                             /\ t.commits[d] \in Live => agent[a].id[2] <= t.commits[d].sent
                             /\ d \in Waiting(t) /\ agent[a].id = Awaited(t, d)
                                  => EventOf(agent[a], t.commits[d])
      BY <1>5 DEF Held
    <3>0. \A v \in s.queue : v.id # agent[a].id
      BY <1>5 DEF EventInv, Held
    <3>2. CASE agent[a].id[1] = c
      <4>1. /\ agent[a].id[2] <= s.commits[c].sent /\ t.commits[c].sent = s.commits[c].sent + 1
            /\ s.commits[c].sent \in Nat /\ agent[a].id[2] \in Nat
        BY <1>5, <1>6, <1>7, <1>11, <3>2
      <4>2. agent[a].id[2] < t.commits[c].sent
        BY <4>1
      <4>3. agent[a].id # new.id /\ agent[a].id # Awaited(t, c)
        BY <2>2, <4>1, <4>2
      <4>4. t.commits[c] # NoCommit
        BY <1>11 DEF NoCommit
      <4> QED BY <1>7, <2>2, <3>0, <3>2, <4>1, <4>2, <4>3, <4>4
    <3>3. CASE agent[a].id[1] # c
      <4>0. \A v \in t.queue : v.id # agent[a].id
        BY <2>2, <3>0, <3>3
      <4> SUFFICES ASSUME NEW d \in Ids, agent[a].id[1] = d
                   PROVE  /\ t.commits[d] # NoCommit
                          /\ t.commits[d] \in Live => agent[a].id[2] <= t.commits[d].sent
                          /\ d \in Waiting(t) /\ agent[a].id = Awaited(t, d)
                               => EventOf(agent[a], t.commits[d])
        BY <4>0
      <4>1. t.commits[d] = s.commits[d]
        BY <1>2, <3>3
      <4>2. d \in Waiting(t) => d \in Waiting(s) /\ Awaited(t, d) = Awaited(s, d)
        BY <4>1 DEF Waiting, Awaited
      <4> QED BY <1>5, <4>1, <4>2 DEF EventInv, Held
    <3> QED BY <3>2, <3>3
  <2> QED BY <1>8, <1>9, <2>3, <2>4, <2>5 DEF EventInv
<1> QED BY <1>10, <1>11 DEF Moved

\* The commit c is not waiting any more, and nobody has its event yet.
Settled(s, t, c) ==
    /\ t.commits[c].pc # "waiting" /\ t.commits[c] # NoCommit
    /\ t.commits[c] \in Live => s.commits[c] \in Live /\ t.commits[c].sent = s.commits[c].sent
    /\ t.commits[c].pc = "rejected" => Sound(t.commits[c])
    /\ \A v \in t.queue : v.id[1] # c

\* The events after a step that sends none.
LEMMA EventCalm ==
    ASSUME Types, EventInv, srv'.queue \subseteq srv.queue,
           \A c \in Ids : srv'.commits[c] = srv.commits[c] \/ Settled(srv, srv', c),
           \A a \in Agents :
             \/ agent'[a] = Idle
             \/ /\ agent[a] # Idle /\ agent'[a].id = agent[a].id
                /\ agent'[a].edits = agent[a].edits /\ agent'[a].text = agent[a].text
    PROVE  EventInv'
<1> DEFINE s == srv  t == srv'
<1>1. \A c \in Ids : t.commits[c] = s.commits[c] =>
        /\ c \in Waiting(t) <=> c \in Waiting(s)
        /\ Awaited(t, c) = Awaited(s, c)
  BY DEF Waiting, Awaited
<1>2. Queued'
  <2> SUFFICES ASSUME NEW v \in t.queue
               PROVE  \E c \in Waiting(t) : v.id = Awaited(t, c) /\ EventOf(v, t.commits[c])
    BY DEF Queued
  <2>1. PICK c \in Waiting(s) : v.id = Awaited(s, c) /\ EventOf(v, s.commits[c])
    BY DEF EventInv, Queued
  <2>2. c \in Ids /\ v.id[1] = c
    BY <2>1 DEF Awaited, Waiting
  <2>3. t.commits[c] = s.commits[c]
    BY <2>2 DEF Settled
  <2> QED BY <1>1, <2>1, <2>2, <2>3
<1>3. QueuedOnce'
  BY DEF EventInv, QueuedOnce
<1>4. HeldOnce'
  BY DEF EventInv, HeldOnce
<1>5. OpenIsSound'
  BY DEF EventInv, OpenIsSound, Settled
<1>6. Held'
  <2> SUFFICES ASSUME NEW a \in Agents, agent'[a] # Idle
               PROVE  /\ \A v \in t.queue : v.id # agent'[a].id
                      /\ \A c \in Ids : agent'[a].id[1] = c =>
                           /\ t.commits[c] # NoCommit
                           /\ t.commits[c] \in Live => agent'[a].id[2] <= t.commits[c].sent
                           /\ c \in Waiting(t) /\ agent'[a].id = Awaited(t, c)
                                => EventOf(agent'[a], t.commits[c])
    BY DEF Held
  <2>1. /\ agent[a] # Idle /\ agent'[a].id = agent[a].id
        /\ agent'[a].edits = agent[a].edits /\ agent'[a].text = agent[a].text
    OBVIOUS
  <2>2. \A v \in t.queue : v.id # agent'[a].id
    BY <2>1 DEF EventInv, Held
  <2> SUFFICES ASSUME NEW c \in Ids, agent[a].id[1] = c
               PROVE  /\ t.commits[c] # NoCommit
                      /\ t.commits[c] \in Live => agent[a].id[2] <= t.commits[c].sent
                      /\ c \in Waiting(t) /\ agent[a].id = Awaited(t, c)
                           => EventOf(agent'[a], t.commits[c])
    BY <2>1, <2>2
  <2>3. /\ s.commits[c] # NoCommit
        /\ s.commits[c] \in Live => agent[a].id[2] <= s.commits[c].sent
        /\ c \in Waiting(s) /\ agent[a].id = Awaited(s, c) => EventOf(agent[a], s.commits[c])
    BY <2>1 DEF EventInv, Held
  <2>4. CASE t.commits[c] = s.commits[c]
    BY <1>1, <2>1, <2>3, <2>4 DEF EventOf
  <2>5. CASE Settled(s, t, c)
    BY <2>3, <2>5 DEF Settled, Waiting
  <2> QED BY <2>4, <2>5
<1> QED BY <1>2, <1>3, <1>4, <1>5, <1>6 DEF EventInv

LEMMA EventInit ==
    Init => EventInv
<1> SUFFICES ASSUME Init PROVE EventInv
  OBVIOUS
<1>1. Waiting(srv) = {} /\ srv.queue = {} /\ \A c \in Ids : srv.commits[c].pc = "none"
  BY DEF Init, Waiting, NoCommit
<1> QED BY <1>1 DEF Init, EventInv, Queued, QueuedOnce, Held, HeldOnce, OpenIsSound

\* Queued events are those of commits that wait.
LEMMA QueuedWaits ==
    ASSUME EventInv, NEW v \in srv.queue
    PROVE  v.id[1] \in Waiting(srv) /\ v.id = Awaited(srv, v.id[1])
BY DEF EventInv, Queued, Awaited

\* A commit that begins.
LEMMA EventBegins ==
    ASSUME Types, Types', EventInv, NEW c \in Ids, srv.commits[c] = NoCommit,
           Moved(srv, srv', c), UNCHANGED agent
    PROVE  EventInv'
<1>1. c \notin Waiting(srv)
  BY DEF Waiting, NoCommit
<1>2. \A v \in srv.queue : v.id[1] # c
  BY <1>1, QueuedWaits
<1> QED BY <1>2, EventMoved

\* The commits keep what they are.
LEMMA EventStays ==
    ASSUME Types, EventInv, srv'.queue = srv.queue, srv'.commits = srv.commits, UNCHANGED agent
    PROVE  EventInv'
BY EventCalm

LEMMA EventNext ==
    ASSUME Types, Types', EventInv, [Next]_vars
    PROVE  EventInv'
<1>s. srv \in Servers /\ \A c \in Ids : srv.commits[c] \in Commits
  BY DEF Types, Servers
<1>1. ASSUME NEW c \in Ids, manualEditCommit(c) PROVE EventInv'
  <2>1. srv.commits[c] = NoCommit /\ Begun(srv, srv', c) /\ UNCHANGED agent
    BY <1>1, <1>s, CommitBegins DEF manualEditCommit, IsNext
  <2> QED BY <2>1, BegunMoved, EventBegins
<1>2. ASSUME NEW c \in Ids, manualEditRepair(c), srv.tx # None, UNCHANGED agent PROVE EventInv'
  <2>1. srv.commits[c] = NoCommit /\ Moved(srv, srv', c)
    BY <1>2, RepairMoved
  <2> QED BY <1>2, <2>1, EventBegins
<1>3. ASSUME manualEditDiscard PROVE EventInv'
  <2>1. /\ \A d \in Ids : srv'.commits[d] = IF d \in Waiting(srv) THEN Rejected(srv.commits[d])
                                            ELSE srv.commits[d]
        /\ IF Waiting(srv) = {} THEN srv'.queue = srv.queue ELSE srv'.queue = {}
    BY <1>3, Discards
  <2>2. \A c \in Waiting(srv) : Settled(srv, srv', c)
    <3> SUFFICES ASSUME NEW c \in Waiting(srv) PROVE Settled(srv, srv', c)
      OBVIOUS
    <3>1. c \in Ids /\ srv.commits[c] \in Live /\ srv.commits[c].pc = "waiting"
      BY <1>s, WaitingLive
    <3>2. Sound(srv.commits[c])
      BY <3>1, OpenLive
    <3>3. srv'.commits[c] = Rejected(srv.commits[c]) /\ srv'.queue = {}
      BY <2>1, <3>1
    <3>4. /\ Rejected(srv.commits[c]) \in Live /\ Rejected(srv.commits[c]).pc = "rejected"
          /\ Rejected(srv.commits[c]).sent = srv.commits[c].sent
          /\ Sound(Rejected(srv.commits[c]))
      BY <3>1, <3>2, RejectedLive
    <3>5. NoCommit \notin Live
      BY DEF NoCommit, Live
    <3> QED BY <3>1, <3>3, <3>4, <3>5 DEF Settled
  <2>3. UNCHANGED agent /\ srv'.queue \subseteq srv.queue
    BY <1>3, <2>1 DEF manualEditDiscard
  <2> QED BY <2>1, <2>2, <2>3, EventCalm
<1>4. ASSUME onPendingRollbackClick PROVE EventInv'
  <2>1. srv'.queue = srv.queue /\ srv'.commits = srv.commits /\ UNCHANGED agent
    BY <1>4, <1>s, RolledBack DEF onPendingRollbackClick
  <2> QED BY <2>1, EventStays
<1>5. ASSUME NEW e \in Edits, StashArrives(e) PROVE EventInv'
  <2>1. srv'.queue = srv.queue /\ srv'.commits = srv.commits /\ UNCHANGED agent
    <3>1. saving[e] \in Texts
      BY DEF Types, Batches
    <3> QED BY <1>5, <1>s, <3>1, Entered DEF StashArrives
  <2> QED BY <2>1, EventStays
<1>6. ASSUME NEW c \in Ids, CommitRejected(c) PROVE EventInv'
  <2>1. Moved(srv, srv', c) /\ srv.commits[c] \in Live /\ UNCHANGED agent
    BY <1>6, RejectionGoes, GoesOnMoved DEF CommitRejected
  <2>2. c \notin Waiting(srv)
    BY <1>6 DEF CommitRejected, Waiting
  <2>3. \A v \in srv.queue : v.id[1] # c
    BY <2>2, QueuedWaits
  <2> QED BY <2>1, <2>3, EventMoved
<1>7. ASSUME NEW c \in Ids, CommitFinishes(c) PROVE EventInv'
  <2>1. srv.commits[c] \in Live /\ c \notin Waiting(srv) /\ UNCHANGED agent
    BY <1>7, <1>s, LiveCommits DEF CommitFinishes, Waiting
  <2>2. /\ srv'.queue = srv.queue /\ srv'.commits[c] = Over
        /\ \A d \in Ids : d # c => srv'.commits[d] = srv.commits[d]
    BY <1>7, Finishes
  <2>3. \A v \in srv.queue : v.id[1] # c
    BY <2>1, QueuedWaits
  <2>4. Settled(srv, srv', c)
    BY <2>2, <2>3 DEF Settled, Over, Live, NoCommit
  <2> QED BY <2>1, <2>2, <2>4, EventCalm
<1>8. ASSUME NEW a \in Agents, PollEvent(a) PROVE EventInv'
  <2>1. PICK v \in srv.queue :
          /\ agent' = [agent EXCEPT ![a] = [id |-> v.id, edits |-> v.edits, text |-> v.text,
                                            edited |-> FALSE]]
          /\ srv' = [srv EXCEPT !.queue = @ \ {v}]
    BY <1>8 DEF PollEvent
  <2> DEFINE s == srv  t == srv'
             work == [id |-> v.id, edits |-> v.edits, text |-> v.text, edited |-> FALSE]
  <2>2. t.queue = s.queue \ {v} /\ t.commits = s.commits
    BY <1>s, <2>1 DEF Servers
  <2>3. agent'[a] = work /\ \A b \in Agents : b # a => agent'[b] = agent[b]
    BY <2>1 DEF Types
  <2>4. /\ Waiting(t) = Waiting(s) /\ \A c \in Ids : Awaited(t, c) = Awaited(s, c)
    BY <2>2 DEF Waiting, Awaited
  <2>5. Queued' /\ QueuedOnce' /\ OpenIsSound'
    BY <2>2, <2>4 DEF EventInv, Queued, QueuedOnce, OpenIsSound, Waiting
  <2>6. PICK c \in Waiting(s) : v.id = Awaited(s, c) /\ EventOf(v, s.commits[c])
    BY DEF EventInv, Queued
  <2>7. HeldOnce'
    BY <2>3 DEF EventInv, HeldOnce, Held
  <2>8. Held'
    <3> SUFFICES ASSUME NEW b \in Agents, agent'[b] # Idle
                 PROVE  /\ \A w \in t.queue : w.id # agent'[b].id
                        /\ \A d \in Ids : agent'[b].id[1] = d =>
                             /\ t.commits[d] # NoCommit
                             /\ t.commits[d] \in Live => agent'[b].id[2] <= t.commits[d].sent
                             /\ d \in Waiting(t) /\ agent'[b].id = Awaited(t, d)
                                  => EventOf(agent'[b], t.commits[d])
      BY DEF Held
    <3>1. CASE b # a
      BY <2>2, <2>3, <2>4, <3>1 DEF EventInv, Held
    <3>2. CASE b = a
      <4>1. \A w \in t.queue : w.id # v.id
        BY <2>2 DEF EventInv, QueuedOnce
      <4>2. c \in Ids /\ s.commits[c] \in Live /\ v.id[1] = c /\ v.id[2] = s.commits[c].sent
        BY <1>s, <2>6, WaitingLive DEF Awaited
      <4>3. NoCommit \notin Live /\ s.commits[c].sent <= s.commits[c].sent
        BY <4>2 DEF NoCommit, Live
      <4>4. EventOf(work, s.commits[c])
        BY <2>6 DEF EventOf
      <4> HIDE DEF work
      <4>5. work.id = v.id
        BY DEF work
      <4> QED BY <2>2, <2>3, <2>4, <3>2, <4>1, <4>2, <4>3, <4>4, <4>5
    <3> QED BY <3>1, <3>2
  <2> QED BY <2>5, <2>7, <2>8 DEF EventInv
<1>9. ASSUME NEW a \in Agents, AgentEdits(a) PROVE EventInv'
  <2>1. srv'.queue = srv.queue /\ srv'.commits = srv.commits
    BY <1>9, <1>s DEF AgentEdits, Servers
  <2>2. agent[a] # Idle /\ agent[a] \in Work /\ agent' = [agent EXCEPT ![a].edited = TRUE]
    BY <1>9 DEF AgentEdits, Types
  <2>3. /\ agent'[a].id = agent[a].id /\ agent'[a].edits = agent[a].edits
        /\ agent'[a].text = agent[a].text
        /\ \A b \in Agents : b # a => agent'[b] = agent[b]
    BY <2>2 DEF Types, Work
  <2> QED BY <2>1, <2>2, <2>3, EventCalm
<1>a. ASSUME NEW a \in Agents, AgentReplies(a) PROVE EventInv'
  <2>1. /\ agent[a] # Idle /\ agent'[a] = Idle
        /\ \A b \in Agents : agent'[b] = Idle \/ agent'[b] = agent[b]
    BY <1>a DEF AgentReplies, Types
  <2>2. CASE \E c \in Waiting(srv) : /\ Awaited(srv, c) = agent[a].id
                                     /\ GoesOn(srv, srv', c, srv.commits[c])
    <3>1. PICK c \in Waiting(srv) : /\ Awaited(srv, c) = agent[a].id
                                    /\ GoesOn(srv, srv', c, srv.commits[c])
      BY <2>2
    <3>2. c \in Ids /\ srv.commits[c] \in Live /\ Moved(srv, srv', c)
      BY <1>s, <3>1, WaitingLive, GoesOnMoved
    <3>3. \A v \in srv.queue : v.id[1] # c
      <4> SUFFICES ASSUME NEW v \in srv.queue, v.id[1] = c PROVE FALSE
        OBVIOUS
      <4>1. v.id = agent[a].id
        BY <3>1, QueuedWaits
      <4> QED BY <2>1, <4>1 DEF EventInv, Held
    <3> QED BY <2>1, <3>2, <3>3, EventMoved
  <2>3. CASE (\E stone \in srv.timedOut : srv' = rollbackTimedOutReply(srv, stone)) \/ srv' = srv
    <3>1. srv'.queue = srv.queue /\ srv'.commits = srv.commits
      BY <1>s, <2>3 DEF rollbackTimedOutReply, Servers
    <3> QED BY <2>1, <3>1, EventCalm
  <2> QED BY <1>a, <2>2, <2>3, ReplyGoes
<1>b. ASSUME NEW c \in Ids, EventTimesOut(c) PROVE EventInv'
  <2>1. c \in Waiting(srv) /\ UNCHANGED agent
    BY <1>b DEF EventTimesOut
  <2>2. /\ srv'.queue = {v \in srv.queue : v.id # Awaited(srv, c)}
        /\ srv'.commits[c] = Rejected(srv.commits[c])
        /\ \A d \in Ids : d # c => srv'.commits[d] = srv.commits[d]
    BY <1>b, <1>s, <2>1, TimedOut DEF EventTimesOut
  <2>3. srv.commits[c] \in Live /\ Sound(srv.commits[c])
    BY <1>s, <2>1, WaitingLive, OpenLive
  <2>4. /\ Rejected(srv.commits[c]) \in Live /\ Rejected(srv.commits[c]).pc = "rejected"
        /\ Rejected(srv.commits[c]).sent = srv.commits[c].sent /\ Sound(Rejected(srv.commits[c]))
    BY <2>3, RejectedLive
  <2>5. \A v \in srv'.queue : v.id[1] # c
    BY <2>2, QueuedWaits
  <2>6. Settled(srv, srv', c)
    BY <2>2, <2>3, <2>4, <2>5 DEF Settled, Live, NoCommit
  <2>7. srv'.queue \subseteq srv.queue
    BY <2>2
  <2>8. \A d \in Ids : srv'.commits[d] = srv.commits[d] \/ Settled(srv, srv', d)
    BY <2>2, <2>6
  <2> QED BY <2>1, <2>7, <2>8, EventCalm
<1>c. ASSUME Restart PROVE EventInv'
  <2>1. /\ srv'.queue = {} /\ UNCHANGED agent
        /\ \A c \in Ids : srv'.commits[c] = IF srv.commits[c] = NoCommit THEN NoCommit ELSE Over
    BY <1>c, <1>s, Restarted DEF Restart
  <2>2. \A c \in Ids : srv'.commits[c] = srv.commits[c] \/ Settled(srv, srv', c)
    BY <2>1 DEF Settled, Over, Live, NoCommit
  <2> QED BY <2>1, <2>2, EventCalm
<1>d. ASSUME UNCHANGED <<srv, agent>> PROVE EventInv'
  BY <1>d, EventStays
<1> QED BY <1>1, <1>2, <1>3, <1>4, <1>5, <1>6, <1>7, <1>8, <1>9, <1>a, <1>b, <1>c, <1>d
        DEF Next, vars, User, Server, AgentSteps, applyEditing, onPendingPillClick,
            onPendingKeepFixingClick, onPendingTrashClick, handleManualEditActivity,
            OtherTab, Reload

-------------------------------------------------------------------------------
(* The dock.                                                               *)

LEMMA QuietBefore ==
    ASSUME [Next]_vars, Quiet'
    PROVE  Quiet
BY Constants
   DEF Next, vars, User, Server, AgentSteps, applyEditing, onPendingPillClick,
       onPendingKeepFixingClick, onPendingTrashClick, onPendingRollbackClick, Overtakes,
       handleManualEditActivity, OtherTab, Reload, Restart, StashArrives, CommitRejected,
       CommitFinishes, EventTimesOut, PollEvent, AgentEdits, AgentReplies, Suffers, Quiet

\* The user is not faster than the messages.
LEMMA Heeded ==
    ASSUME Types, Overtakes, Quiet'
    PROVE  NoEndUnderWay
<1>1. sse \in Seq(Messages)
  BY DEF Types
<1>2. ToSet(sse) = {sse[i] : i \in DOMAIN sse}
  BY DEF ToSet
<1> QED BY <1>2 DEF Overtakes, Quiet, NoEndUnderWay, Ends

\* A user who may click while the server is free finds no commit running.
LEMMA NoneRuns ==
    ASSUME Free, Covered, ~ page.locked
    PROVE  Running = {}
BY DEF Free, Covered, Running, Guarded

\* A message that says nothing of an outcome.
LEMMA NoEnd ==
    ASSUME Types, NEW s \in Servers, NoEndUnderWay,
           NEW type \in {"stashed", "started", "rollback", "discarded"}, Tell(type, s)
    PROVE  NoEndUnderWay'
<1>1. Joined(sse, sse', type, Count(s))
  BY Told DEF Tell, Types
<1> QED BY <1>1 DEF NoEndUnderWay, Ends, Joined

\* Nobody is asked anything unless a message or the page says so.
LEMMA NotAsked ==
    ASSUME NoEndUnderWay, page.stored # "decision"
    PROVE  ~ Asked
BY DEF NoEndUnderWay, Asked, Ends

LEMMA CoveredIdle ==
    ASSUME Running = {}, NoEndUnderWay, page.stored # "decision"
    PROVE  Covered
BY NotAsked DEF Covered

\* A commit begins and the page locks.
LEMMA CoveredBegins ==
    ASSUME Types, Running = {}, NoEndUnderWay, NEW c \in Ids, Tell("started", srv),
           \A d \in Ids : d # c => srv'.commits[d] = srv.commits[d],
           page'.locked, page'.stored # "decision",
           srv'.commits[c].pc # "finishing" => Guarded(c)',
           srv'.commits[c].pc = "finishing" /\ srv'.commits[c].decide => srv'.tx # None
    PROVE  Covered'
<1>1. NoEndUnderWay'
  BY NoEnd DEF Types
<1>2. ~ Asked'
  BY <1>1 DEF NoEndUnderWay, Asked, Ends
<1>3. \A d \in Running' : d = c
  BY DEF Running
<1> QED BY <1>1, <1>2, <1>3 DEF Covered, Alone

\* The commit that runs goes on.
LEMMA CoveredGoes ==
    ASSUME Types, Types', Covered, NEW c \in Ids, srv.commits[c].pc \in {"waiting", "rejected"},
           GoesOn(srv, srv', c, srv.commits[c]), UNCHANGED <<page, sse>>
    PROVE  Covered'
<1> DEFINE s == srv  t == srv'
<1>1. /\ \A d \in Ids : d # c => t.commits[d] = s.commits[d]
      /\ t.commits[c].pc \in {"waiting", "finishing"} /\ t.tx = s.tx
      /\ t.commits[c].tx = s.commits[c].tx
      /\ t.commits[c].pc = "waiting" => t.staged = s.staged
  BY DEF GoesOn, Goes, Pushed, Finished
<1>2. c \in Running /\ Alone(c) /\ Guarded(c)
  BY DEF Running, Covered
<1>3. Running' = Running
  BY <1>1, <1>2 DEF Running
<1>4. Alone(c)' /\ Asked' = Asked
  BY <1>2, <1>3 DEF Alone, NoEndUnderWay, Asked
<1>5. \A d \in Running : d = c
  BY <1>2 DEF Alone
<1>6. t.commits[c].pc # "finishing" => Guarded(c)'
  BY <1>1, <1>2 DEF Guarded
<1> QED BY <1>1, <1>2, <1>3, <1>4, <1>5, <1>6 DEF Covered, Guarded

\* Commits stay as they are, or an event of one is given up.
LEMMA CoveredStays ==
    ASSUME Covered, SameTransaction(srv, srv'),
           Pending(srv.staged) # {} => Pending(srv'.staged) # {},
           \A c \in Ids : \/ srv'.commits[c] = srv.commits[c]
                          \/ /\ srv.commits[c].pc = "waiting" /\ srv'.commits[c].pc = "rejected"
                             /\ srv'.commits[c].tx = srv.commits[c].tx,
           page'.stored = "decision" => page.stored = "decision",
           page.locked /\ Pending(srv.staged) # {} => page'.locked,
           \A i \in DOMAIN sse' : Ends(sse'[i]) => \E j \in DOMAIN sse : sse'[i] = sse[j]
    PROVE  Covered'
<1>1. Running' = Running
  BY DEF Running
<1>2. NoEndUnderWay => NoEndUnderWay'
  BY DEF NoEndUnderWay
<1>3. Asked' => Asked
  BY DEF Asked, Ends
<1>4. \A c \in Running : Alone(c)'
  BY <1>1, <1>2 DEF Covered, Alone
<1>5. \A c \in Running : srv'.commits[c].pc # "finishing" => Guarded(c)'
  <2> SUFFICES ASSUME NEW c \in Running, srv'.commits[c].pc # "finishing"
               PROVE  Guarded(c)'
    OBVIOUS
  <2>1. Guarded(c) /\ srv'.commits[c].tx = srv.commits[c].tx
    BY DEF Covered, Running
  <2> QED BY <2>1 DEF Guarded, SameTransaction
<1>6. \A c \in Running : srv'.commits[c].pc = "finishing" /\ srv'.commits[c].decide
                           => srv'.tx # None
  BY DEF Covered, Running, SameTransaction
<1> QED BY <1>1, <1>3, <1>4, <1>5, <1>6 DEF Covered, SameTransaction

LEMMA DockInit ==
    Init => DockInv
<1> SUFFICES ASSUME Init PROVE DockInv
  OBVIOUS
<1>1. sse = <<>> /\ DOMAIN sse = {} /\ page.stored # "decision"
  BY Constants DEF Init, NewPage
<1>2. Running = {}
  BY DEF Init, Running, NoCommit
<1> QED BY <1>1, <1>2, CoveredIdle DEF DockInv, StashesCount, NoEndUnderWay

\* What a save leaves is staged.
LEMMA Saved ==
    ASSUME Types, Types', NEW e \in Edits, StashArrives(e)
    PROVE  /\ Count(srv') > 0 /\ Count(srv') \in Counts /\ Pending(srv'.staged) # {}
           /\ srv'.staged = [srv.staged EXCEPT ![e] = saving[e]]
           /\ SameTransaction(srv, srv') /\ srv'.commits = srv.commits
           /\ srv'.source = srv.source /\ srv'.queue = srv.queue
<1>1. srv' = stageEntry(srv, e, saving[e]) /\ saving[e] # 0
  BY DEF StashArrives
<1>2. srv \in Servers /\ srv' \in Servers /\ saving[e] \in Texts
  BY DEF Types, Batches
<1>3. /\ srv'.staged = [srv.staged EXCEPT ![e] = saving[e]]
      /\ SameTransaction(srv, srv') /\ srv'.commits = srv.commits
      /\ srv'.source = srv.source /\ srv'.queue = srv.queue
  BY <1>1, <1>2, Entered
<1>4. e \in Pending(srv'.staged)
  BY <1>1, <1>2, <1>3 DEF Pending, Servers, Batches
<1>5. Count(srv') \in Counts /\ Count(srv') # 0
  BY <1>2, <1>4, Counted
<1>6. Count(srv') > 0
  BY <1>5, FS_CardinalityType, Constants DEF Counts
<1> QED BY <1>3, <1>4, <1>5, <1>6

LEMMA StashesNext ==
    ASSUME Types, Types', StashesCount, [Next]_vars
    PROVE  StashesCount'
<1>s. srv \in Servers /\ srv' \in Servers /\ sse \in Seq(Messages)
  BY DEF Types
<1>1. ASSUME NEW s \in Servers,
             NEW type \in {"stashed", "started", "decide", "done", "rollback", "discarded"},
             type = "stashed" => Count(s) > 0, Tell(type, s)
      PROVE  StashesCount'
  <2>1. Joined(sse, sse', type, Count(s))
    BY <1>1, <1>s, Told DEF Tell
  <2> QED BY <1>1, <2>1 DEF StashesCount, Joined
<1>2. ASSUME NEW c \in Ids, manualEditCommit(c) PROVE StashesCount'
  BY <1>1, <1>2, <1>s DEF manualEditCommit
<1>3. ASSUME NEW c \in Ids, manualEditRepair(c) PROVE StashesCount'
  BY <1>1, <1>3, <1>s DEF manualEditRepair
<1>4. ASSUME manualEditDiscard PROVE StashesCount'
  BY <1>1, <1>4, <1>s DEF manualEditDiscard
<1>5. ASSUME onPendingRollbackClick PROVE StashesCount'
  BY <1>1, <1>5, <1>s DEF onPendingRollbackClick
<1>6. ASSUME NEW e \in Edits, StashArrives(e) PROVE StashesCount'
  BY <1>1, <1>6, <1>s, Saved DEF StashArrives
<1>7. ASSUME NEW c \in Ids, CommitFinishes(c) PROVE StashesCount'
  <2>1. Tell("decide", srv) \/ Tell("done", srv)
    BY <1>7 DEF CommitFinishes
  <2> QED BY <1>1, <1>s, <2>1
<1>8. ASSUME handleManualEditActivity PROVE StashesCount'
  <2>1. sse' = Tail(sse) /\ sse # <<>>
    BY <1>8 DEF handleManualEditActivity
  <2>2. \A i \in DOMAIN sse' : i + 1 \in DOMAIN sse /\ sse'[i] = sse[i + 1]
    BY <1>s, <2>1
  <2> QED BY <2>2 DEF StashesCount
<1>9. ASSUME sse' = <<>> PROVE StashesCount'
  BY <1>9 DEF StashesCount
<1>10. ASSUME UNCHANGED sse PROVE StashesCount'
  BY <1>10 DEF StashesCount
<1> QED BY <1>2, <1>3, <1>4, <1>5, <1>6, <1>7, <1>8, <1>9, <1>10
        DEF Next, vars, User, Server, AgentSteps, applyEditing, onPendingPillClick,
            onPendingKeepFixingClick, onPendingTrashClick, OtherTab, Reload, Restart,
            CommitRejected, EventTimesOut, PollEvent, AgentEdits, AgentReplies

\* A message handled by the dock.
LEMMA CoveredHandled ==
    ASSUME Types, Types', StashesCount, Covered, handleManualEditActivity
    PROVE  Covered'
<1> DEFINE m == Head(sse)
           s == srv
<1>1. /\ srv \in Servers /\ page \in Pages /\ sse \in Seq(Messages) /\ sse # <<>>
      /\ srv' = srv /\ page' = Handled(m) /\ sse' = Tail(sse)
  BY DEF Types, handleManualEditActivity
<1>2. m \in Messages /\ m = sse[1] /\ 1 \in DOMAIN sse
  BY <1>1
<1>3. \A i \in DOMAIN sse' : i + 1 \in DOMAIN sse /\ sse'[i] = sse[i + 1]
  BY <1>1
<1>4. /\ m.count \in Counts /\ (m.type = "stashed" => m.count > 0)
      /\ m.type \in {"stashed", "started", "decide", "done", "rollback", "discarded"}
  BY <1>2 DEF Messages, StashesCount
<1>5. Count(srv) \in Counts /\ (Pending(srv.staged) # {} => Count(srv) > 0)
  <2>1. Count(srv) \in Counts /\ (Count(srv) = 0 <=> Pending(srv.staged) = {})
    BY <1>1, Counted
  <2>2. Count(srv) \in Nat
    BY <2>1, FS_CardinalityType, Constants DEF Counts
  <2> QED BY <2>1, <2>2
<1> HIDE DEF m
<1>6. ASSUME page'.stored = "decision" => page.stored = "decision",
             page.locked /\ Pending(srv.staged) # {} => page'.locked
      PROVE  Covered'
  <2>1. \A i \in DOMAIN sse' : Ends(sse'[i]) => \E j \in DOMAIN sse : sse'[i] = sse[j]
    BY <1>3
  <2> QED BY <1>1, <1>6, <2>1, CoveredStays DEF SameTransaction
<1>7. CASE m.type = "stashed"
  <2>1. page' = updatePendingCounter(page, m.count)
    BY <1>1, <1>7 DEF Handled
  <2> QED BY <1>1, <1>4, <1>6, <1>7, <2>1, Counter
<1>8. CASE m.type = "started"
  <2>1. page'.locked /\ page'.stored = "applying"
    BY <1>1, <1>8 DEF Handled, Pages
  <2> QED BY <1>6, <2>1
<1>9. CASE m.type = "decide"
  <2>1. ~ NoEndUnderWay /\ Asked
    BY <1>2, <1>9 DEF NoEndUnderWay, Asked, Ends
  <2>2. Running = {} /\ srv.tx # None
    BY <2>1 DEF Covered, Alone
  <2> QED BY <1>1, <2>2 DEF Covered, Running
<1>10. CASE m.type = "done"
  <2>1. ~ NoEndUnderWay
    BY <1>2, <1>10 DEF NoEndUnderWay, Ends
  <2>2. Running = {}
    BY <2>1 DEF Covered, Alone
  <2>3. page' = updatePendingCounter(NewPage, m.count)
    BY <1>1, <1>10 DEF Handled
  <2>4. NewPage \in Pages /\ NewPage.stored = None
    BY FS_CardinalityType, Constants DEF NewPage, Pages, Counts
  <2>5. page'.stored # "decision"
    BY <1>4, <2>3, <2>4, Counter, Constants
  <2>6. Asked' => Asked
    BY <1>3, <2>5 DEF Asked
  <2> QED BY <1>1, <2>2, <2>6 DEF Covered, Running
<1>11. CASE m.type = "rollback"
  <2> DEFINE p == [page EXCEPT !.stored = None]
  <2>1. page' = updatePendingCounter(p, Count(srv))
    BY <1>1, <1>11 DEF Handled
  <2>2. p \in Pages /\ p.stored = None /\ p.locked = page.locked
    BY <1>1 DEF Pages
  <2> HIDE DEF p
  <2> QED BY <1>5, <1>6, <2>1, <2>2, Counter, Constants
<1>12. CASE m.type = "discarded"
  <2>1. page' = updatePendingCounter(page, Count(srv))
    BY <1>1, <1>12 DEF Handled
  <2> QED BY <1>1, <1>5, <1>6, <2>1, Counter
<1> QED BY <1>4, <1>7, <1>8, <1>9, <1>10, <1>11, <1>12

LEMMA CoveredNext ==
    ASSUME Types, Types', EventInv, StashesCount, Quiet', Covered, [Next]_vars
    PROVE  Covered'
<1>s. /\ srv \in Servers /\ srv' \in Servers /\ page \in Pages /\ sse \in Seq(Messages)
      /\ page.locked => page.stored # None
  BY DEF Types
<1>n. Count(srv) \in Counts /\ (Pending(srv.staged) # {} => Count(srv) > 0)
  <2>1. Count(srv) \in Counts /\ (Count(srv) = 0 <=> Pending(srv.staged) = {})
    BY <1>s, Counted
  <2>2. Count(srv) \in Nat
    BY <2>1, FS_CardinalityType, Constants DEF Counts
  <2> QED BY <2>1, <2>2
<1>p. NewPage \in Pages /\ ~ NewPage.locked /\ NewPage.stored = None
  BY FS_CardinalityType, Constants DEF NewPage, Pages, Counts
<1>u. ASSUME srv'.tx = srv.tx, srv'.staged = srv.staged, srv'.commits = srv.commits,
             UNCHANGED <<page, sse>>
      PROVE  Covered'
  BY <1>u, CoveredStays DEF SameTransaction
<1>1. ASSUME NEW c \in Ids, onPendingPillClick(c) PROVE Covered'
  <2>1. /\ IsNext(c) /\ Free /\ ~ page.locked /\ page.stored = None /\ Overtakes
        /\ page' = Locked(page) /\ Tell("started", srv) /\ Begun(srv, srv', c)
    BY <1>1, <1>s, CommitBegins DEF onPendingPillClick, manualEditCommit, IsNext
  <2>2. Running = {} /\ NoEndUnderWay
    BY <2>1, NoneRuns, Heeded
  <2>3. page'.locked /\ page'.stored = "applying"
    BY <1>s, <2>1 DEF Locked, Pages
  <2>4. /\ \A d \in Ids : d # c => srv'.commits[d] = srv.commits[d]
        /\ ~ srv'.commits[c].decide
        /\ srv'.commits[c].pc # "finishing" =>
             /\ srv'.tx # None /\ srv'.tx.id = srv'.commits[c].tx
             /\ Pending(srv'.staged) # {}
    BY <2>1 DEF Begun
  <2>5. srv'.commits[c].pc # "finishing" => Guarded(c)'
    BY <2>3, <2>4 DEF Guarded
  <2> QED BY <2>1, <2>2, <2>3, <2>4, <2>5, CoveredBegins
<1>2. ASSUME NEW c \in Ids, onPendingKeepFixingClick(c) PROVE Covered'
  <2>1. /\ IsNext(c) /\ Free /\ ~ page.locked /\ srv.tx # None /\ Overtakes
        /\ page' = [page EXCEPT !.locked = TRUE, !.stored = "applying"]
        /\ Tell("started", srv) /\ manualEditRepair(c)
    BY <1>2 DEF onPendingKeepFixingClick, manualEditRepair, IsNext
  <2>2. Running = {} /\ NoEndUnderWay
    BY <2>1, NoneRuns, Heeded
  <2>3. page'.locked /\ page'.stored = "applying"
    BY <1>s, <2>1 DEF Pages
  <2>4. PICK commit \in Live :
          /\ GoesOn(srv, srv', c, commit)
          /\ Pending(srv.staged) # {} => commit.tx = srv.tx.id
          /\ Pending(srv.staged) = {} => srv'.commits[c].pc = "finishing"
    BY <1>s, <2>1, RepairBegins DEF manualEditRepair
  <2>5. /\ \A d \in Ids : d # c => srv'.commits[d] = srv.commits[d]
        /\ srv'.tx = srv.tx /\ srv'.commits[c].tx = commit.tx
    BY <2>4 DEF GoesOn, Goes
  <2>6. srv'.commits[c].pc # "finishing" => Guarded(c)'
    <3> SUFFICES ASSUME srv'.commits[c].pc # "finishing" PROVE Guarded(c)'
      OBVIOUS
    <3>1. srv'.staged = srv.staged /\ Pending(srv.staged) # {}
      BY <2>4 DEF GoesOn, Pushed, Finished
    <3> QED BY <2>1, <2>3, <2>4, <2>5, <3>1 DEF Guarded
  <2> QED BY <2>1, <2>2, <2>3, <2>5, <2>6, CoveredBegins
<1>3. ASSUME onPendingTrashClick PROVE Covered'
  <2>1. /\ Free /\ ~ page.locked /\ Overtakes /\ page' = NewPage /\ manualEditDiscard
        /\ Tell("discarded", srv')
    BY <1>3 DEF onPendingTrashClick, manualEditDiscard
  <2>2. Running = {} /\ NoEndUnderWay /\ Waiting(srv) = {}
    BY <2>1, NoneRuns, Heeded DEF Running, Waiting
  <2>3. \A d \in Ids : srv'.commits[d] = srv.commits[d]
    BY <2>1, <2>2, Discards
  <2>4. Running' = {} /\ NoEndUnderWay' /\ page'.stored # "decision"
    BY <1>p, <1>s, <2>1, <2>2, <2>3, NoEnd, Constants DEF Running
  <2>5. ~ Asked'
    BY <2>4 DEF NoEndUnderWay, Asked, Ends
  <2> QED BY <2>4, <2>5 DEF Covered
<1>4. ASSUME onPendingRollbackClick PROVE Covered'
  <2> DEFINE p == [page EXCEPT !.stored = None]
  <2>1. /\ ~ page.locked /\ Free /\ Overtakes /\ srv' = rollbackTransaction(srv)
        /\ page' = updatePendingCounter(p, Count(srv)) /\ Tell("rollback", srv)
    BY <1>4 DEF onPendingRollbackClick
  <2>2. p \in Pages /\ p.stored = None
    BY <1>s DEF Pages
  <2> HIDE DEF p
  <2>3. Running = {} /\ NoEndUnderWay
    BY <2>1, NoneRuns, Heeded
  <2>4. srv'.commits = srv.commits
    BY <1>s, <2>1, RolledBack
  <2>5. Running' = {} /\ NoEndUnderWay' /\ page'.stored # "decision"
    BY <1>s, <1>n, <2>1, <2>2, <2>3, <2>4, NoEnd, Counter, Constants DEF Running
  <2>6. ~ Asked'
    BY <2>5 DEF NoEndUnderWay, Asked, Ends
  <2> QED BY <2>5, <2>6 DEF Covered
<1>5. ASSUME NEW e \in Edits, applyEditing(e) PROVE Covered'
  BY <1>5, <1>u DEF applyEditing
<1>6. ASSUME NEW e \in Edits, StashArrives(e) PROVE Covered'
  <2>1. /\ Count(srv') > 0 /\ Count(srv') \in Counts /\ Pending(srv'.staged) # {}
        /\ SameTransaction(srv, srv') /\ srv'.commits = srv.commits
    BY <1>6, Saved
  <2>2. page' = page \/ page' = updatePendingCounter(page, Count(srv'))
    BY <1>6 DEF StashArrives
  <2>3. /\ page'.stored = "decision" => page.stored = "decision"
        /\ page.locked => page'.locked
    BY <1>s, <2>1, <2>2, Counter
  <2>4. Joined(sse, sse', "stashed", Count(srv'))
    BY <1>6, <1>s, Told DEF StashArrives, Tell
  <2>5. \A i \in DOMAIN sse' : Ends(sse'[i]) => \E j \in DOMAIN sse : sse'[i] = sse[j]
    BY <2>4 DEF Joined, Ends
  <2> QED BY <2>1, <2>3, <2>5, CoveredStays
<1>7. ASSUME NEW c \in Ids, CommitRejected(c) PROVE Covered'
  <2>1. GoesOn(srv, srv', c, srv.commits[c]) /\ UNCHANGED <<page, sse>>
    BY <1>7, RejectionGoes DEF CommitRejected
  <2> QED BY <1>7, <2>1, CoveredGoes DEF CommitRejected
<1>8. ASSUME NEW c \in Ids, CommitFinishes(c) PROVE Covered'
  <2> DEFINE type == IF srv.commits[c].decide THEN "decide" ELSE "done"
  <2>1. /\ srv.commits[c].pc = "finishing" /\ Tell(type, srv) /\ UNCHANGED page
    BY <1>8 DEF CommitFinishes
  <2>2. srv.commits[c] \in Live /\ c \in Running /\ Alone(c)
    BY <1>s, <2>1, LiveCommits DEF Running, Servers, Covered
  <2>3. /\ srv'.commits[c] = Over
        /\ \A d \in Ids : d # c => srv'.commits[d] = srv.commits[d]
        /\ srv.commits[c].decide => srv'.tx = srv.tx
    BY <1>8, Finishes
  <2>4. Running' = {}
    BY <2>2, <2>3 DEF Running, Alone, Over
  <2>5. Joined(sse, sse', type, Count(srv))
    BY <1>s, <2>1, Told DEF Tell
  <2>6. Asked' => srv'.tx # None
    <3> SUFFICES ASSUME Asked' PROVE srv'.tx # None
      OBVIOUS
    <3>1. PICK i \in DOMAIN sse' : sse'[i].type = "decide"
      BY <2>1, <2>2 DEF Asked, Alone
    <3>2. srv.commits[c].decide
      BY <2>2, <2>5, <3>1 DEF Joined, Alone, NoEndUnderWay, Ends
    <3>3. srv.tx # None
      BY <2>1, <2>2, <3>2 DEF Covered
    <3> QED BY <2>3, <3>2, <3>3
  <2> QED BY <2>4, <2>6 DEF Covered
<1>9. ASSUME NEW a \in Agents, PollEvent(a) PROVE Covered'
  BY <1>9, <1>s, <1>u DEF PollEvent, Servers
<1>10. ASSUME NEW a \in Agents, AgentEdits(a) PROVE Covered'
  BY <1>10, <1>s, <1>u DEF AgentEdits, Servers
<1>11. ASSUME NEW a \in Agents, AgentReplies(a) PROVE Covered'
  <2>1. UNCHANGED <<page, sse>>
    BY <1>11 DEF AgentReplies
  <2>2. CASE \E c \in Waiting(srv) : GoesOn(srv, srv', c, srv.commits[c])
    BY <2>1, <2>2, CoveredGoes DEF Waiting
  <2>3. CASE \E stone \in srv.timedOut : srv' = rollbackTimedOutReply(srv, stone)
    BY <1>s, <1>u, <2>1, <2>3 DEF rollbackTimedOutReply, Servers
  <2>4. CASE srv' = srv
    BY <1>u, <2>1, <2>4
  <2> QED BY <1>11, <2>2, <2>3, <2>4, ReplyGoes
<1>12. ASSUME NEW c \in Ids, EventTimesOut(c) PROVE Covered'
  <2>1. c \in Waiting(srv) /\ UNCHANGED <<page, sse>>
    BY <1>12 DEF EventTimesOut
  <2>2. srv.commits[c] \in Live /\ srv.commits[c].pc = "waiting"
    BY <1>s, <2>1, WaitingLive
  <2>3. /\ srv'.tx = srv.tx /\ srv'.staged = srv.staged
        /\ srv'.commits[c] = Rejected(srv.commits[c])
        /\ \A d \in Ids : d # c => srv'.commits[d] = srv.commits[d]
    BY <1>12, <1>s, <2>1, TimedOut DEF EventTimesOut
  <2>4. Rejected(srv.commits[c]).pc = "rejected" /\ Rejected(srv.commits[c]).tx = srv.commits[c].tx
    BY <2>2, RejectedLive
  <2>5. \A d \in Ids : \/ srv'.commits[d] = srv.commits[d]
                       \/ /\ srv.commits[d].pc = "waiting" /\ srv'.commits[d].pc = "rejected"
                          /\ srv'.commits[d].tx = srv.commits[d].tx
    BY <2>2, <2>3, <2>4
  <2> QED BY <2>1, <2>3, <2>5, CoveredStays DEF SameTransaction
<1>13. ~ OtherTab
  BY Constants DEF OtherTab, Suffers, Quiet
<1>14. ASSUME Reload PROVE Covered'
  <2> DEFINE p == [NewPage EXCEPT !.stored = page.stored]
  <2>1. UNCHANGED srv /\ sse' = <<>> /\ page' = updatePendingCounter(p, Count(srv))
    BY <1>14 DEF Reload
  <2>2. p \in Pages /\ p.stored = page.stored
    BY <1>s, <1>p DEF Pages, NewPage
  <2> HIDE DEF p
  <2>3. /\ page'.stored = "decision" => page.stored = "decision"
        /\ page.locked /\ Pending(srv.staged) # {} => page'.locked
    BY <1>s, <1>n, <2>1, <2>2, Counter
  <2>4. DOMAIN sse' = {}
    BY <2>1
  <2> QED BY <2>1, <2>3, <2>4, CoveredStays DEF SameTransaction
<1>15. ASSUME Restart PROVE Covered'
  <2>1. /\ \A c \in Ids : srv'.commits[c] = IF srv.commits[c] = NoCommit THEN NoCommit ELSE Over
        /\ sse' = <<>> /\ page' = updatePendingCounter(NewPage, Count(srv))
    BY <1>15, <1>s, Restarted DEF Restart
  <2>2. Running' = {}
    BY <2>1 DEF Running, NoCommit, Over
  <2>3. page'.stored # "decision"
    BY <1>n, <1>p, <2>1, Counter, Constants
  <2>4. ~ Asked'
    BY <2>1, <2>3 DEF Asked
  <2> QED BY <2>2, <2>4 DEF Covered
<1>16. ASSUME handleManualEditActivity PROVE Covered'
  BY <1>16, CoveredHandled
<1>17. ASSUME UNCHANGED vars PROVE Covered'
  BY <1>17, <1>u DEF vars
<1> QED BY <1>1, <1>2, <1>3, <1>4, <1>5, <1>6, <1>7, <1>8, <1>9, <1>10, <1>11, <1>12, <1>13,
           <1>14, <1>15, <1>16, <1>17
        DEF Next, User, Server, AgentSteps

LEMMA DockNext ==
    ASSUME Types, Types', EventInv, DockInv, [Next]_vars
    PROVE  DockInv'
BY StashesNext, QuietBefore, CoveredNext DEF DockInv

-------------------------------------------------------------------------------
(* The texts.                                                              *)

LEMMA SteadyBefore ==
    ASSUME [Next]_vars, Steady'
    PROVE  /\ Steady
           /\ ~ OtherTab /\ ~ Restart /\ \A c \in Ids : ~ EventTimesOut(c)
BY Constants
   DEF Next, vars, User, Server, AgentSteps, applyEditing, onPendingPillClick,
       onPendingKeepFixingClick, onPendingTrashClick, onPendingRollbackClick, Overtakes,
       handleManualEditActivity, OtherTab, Reload, Restart, StashArrives, CommitRejected,
       CommitFinishes, EventTimesOut, PollEvent, AgentEdits, AgentReplies, Suffers, Steady

\* What was old stays old unless something is typed or saved.
LEMMA OldStays ==
    ASSUME UNCHANGED <<typed, saving>>
    PROVE  \A batch : AllOld(batch) => AllOld(batch)'
BY DEF AllOld, Old

LEMMA NothingIsOld ==
    ASSUME Types, NEW batch, NEW edits, AllOld(batch)
    PROVE  AllOld([e \in Edits |-> IF e \in edits THEN 0 ELSE batch[e]])
<1> SUFFICES ASSUME NEW e \in Edits PROVE Old(e, IF e \in edits THEN 0 ELSE batch[e])
  BY DEF AllOld
<1>1. typed[e] \in Nat /\ saving[e] \in Nat
  BY Constants DEF Types, Batches
<1> QED BY <1>1 DEF AllOld, Old

\* A commit that goes on, all agents being idle.
LEMMA OrderlyGoes ==
    ASSUME Types, Types', NEW c \in Ids, NEW commit \in Live, GoesOn(srv, srv', c, commit),
           Fresh, AllOld(commit.batch), AllOld(commit.before.text), Raced(commit),
           \A d \in Running : d = c,
           UNCHANGED <<typed, saving>>, \A a \in Agents : agent'[a] = Idle
    PROVE  Orderly'
<1> DEFINE s == srv  t == srv'
<1>1. /\ \A d \in Ids : d # c => t.commits[d] = s.commits[d]
      /\ t.tx = s.tx /\ t.commits[c].batch = commit.batch /\ t.commits[c].before = commit.before
      /\ t.commits[c].pc \in {"waiting", "finishing"}
  BY DEF GoesOn, Goes, Pushed, Finished
<1>2. \A d \in Running' : d = c
  BY <1>1 DEF Running
<1>3. \A batch : AllOld(batch) => AllOld(batch)'
  BY OldStays
<1>4. AllOld(t.staged)
  <2>1. CASE t.staged = s.staged
    BY <2>1 DEF Fresh
  <2>2. CASE \E edits : t.staged = [e \in Edits |-> IF e \in edits THEN 0 ELSE s.staged[e]]
    <3>1. PICK edits : t.staged = [e \in Edits |-> IF e \in edits THEN 0 ELSE s.staged[e]]
      BY <2>2
    <3>2. AllOld([e \in Edits |-> IF e \in edits THEN 0 ELSE s.staged[e]])
      BY NothingIsOld DEF Fresh
    <3> QED BY <3>1, <3>2
  <2> QED BY <2>1, <2>2 DEF GoesOn, Pushed, Finished
<1>5. t.source = s.source \/ t.source = commit.before
  BY DEF GoesOn, Pushed, Finished
<1>6. AllOld(t.source.text)
  BY <1>5 DEF Fresh
<1>7. Fresh'
  <2>1. \A e \in Edits : saving'[e] <= typed'[e]
    BY DEF Fresh
  <2>2. AllOld(srv.staged)' /\ AllOld(srv.source.text)'
    BY <1>3, <1>4, <1>6
  <2>3. srv'.tx # None => AllOld(srv.tx.before.text)'
    BY <1>1, <1>3 DEF Fresh
  <2>4. \A d \in Waiting(t) : AllOld(srv.commits[d].batch)' /\ AllOld(srv.commits[d].before.text)'
    BY <1>1, <1>2, <1>3 DEF Waiting, Running
  <2> QED BY <2>1, <2>2, <2>3, <2>4 DEF Fresh
<1>8. Answered'
  BY <1>1, <1>2 DEF Answered, Running
<1>9. \A d \in Waiting(t) : Raced(srv.commits[d])'
  <2> SUFFICES ASSUME c \in Waiting(t) PROVE Raced(srv.commits[c])'
    BY <1>2 DEF Waiting, Running
  <2>1. t.staged = s.staged /\ t.source = s.source
    BY DEF GoesOn, Pushed, Finished, Waiting
  <2> QED BY <1>1, <2>1 DEF Raced
<1>10. t.commits[c].pc = "finishing" /\ t.commits[c].attempt = 0 => Atomic(srv.commits[c])'
  <2> SUFFICES ASSUME t.commits[c].pc = "finishing", t.commits[c].attempt = 0
               PROVE  Atomic(srv.commits[c])'
    OBVIOUS
  <2>1. CASE t.source = commit.before
    BY <1>1, <2>1 DEF Atomic
  <2>2. CASE t.commits[c].attempt > 0
    BY <2>2
  <2>3. CASE /\ t.source = s.source
             /\ \E verified \in SUBSET Shown(s.source, commit) :
                  /\ t.staged = [e \in Edits |-> IF e \in verified THEN 0 ELSE s.staged[e]]
                  /\ s.source.ok
                  /\ Shown(s.source, commit) \subseteq verified \cup Shown(commit.before, commit)
    <3>1. PICK verified \in SUBSET Shown(s.source, commit) :
                  /\ t.staged = [e \in Edits |-> IF e \in verified THEN 0 ELSE s.staged[e]]
                  /\ s.source.ok
                  /\ Shown(s.source, commit) \subseteq verified \cup Shown(commit.before, commit)
      BY <2>3
    <3>2. ASSUME NEW e \in Pending(t.staged), t.staged[e] = t.source.text[e],
                 t.staged[e] # commit.before.text[e]
          PROVE  FALSE
      <4>1. e \in Edits /\ e \notin verified /\ s.staged[e] # 0 /\ t.staged[e] = s.staged[e]
        BY <3>1, <3>2 DEF Pending
      <4>2. s.staged[e] = s.source.text[e]
        BY <2>3, <3>2, <4>1
      <4>3. s.staged[e] = commit.batch[e]
        BY <4>1, <4>2 DEF Raced
      <4>4. e \in Shown(s.source, commit)
        BY <4>1, <4>2, <4>3 DEF Shown, Pending
      <4>5. e \in Shown(commit.before, commit)
        BY <3>1, <4>1, <4>4
      <4> QED BY <3>2, <4>1, <4>3, <4>5 DEF Shown
    <3> QED BY <1>1, <2>3, <3>1, <3>2 DEF Atomic
  <2> QED BY <2>1, <2>2, <2>3 DEF GoesOn, Pushed, Finished
<1> QED BY <1>2, <1>7, <1>8, <1>9, <1>10 DEF Orderly

\* No commit runs.
LEMMA OrderlyIdle ==
    ASSUME Fresh, Running = {}, \A a \in Agents : agent[a] = Idle
    PROVE  Orderly
BY DEF Orderly, Answered, Running, Waiting

\* Nobody works while nobody waits.
LEMMA NobodyWorks ==
    ASSUME Answered, Waiting(srv) = {}
    PROVE  \A a \in Agents : agent[a] = Idle
BY DEF Answered

\* What a rollback of the transaction leaves is old.
LEMMA RolledBackIsOld ==
    ASSUME Types, Fresh
    PROVE  LET t == rollbackTransaction(srv)
           IN  /\ t.tx = None /\ t.staged = srv.staged /\ t.commits = srv.commits
               /\ AllOld(t.source.text)
<1> DEFINE t == rollbackTransaction(srv)
<1>1. /\ t.tx = None /\ t.staged = srv.staged /\ t.commits = srv.commits
      /\ \/ t.source = srv.source
         \/ srv.tx # None /\ t.source = srv.tx.before
  BY RolledBack DEF Types
<1> HIDE DEF t
<1>2. AllOld(t.source.text)
  BY <1>1 DEF Fresh
<1> QED BY <1>1, <1>2 DEF t

LEMMA OrderlyInit ==
    Init => SteadyInv
<1> SUFFICES ASSUME Init PROVE Orderly
  BY DEF SteadyInv
<1>1. \A c \in Ids : srv.commits[c].pc = "none"
  BY DEF Init, NoCommit
<1>2. /\ \A e \in Edits : saving[e] = 0 /\ typed[e] = 0 /\ srv.staged[e] = 0
                          /\ srv.source.text[e] = 0
      /\ srv.tx = None
  BY DEF Init, Nothing, Original
<1>3. Fresh
  BY <1>1, <1>2 DEF Fresh, AllOld, Old, Waiting
<1> QED BY <1>1, <1>3, OrderlyIdle DEF Init, Running

LEMMA OrderlyNext ==
    ASSUME Types, Types', EventInv, Covered, Orderly, [Next]_vars, Steady'
    PROVE  Orderly'
<1> DEFINE s == srv  t == srv'
<1>s. srv \in Servers /\ srv' \in Servers
  BY DEF Types
<1>f. Answered /\ Fresh
  BY DEF Orderly
<1>o. UNCHANGED <<typed, saving>> => \A batch : AllOld(batch) => AllOld(batch)'
  BY OldStays
<1>i. Running = {} => Waiting(s) = {} /\ \A a \in Agents : agent[a] = Idle
  BY <1>f, NobodyWorks DEF Running, Waiting
<1>a. ASSUME NEW c \in Running PROVE \A d \in Running : d = c
  BY <1>a DEF Covered, Alone
<1>u. ASSUME t.tx = s.tx, t.staged = s.staged, t.source = s.source, t.commits = s.commits,
             UNCHANGED <<agent, typed, saving>>
      PROVE  Orderly'
  <2>1. Waiting(t) = Waiting(s) /\ Running' = Running
        /\ \A c \in Ids : Awaited(t, c) = Awaited(s, c)
    BY <1>u DEF Waiting, Running, Awaited
  <2>2. Fresh'
    BY <1>f, <1>u, <1>o, <2>1 DEF Fresh
  <2>3. Answered'
    BY <1>f, <1>u DEF Answered, Waiting, Awaited
  <2> QED BY <1>u, <2>1, <2>2, <2>3 DEF Orderly, Raced, Atomic
<1>c. ASSUME Free, ~ page.locked PROVE Running = {}
  BY <1>c, NoneRuns
<1>1. ASSUME NEW c \in Ids, onPendingPillClick(c) PROVE Orderly'
  <2>1. /\ Free /\ ~ page.locked /\ UNCHANGED <<agent, saving, typed>>
        /\ Begun(s, t, c) /\ t.source = rollbackTransaction(s).source
    BY <1>1, <1>s, CommitBegins DEF onPendingPillClick, manualEditCommit, IsNext
  <2>2. Running = {} /\ \A a \in Agents : agent'[a] = Idle
    BY <1>c, <1>i, <2>1
  <2>3. AllOld(t.source.text)
    BY <1>f, <2>1, RolledBackIsOld
  <2>4. /\ t.staged = s.staged /\ \A d \in Ids : d # c => t.commits[d] = s.commits[d]
        /\ t.commits[c].batch = t.staged /\ t.commits[c].before = t.source
        /\ t.commits[c].pc \in {"waiting", "finishing"}
        /\ t.tx # None => t.tx.before = t.source
    BY <2>1 DEF Begun
  <2>5. \A d \in Running' : d = c
    BY <2>2, <2>4 DEF Running
  <2>6. AllOld(srv.staged)' /\ AllOld(srv.source.text)'
    BY <1>f, <1>o, <2>1, <2>3, <2>4 DEF Fresh
  <2>7. Fresh'
    BY <1>f, <2>1, <2>4, <2>5, <2>6 DEF Fresh, Waiting, Running
  <2>8. \A d \in Ids : t.commits[d].pc # "rejected"
    BY <1>f, <2>4 DEF Answered
  <2>9. Answered'
    BY <2>2, <2>8 DEF Answered
  <2> QED BY <2>4, <2>5, <2>7, <2>9 DEF Orderly, Raced, Atomic, Waiting, Running
<1>2. ASSUME NEW c \in Ids, onPendingKeepFixingClick(c) PROVE Orderly'
  <2>1. /\ Free /\ ~ page.locked /\ srv.tx # None /\ manualEditRepair(c)
        /\ UNCHANGED <<agent, saving, typed>>
    BY <1>2 DEF onPendingKeepFixingClick, manualEditRepair, IsNext
  <2>2. Running = {} /\ \A a \in Agents : agent'[a] = Idle
    BY <1>c, <1>i, <2>1
  <2>3. PICK commit \in Live :
          GoesOn(s, t, c, commit) /\ commit.batch = s.staged /\ commit.before = s.source
    BY <1>s, <2>1, RepairBegins DEF manualEditRepair
  <2>4. Raced(commit) /\ AllOld(commit.batch) /\ AllOld(commit.before.text)
    BY <1>f, <2>3 DEF Raced, Fresh
  <2> QED BY <1>f, <2>1, <2>2, <2>3, <2>4, OrderlyGoes
<1>3. ASSUME onPendingTrashClick PROVE Orderly'
  <2>1. /\ Free /\ ~ page.locked /\ UNCHANGED <<agent, saving, typed>> /\ manualEditDiscard
    BY <1>3 DEF onPendingTrashClick, manualEditDiscard
  <2>2. Running = {} /\ Waiting(s) = {} /\ \A a \in Agents : agent'[a] = Idle
    BY <1>c, <1>i, <2>1
  <2>3. t = [rollbackTransaction(s) EXCEPT !.staged = Nothing]
    BY <2>1, <2>2 DEF manualEditDiscard
  <2>4. rollbackTransaction(s) \in Servers
    BY <1>s, RolledBack
  <2>5. t.staged = Nothing /\ t.tx = None /\ t.commits = s.commits /\ AllOld(t.source.text)
    BY <1>f, <2>3, <2>4, RolledBackIsOld DEF Servers
  <2>6. Running' = {} /\ Waiting(t) = {}
    BY <2>2, <2>5 DEF Running, Waiting
  <2>7. AllOld(Nothing)
    <3> SUFFICES ASSUME NEW e \in Edits PROVE Old(e, 0)
      BY DEF AllOld, Nothing
    <3>1. typed[e] \in Nat /\ saving[e] \in Nat
      BY Constants DEF Types, Batches
    <3> QED BY <3>1 DEF Old
  <2>8. Fresh'
    BY <1>f, <1>o, <2>1, <2>5, <2>6, <2>7 DEF Fresh
  <2>9. Answered'
    BY <2>2, <2>6 DEF Answered, Running
  <2> QED BY <2>6, <2>8, <2>9 DEF Orderly
<1>4. ASSUME onPendingRollbackClick PROVE Orderly'
  <2>1. /\ Free /\ ~ page.locked /\ UNCHANGED <<agent, saving, typed>>
        /\ t = rollbackTransaction(s)
    BY <1>4 DEF onPendingRollbackClick
  <2>2. Running = {} /\ \A a \in Agents : agent'[a] = Idle
    BY <1>c, <1>i, <2>1
  <2>3. t.staged = s.staged /\ t.tx = None /\ t.commits = s.commits /\ AllOld(t.source.text)
    BY <1>f, <2>1, RolledBackIsOld
  <2>4. Running' = {} /\ Waiting(t) = {}
    BY <2>2, <2>3 DEF Running, Waiting
  <2>5. Fresh'
    BY <1>f, <1>o, <2>1, <2>3, <2>4 DEF Fresh
  <2>6. Answered'
    BY <2>2, <2>4 DEF Answered, Running
  <2> QED BY <2>4, <2>5, <2>6 DEF Orderly
<1>5. ASSUME NEW e \in Edits, applyEditing(e) PROVE Orderly'
  <2>1. /\ UNCHANGED <<srv, agent>> /\ typed' = [typed EXCEPT ![e] = @ + 1]
        /\ saving' = [saving EXCEPT ![e] = typed[e] + 1] /\ saving[e] = 0
    BY <1>5 DEF applyEditing
  <2>2. typed \in [Edits -> Nat] /\ saving \in [Edits -> Nat]
    BY Constants DEF Types, Batches
  <2>3. \A batch \in Batches : AllOld(batch) => AllOld(batch)'
    <3> SUFFICES ASSUME NEW batch \in Batches, AllOld(batch), NEW d \in Edits
                 PROVE  Old(d, batch[d])'
      BY DEF AllOld
    <3>1. batch[d] \in Nat /\ Old(d, batch[d])
      BY Constants DEF Batches, AllOld
    <3>2. CASE d = e
      <4>1. typed'[d] = typed[d] + 1 /\ saving'[d] = typed[d] + 1
        BY <2>1, <2>2, <3>2
      <4> QED BY <2>2, <3>1, <4>1 DEF Old
    <3>3. CASE d # e
      <4>1. typed'[d] = typed[d] /\ saving'[d] = saving[d]
        BY <2>1, <2>2, <3>3
      <4> QED BY <3>1, <4>1 DEF Old
    <3> QED BY <3>2, <3>3
  <2>4. \A d \in Edits : saving'[d] <= typed'[d]
    BY <1>f, <2>1, <2>2 DEF Fresh
  <2>5. /\ s.staged \in Batches /\ s.source.text \in Batches
        /\ s.tx # None => s.tx.before.text \in Batches
        /\ \A c \in Waiting(s) : s.commits[c].batch \in Batches
                                 /\ s.commits[c].before.text \in Batches
    <3>1. s.tx # None => s.tx \in Transactions
      BY <1>s DEF Servers
    <3>2. \A c \in Waiting(s) : s.commits[c] \in Live
      BY <1>s, WaitingLive
    <3> QED BY <1>s, <3>1, <3>2 DEF Servers, Sources, Transactions, Live, Batches
  <2>6. Fresh'
    BY <1>f, <2>1, <2>3, <2>4, <2>5 DEF Fresh
  <2> QED BY <2>1, <2>6 DEF Orderly, Answered, Running, Raced, Atomic
<1>6. ASSUME NEW e \in Edits, StashArrives(e) PROVE Orderly'
  <2>1. /\ saving[e] # 0 /\ Free /\ saving' = [saving EXCEPT ![e] = 0]
        /\ UNCHANGED <<agent, typed>>
    BY <1>6 DEF StashArrives
  <2>2. /\ t.staged = [s.staged EXCEPT ![e] = saving[e]]
        /\ SameTransaction(s, t) /\ t.commits = s.commits /\ t.source = s.source
    BY <1>6, Saved
  <2>3. typed \in [Edits -> Nat] /\ saving \in [Edits -> Nat] /\ s.staged \in [Edits -> Nat]
    BY <1>s, Constants DEF Types, Batches, Servers
  <2>4. \A batch : AllOld(batch) => AllOld(batch)'
    BY <2>1, <2>3 DEF AllOld, Old
  <2>5. AllOld(srv.staged)'
    <3> SUFFICES ASSUME NEW d \in Edits PROVE Old(d, srv.staged[d])'
      BY DEF AllOld
    <3>1. CASE d = e
      <4>1. t.staged[d] = saving[d] /\ saving'[d] = 0 /\ typed'[d] = typed[d]
        BY <2>1, <2>2, <2>3, <3>1
      <4>2. saving[d] <= typed[d]
        BY <1>f DEF Fresh
      <4> QED BY <4>1, <4>2 DEF Old
    <3>2. CASE d # e
      <4>1. t.staged[d] = s.staged[d] /\ saving'[d] = saving[d] /\ typed'[d] = typed[d]
        BY <2>1, <2>2, <2>3, <3>2
      <4> QED BY <1>f, <4>1 DEF Old, Fresh, AllOld
    <3> QED BY <3>1, <3>2
  <2>6. \A d \in Edits : saving'[d] <= typed'[d]
    <3>1. 0 <= typed[e]
      BY <2>3
    <3> QED BY <1>f, <2>1, <2>3, <3>1 DEF Fresh
  <2>7. Waiting(t) = Waiting(s) /\ Running' = Running /\ Waiting(s) \subseteq Ids
    BY <2>2 DEF Waiting, Running
  <2>8. Fresh'
    BY <1>f, <2>2, <2>4, <2>5, <2>6, <2>7 DEF Fresh, SameTransaction
  <2>9. \A c \in Waiting(s) : Raced(srv.commits[c])'
    <3> SUFFICES ASSUME NEW c \in Waiting(s), NEW d \in Edits, t.staged[d] # s.commits[c].batch[d]
                 PROVE  t.staged[d] \notin {s.source.text[d], s.commits[c].before.text[d],
                                            s.commits[c].batch[d]}
      BY <2>2 DEF Raced
    <3>1. CASE d # e
      <4>1. t.staged[d] = s.staged[d]
        BY <2>2, <3>1
      <4> QED BY <4>1 DEF Orderly, Raced
    <3>2. CASE d = e
      <4>1. t.staged[d] = saving[d] /\ saving[d] # 0 /\ saving[d] \in Nat
        BY <2>1, <2>2, <2>3, <3>2
      <4>2. s.source.text[d] < saving[d] /\ s.commits[c].before.text[d] < saving[d]
            /\ s.commits[c].batch[d] < saving[d]
        BY <1>f, <4>1 DEF Fresh, AllOld, Old
      <4>3. s.commits[c] \in Live
        BY <1>s, WaitingLive
      <4>4. s.source.text[d] \in Nat /\ s.commits[c].before.text[d] \in Nat
            /\ s.commits[c].batch[d] \in Nat
        BY <1>s, <4>3, Constants DEF Servers, Live, Sources, Batches
      <4> QED BY <4>1, <4>2, <4>4
    <3> QED BY <3>1, <3>2
  <2>10. \A c \in Running : s.commits[c].pc # "finishing"
    BY <2>1 DEF Free, Running
  <2>11. Answered'
    BY <1>f, <2>1, <2>2, <2>7 DEF Answered, Awaited
  <2> QED BY <2>2, <2>7, <2>8, <2>9, <2>10, <2>11 DEF Orderly
<1>7. \A c \in Ids : ~ CommitRejected(c)
  BY <1>f DEF Answered, CommitRejected
<1>8. ASSUME NEW c \in Ids, CommitFinishes(c) PROVE Orderly'
  <2>1. s.commits[c].pc = "finishing" /\ UNCHANGED <<agent, typed, saving>>
    BY <1>8 DEF CommitFinishes
  <2>2. s.commits[c] \in Live /\ c \in Running
    BY <1>s, <2>1, LiveCommits DEF Running, Servers
  <2>3. /\ t.staged = s.staged /\ t.source = s.source /\ t.commits[c] = Over
        /\ t.tx = s.tx \/ t.tx = None
        /\ \A d \in Ids : d # c => t.commits[d] = s.commits[d]
    BY <1>8, Finishes
  <2>4. Running' = {} /\ Waiting(s) = {}
    BY <1>a, <2>1, <2>2, <2>3 DEF Running, Waiting, Over
  <2>5. \A a \in Agents : agent'[a] = Idle
    BY <1>f, <2>1, <2>4, NobodyWorks
  <2>6. Fresh'
    BY <1>f, <1>o, <2>1, <2>3, <2>4 DEF Fresh, Waiting, Running
  <2>7. \A d \in Ids : t.commits[d].pc # "rejected"
    BY <2>4 DEF Running
  <2> QED BY <2>4, <2>5, <2>6, <2>7 DEF Orderly, Answered, Waiting, Running
<1>9. ASSUME NEW a \in Agents, PollEvent(a) PROVE Orderly'
  <2>1. PICK v \in s.queue :
          /\ agent' = [agent EXCEPT ![a] = [id |-> v.id, edits |-> v.edits, text |-> v.text,
                                            edited |-> FALSE]]
          /\ t = [s EXCEPT !.queue = @ \ {v}]
    BY <1>9 DEF PollEvent
  <2>2. t.tx = s.tx /\ t.staged = s.staged /\ t.source = s.source /\ t.commits = s.commits
        /\ UNCHANGED <<typed, saving>>
    BY <1>s, <1>9, <2>1 DEF Servers, PollEvent
  <2>3. Waiting(t) = Waiting(s) /\ Running' = Running
        /\ \A c \in Ids : Awaited(t, c) = Awaited(s, c)
    BY <2>2 DEF Waiting, Running, Awaited
  <2>4. v.id[1] \in Waiting(s) /\ v.id = Awaited(s, v.id[1])
    BY QueuedWaits
  <2>5. Answered'
    <3>1. \A b \in Agents : b # a => agent'[b] = agent[b]
      BY <2>1 DEF Types
    <3>2. agent'[a].id = v.id
      BY <2>1 DEF Types
    <3>3. \A c \in Waiting(s) : c \in Ids
      BY DEF Waiting
    <3>4. \A b \in Agents : agent'[b] # Idle =>
            \E c \in Waiting(s) : agent'[b].id = Awaited(s, c)
      BY <1>f, <2>4, <3>1, <3>2 DEF Answered
    <3>5. \A b \in Agents : agent'[b] # Idle =>
            \E c \in Waiting(t) : agent'[b].id = Awaited(t, c)
      BY <2>3, <3>3, <3>4
    <3>6. \A c \in Ids : t.commits[c].pc # "rejected"
      BY <1>f, <2>2 DEF Answered
    <3> QED BY <3>5, <3>6 DEF Answered
  <2>6. Fresh'
    BY <1>f, <1>o, <2>2, <2>3 DEF Fresh
  <2> QED BY <2>2, <2>3, <2>5, <2>6 DEF Orderly, Raced, Atomic
<1>10. ASSUME NEW a \in Agents, AgentEdits(a) PROVE Orderly'
  <2>1. /\ agent[a] # Idle /\ agent[a] \in Work /\ agent' = [agent EXCEPT ![a].edited = TRUE]
        /\ UNCHANGED <<typed, saving>>
    BY <1>10 DEF AgentEdits, Types
  <2>2. PICK c \in Waiting(s) : agent[a].id = Awaited(s, c)
    BY <1>f, <2>1 DEF Answered
  <2>3. agent[a].text = s.commits[c].batch
    BY <2>1, <2>2 DEF EventInv, Held, EventOf, Awaited, Waiting
  <2>4. PICK written \in SUBSET agent[a].edits, ok \in BOOLEAN :
          t = [s EXCEPT !.source = [text |-> [e \in Edits |-> IF e \in written THEN agent[a].text[e]
                                                              ELSE @.text[e]], ok |-> ok]]
    BY <1>10 DEF AgentEdits
  <2>5. /\ t.tx = s.tx /\ t.staged = s.staged /\ t.commits = s.commits
        /\ t.source.text = [e \in Edits |-> IF e \in written THEN s.commits[c].batch[e]
                                            ELSE s.source.text[e]]
    BY <1>s, <2>3, <2>4 DEF Servers
  <2>6. Waiting(t) = Waiting(s) /\ Running' = Running
        /\ \A d \in Ids : Awaited(t, d) = Awaited(s, d)
    BY <2>5 DEF Waiting, Running, Awaited
  <2>7. c \in Running /\ \A d \in Running : d = c
    BY <1>a, <2>2 DEF Running, Waiting
  <2>8. AllOld(t.source.text)
    BY <1>f, <2>5 DEF Fresh, AllOld
  <2>9. Fresh'
    BY <1>f, <1>o, <2>1, <2>5, <2>6, <2>8 DEF Fresh
  <2>10. Answered'
    <3>1. \A b \in Agents : agent'[b] # Idle => agent[b] # Idle /\ agent'[b].id = agent[b].id
      BY <2>1 DEF Types, Work
    <3>2. \A d \in Waiting(s) : d \in Ids
      BY DEF Waiting
    <3> QED BY <1>f, <2>5, <2>6, <3>1, <3>2 DEF Answered
  <2>11. Raced(srv.commits[c])'
    BY <2>2, <2>5 DEF Orderly, Raced
  <2>12. \A d \in Running : s.commits[d].pc # "finishing"
    BY <2>2, <2>7 DEF Waiting
  <2>13. \A d \in Waiting(s) : d = c
    BY <2>7 DEF Waiting, Running
  <2> QED BY <2>5, <2>6, <2>9, <2>10, <2>11, <2>12, <2>13 DEF Orderly
<1>11. ASSUME NEW a \in Agents, AgentReplies(a) PROVE Orderly'
  <2>1. /\ agent[a] # Idle /\ agent' = [agent EXCEPT ![a] = Idle] /\ UNCHANGED <<typed, saving>>
    BY <1>11 DEF AgentReplies
  <2>2. PICK c \in Waiting(s) : Awaited(s, c) = agent[a].id /\ GoesOn(s, t, c, s.commits[c])
    BY <1>f, <1>11, <2>1, ReplyGoes DEF Answered
  <2>3. c \in Ids /\ c \in Running /\ s.commits[c] \in Live
    BY <1>s, <2>2, WaitingLive DEF Running, Waiting
  <2>4. \A d \in Running : d = c
    BY <1>a, <2>3
  <2>5. \A b \in Agents : agent'[b] = Idle
    <3> SUFFICES ASSUME NEW b \in Agents, b # a, agent[b] # Idle PROVE FALSE
      BY <2>1 DEF Types
    <3>1. PICK d \in Waiting(s) : agent[b].id = Awaited(s, d)
      BY <1>f DEF Answered
    <3>2. d = c
      BY <2>4 DEF Running, Waiting
    <3> QED BY <2>1, <2>2, <3>1, <3>2 DEF EventInv, HeldOnce
  <2>6. /\ Raced(s.commits[c]) /\ AllOld(s.commits[c].batch) /\ AllOld(s.commits[c].before.text)
    BY <2>2 DEF Orderly, Fresh
  <2> QED BY <1>f, <2>1, <2>2, <2>3, <2>4, <2>5, <2>6, OrderlyGoes
<1>12. ASSUME Reload PROVE Orderly'
  BY <1>12, <1>u DEF Reload
<1>13. ASSUME handleManualEditActivity PROVE Orderly'
  BY <1>13, <1>u DEF handleManualEditActivity
<1>14. ASSUME UNCHANGED vars PROVE Orderly'
  BY <1>14, <1>u DEF vars
<1> QED BY <1>1, <1>2, <1>3, <1>4, <1>5, <1>6, <1>7, <1>8, <1>9, <1>10, <1>11, <1>12, <1>13,
           <1>14, SteadyBefore
        DEF Next, User, Server, AgentSteps

LEMMA SteadyNext ==
    ASSUME Types, Types', EventInv, DockInv, SteadyInv, [Next]_vars
    PROVE  SteadyInv'
<1> SUFFICES ASSUME Steady' PROVE Orderly'
  BY DEF SteadyInv
<1>1. Steady
  BY SteadyBefore
<1>2. Quiet
  BY <1>1, Constants DEF Steady, Quiet
<1> QED BY <1>1, <1>2, OrderlyNext DEF DockInv, SteadyInv

-------------------------------------------------------------------------------
(* What the user saved.                                                    *)

LEMMA CalmBefore ==
    ASSUME [Next]_vars, Calm'
    PROVE  Calm /\ Steady'
BY Constants
   DEF Next, vars, User, Server, AgentSteps, applyEditing, onPendingPillClick,
       onPendingKeepFixingClick, onPendingTrashClick, onPendingRollbackClick, Overtakes,
       handleManualEditActivity, OtherTab, Reload, Restart, StashArrives, CommitRejected,
       CommitFinishes, EventTimesOut, PollEvent, AgentEdits, AgentReplies, Suffers, Calm, Steady

\* What a rollback of the transaction leaves, no commit being about to clear it.
LEMMA RolledBackKeeps ==
    ASSUME Types, Kept, Running = {}
    PROVE  LET t == rollbackTransaction(srv)
           IN  /\ t.tx = None /\ t.staged = srv.staged /\ t.commits = srv.commits
               /\ Keeps(t.source.text)
<1> DEFINE t == rollbackTransaction(srv)
<1>1. /\ t.tx = None /\ t.staged = srv.staged /\ t.commits = srv.commits
      /\ \/ t.source = srv.source
         \/ srv.tx # None /\ t.source = srv.tx.before
  BY RolledBack DEF Types
<1> HIDE DEF t
<1>2. ~ Going
  BY DEF Going
<1>3. Keeps(t.source.text)
  BY <1>1, <1>2 DEF Kept
<1> QED BY <1>1, <1>3 DEF t

\* A commit that goes on takes off the stage only what the source shows.
LEMMA KeptGoes ==
    ASSUME Types, Types', NEW c \in Ids, NEW commit \in Live, GoesOn(srv, srv', c, commit),
           Kept, srv.staged = commit.batch, Keeps(commit.before.text),
           srv.tx # None => Keeps(srv.tx.before.text),
           srv'.staged = srv.staged \/ (srv.tx # None /\ commit.tx = srv.tx.id),
           \A d \in Running : d = c, UNCHANGED wanted
    PROVE  Kept'
<1> DEFINE s == srv  t == srv'
<1>1. /\ \A d \in Ids : d # c => t.commits[d] = s.commits[d]
      /\ t.tx = s.tx /\ t.commits[c].batch = commit.batch /\ t.commits[c].before = commit.before
      /\ t.commits[c].tx = commit.tx
  BY DEF GoesOn, Goes
<1>2. \A d \in Running' : d = c
  BY <1>1 DEF Running
<1>3. ASSUME t.staged = s.staged PROVE Kept'
  <2>1. t.source = s.source \/ t.source = commit.before
    BY DEF GoesOn, Pushed, Finished
  <2>2. Keeps(srv.source.text)'
    BY <1>3, <2>1 DEF Kept, Keeps
  <2>3. \A d \in Waiting(t) : t.staged = t.commits[d].batch /\ Keeps(srv.commits[d].before.text)'
    BY <1>1, <1>2, <1>3 DEF Waiting, Running, Keeps
  <2>4. t.tx # None => Keeps(srv.tx.before.text)'
    BY <1>1, <1>3 DEF Keeps
  <2> QED BY <1>3, <2>2, <2>3, <2>4 DEF Kept
<1>4. ASSUME t.staged # s.staged PROVE Kept'
  <2>1. PICK verified \in SUBSET Shown(s.source, commit) :
          /\ t.commits[c].pc = "finishing" /\ t.source = s.source /\ ~ t.commits[c].decide
          /\ t.staged = [e \in Edits |-> IF e \in verified THEN 0 ELSE s.staged[e]]
    BY <1>4 DEF GoesOn, Pushed, Finished
  <2>2. Waiting(t) = {}
    BY <1>2, <2>1 DEF Waiting, Running
  <2>3. Going'
    BY <1>1, <1>4, <2>1 DEF Going, Running
  <2>4. \A e \in Edits : t.staged[e] # 0 => t.staged[e] = s.staged[e]
    BY <2>1
  <2>5. Keeps(srv.source.text)'
    <3> SUFFICES ASSUME NEW e \in Edits, t.staged[e] = 0 PROVE wanted'[e] \in {0, t.source.text[e]}
      BY DEF Keeps
    <3>1. CASE s.staged[e] = 0
      BY <2>1, <3>1 DEF Kept, Keeps
    <3>2. CASE s.staged[e] # 0
      <4>1. e \in Shown(s.source, commit)
        BY <2>1, <3>2
      <4>2. s.source.text[e] = s.staged[e]
        BY <4>1 DEF Shown
      <4> QED BY <2>1, <3>2, <4>2 DEF Kept
    <3> QED BY <3>1, <3>2
  <2> QED BY <2>2, <2>3, <2>4, <2>5 DEF Kept
<1> QED BY <1>3, <1>4

LEMMA KeptInit ==
    Init => KeptInv
BY DEF Init, KeptInv, Kept, Keeps, Nothing, Waiting, NoCommit

LEMMA KeptNext ==
    ASSUME Types, Types', EventInv, Covered, Orderly, Kept, [Next]_vars, Calm'
    PROVE  Kept'
<1> DEFINE s == srv  t == srv'
<1>s. srv \in Servers /\ srv' \in Servers
  BY DEF Types
<1>r. Calm /\ Steady' /\ ~ OtherTab /\ ~ Restart /\ \A c \in Ids : ~ EventTimesOut(c)
  BY CalmBefore, SteadyBefore
<1>a. ASSUME NEW c \in Running PROVE \A d \in Running : d = c
  BY <1>a DEF Covered, Alone
<1>c. ASSUME Free, ~ page.locked PROVE Running = {} /\ Waiting(s) = {} /\ ~ Going
  BY <1>c, NoneRuns DEF Running, Waiting, Going
<1>u. ASSUME t.tx = s.tx, t.staged = s.staged, t.source = s.source, t.commits = s.commits,
             UNCHANGED wanted
      PROVE  Kept'
  BY <1>u DEF Kept, Keeps, Going, Running, Waiting
<1>1. ASSUME NEW c \in Ids, onPendingPillClick(c) PROVE Kept'
  <2>1. /\ Free /\ ~ page.locked /\ UNCHANGED wanted
        /\ Begun(s, t, c) /\ t.source = rollbackTransaction(s).source
    BY <1>1, <1>s, CommitBegins DEF onPendingPillClick, manualEditCommit, IsNext
  <2>2. Running = {}
    BY <1>c, <2>1
  <2>3. Keeps(t.source.text)
    BY <2>1, <2>2, RolledBackKeeps
  <2>4. /\ t.staged = s.staged /\ \A d \in Ids : d # c => t.commits[d] = s.commits[d]
        /\ t.commits[c].batch = t.staged /\ t.commits[c].before = t.source
        /\ t.tx # None => t.tx.before = t.source
    BY <2>1 DEF Begun
  <2>5. \A d \in Waiting(t) : d = c
    BY <2>2, <2>4 DEF Running, Waiting
  <2>6. Keeps(srv.source.text)'
    BY <2>1, <2>3, <2>4 DEF Keeps
  <2> QED BY <2>1, <2>4, <2>5, <2>6 DEF Kept
<1>2. ASSUME NEW c \in Ids, onPendingKeepFixingClick(c) PROVE Kept'
  <2>1. /\ Free /\ ~ page.locked /\ srv.tx # None /\ manualEditRepair(c) /\ UNCHANGED wanted
    BY <1>2 DEF onPendingKeepFixingClick, manualEditRepair, IsNext
  <2>2. Running = {} /\ ~ Going
    BY <1>c, <2>1
  <2>3. PICK commit \in Live :
          /\ GoesOn(s, t, c, commit) /\ commit.batch = s.staged /\ commit.before = s.source
          /\ Pending(srv.staged) # {} => commit.tx = srv.tx.id
          /\ Pending(srv.staged) = {} => t.staged = s.staged
    BY <1>s, <2>1, RepairBegins DEF manualEditRepair
  <2> QED BY <2>1, <2>2, <2>3, KeptGoes DEF Kept
<1>3. ASSUME onPendingTrashClick PROVE Kept'
  <2>1. /\ Free /\ ~ page.locked /\ wanted' = Nothing /\ manualEditDiscard
    BY <1>3 DEF onPendingTrashClick, manualEditDiscard
  <2>2. Running = {} /\ Waiting(s) = {}
    BY <1>c, <2>1
  <2>3. /\ t.staged = Nothing /\ t.tx = None
        /\ \A d \in Ids : t.commits[d] = s.commits[d]
    BY <2>1, <2>2, Discards
  <2>4. Waiting(t) = {}
    BY <2>2, <2>3 DEF Waiting
  <2> QED BY <2>1, <2>3, <2>4 DEF Kept, Keeps, Nothing
<1>4. ASSUME onPendingRollbackClick PROVE Kept'
  <2>1. Free /\ ~ page.locked /\ t = rollbackTransaction(s) /\ UNCHANGED wanted
    BY <1>4 DEF onPendingRollbackClick
  <2>2. Running = {} /\ Waiting(s) = {}
    BY <1>c, <2>1
  <2>3. t.staged = s.staged /\ t.tx = None /\ t.commits = s.commits /\ Keeps(t.source.text)
    BY <2>1, <2>2, RolledBackKeeps
  <2>4. Waiting(t) = {}
    BY <2>2, <2>3 DEF Waiting
  <2> QED BY <2>1, <2>3, <2>4 DEF Kept, Keeps
<1>5. ASSUME NEW e \in Edits, applyEditing(e) PROVE Kept'
  BY <1>5, <1>u DEF applyEditing
<1>6. ASSUME NEW e \in Edits, StashArrives(e) PROVE Kept'
  <2>1. /\ saving[e] # 0 /\ Free /\ wanted' = [wanted EXCEPT ![e] = saving[e]]
    BY <1>6 DEF StashArrives
  <2>2. /\ t.staged = [s.staged EXCEPT ![e] = saving[e]]
        /\ SameTransaction(s, t) /\ t.commits = s.commits /\ t.source = s.source
    BY <1>6, Saved
  <2>3. Waiting(s) = {}
    <3>1. ~ Suffers("race")
      BY Constants DEF Suffers, Calm
    <3> QED BY <1>6, <3>1 DEF StashArrives, Waiting
  <2>4. Running = {} /\ ~ Going
    BY <2>1, <2>3 DEF Free, Running, Waiting, Going
  <2>5. Waiting(t) = {}
    BY <2>2, <2>3 DEF Waiting
  <2>6. \A d \in Edits : /\ d = e => t.staged[d] = saving[d] /\ wanted'[d] = saving[d]
                         /\ d # e => t.staged[d] = s.staged[d] /\ wanted'[d] = wanted[d]
    BY <1>s, <2>1, <2>2 DEF Types, Servers, Batches
  <2> QED BY <2>1, <2>2, <2>4, <2>5, <2>6 DEF Kept, Keeps, SameTransaction
<1>7. \A c \in Ids : ~ CommitRejected(c)
  BY DEF Orderly, Answered, CommitRejected
<1>8. ASSUME NEW c \in Ids, CommitFinishes(c) PROVE Kept'
  <2>1. s.commits[c].pc = "finishing" /\ UNCHANGED wanted
    BY <1>8 DEF CommitFinishes
  <2>2. s.commits[c] \in Live /\ c \in Running
    BY <1>s, <2>1, LiveCommits DEF Running, Servers
  <2>3. /\ t.staged = s.staged /\ t.source = s.source /\ t.commits[c] = Over
        /\ \A d \in Ids : d # c => t.commits[d] = s.commits[d]
        /\ t.tx = IF ~ s.commits[c].decide /\ s.tx # None /\ s.tx.id = s.commits[c].tx
                  THEN None ELSE s.tx
    BY <1>8, Finishes
  <2>4. Waiting(t) = {} /\ \A d \in Running : d = c
    BY <1>a, <2>1, <2>2, <2>3 DEF Running, Waiting, Over
  <2>5. t.tx # None => t.tx = s.tx /\ ~ Going
    BY <2>3, <2>4 DEF Going
  <2> QED BY <2>1, <2>3, <2>4, <2>5 DEF Kept, Keeps
<1>9. ASSUME NEW a \in Agents, PollEvent(a) PROVE Kept'
  BY <1>9, <1>s, <1>u DEF PollEvent, Servers
<1>10. ASSUME NEW a \in Agents, AgentEdits(a) PROVE Kept'
  <2>1. agent[a] # Idle /\ UNCHANGED wanted
    BY <1>10 DEF AgentEdits
  <2>2. PICK c \in Waiting(s) : agent[a].id = Awaited(s, c)
    BY <2>1 DEF Orderly, Answered
  <2>3. agent[a].edits \subseteq Pending(s.commits[c].batch)
    BY <2>1, <2>2 DEF EventInv, Held, EventOf, Awaited, Waiting
  <2>4. PICK written \in SUBSET agent[a].edits, ok \in BOOLEAN :
          t = [s EXCEPT !.source = [text |-> [e \in Edits |-> IF e \in written THEN agent[a].text[e]
                                                              ELSE @.text[e]], ok |-> ok]]
    BY <1>10 DEF AgentEdits
  <2>5. /\ t.tx = s.tx /\ t.staged = s.staged /\ t.commits = s.commits
        /\ \A e \in Edits : e \notin written => t.source.text[e] = s.source.text[e]
    BY <1>s, <2>4 DEF Servers
  <2>6. \A e \in written : s.staged[e] # 0
    BY <2>2, <2>3 DEF Kept, Pending
  <2>7. Keeps(srv.source.text)'
    BY <2>1, <2>5, <2>6 DEF Kept, Keeps
  <2> QED BY <2>1, <2>5, <2>7 DEF Kept, Keeps, Going, Running, Waiting
<1>11. ASSUME NEW a \in Agents, AgentReplies(a) PROVE Kept'
  <2>1. agent[a] # Idle /\ UNCHANGED wanted
    BY <1>11 DEF AgentReplies
  <2>2. PICK c \in Waiting(s) : GoesOn(s, t, c, s.commits[c])
    BY <1>11, <2>1, ReplyGoes DEF Orderly, Answered
  <2>3. c \in Ids /\ c \in Running /\ s.commits[c] \in Live /\ s.commits[c].pc = "waiting"
    BY <1>s, <2>2, WaitingLive DEF Running, Waiting
  <2>4. \A d \in Running : d = c
    BY <1>a, <2>3
  <2>5. ~ Going /\ Guarded(c)
    BY <2>3, <2>4 DEF Going, Covered
  <2>6. /\ s.staged = s.commits[c].batch /\ Keeps(s.commits[c].before.text)
        /\ s.tx # None /\ s.commits[c].tx = s.tx.id /\ Keeps(s.tx.before.text)
    BY <2>2, <2>5 DEF Kept, Guarded
  <2> QED BY <2>1, <2>2, <2>3, <2>4, <2>6, KeptGoes
<1>12. ASSUME UNCHANGED <<srv, wanted>> PROVE Kept'
  BY <1>12, <1>u
<1> QED BY <1>r, <1>1, <1>2, <1>3, <1>4, <1>5, <1>6, <1>7, <1>8, <1>9, <1>10, <1>11, <1>12
        DEF Next, vars, User, Server, AgentSteps, Reload, handleManualEditActivity

-------------------------------------------------------------------------------
(* Theorems.                                                               *)

LEMMA IInit ==
    Init => IInv
BY TypesInit, EventInit, DockInit, OrderlyInit, KeptInit DEF IInv

LEMMA INext ==
    IInv /\ [Next]_vars => IInv'
<1> SUFFICES ASSUME IInv, [Next]_vars PROVE IInv'
  OBVIOUS
<1>1. Types /\ EventInv /\ DockInv /\ SteadyInv /\ KeptInv
  BY DEF IInv
<1>2. Types'
  BY <1>1, TypesNext
<1>3. EventInv' /\ DockInv' /\ SteadyInv'
  BY <1>1, <1>2, EventNext, DockNext, SteadyNext
<1>4. KeptInv'
  <2> SUFFICES ASSUME Calm' PROVE Kept'
    BY DEF KeptInv
  <2>1. Calm /\ Steady
    BY CalmBefore, SteadyBefore
  <2>2. Quiet
    BY <2>1, Constants DEF Steady, Quiet
  <2> QED BY <1>1, <1>2, <2>1, <2>2, KeptNext DEF DockInv, SteadyInv, KeptInv
<1> QED BY <1>2, <1>3, <1>4 DEF IInv

\* The inductive invariant holds throughout.
THEOREM Invariant ==
    Spec => []IInv
BY IInit, INext, PTL DEF Spec

\* Every event that is queued is the one its commit waits for, and the dock that
\* is locked has stored why.
THEOREM TypeCorrect ==
    Spec => []TypeOK
<1>1. IInv => TypeOK
  <2> SUFFICES ASSUME IInv PROVE TypeOK
    OBVIOUS
  <2>1. Types /\ EventInv
    BY DEF IInv
  <2>2. srv \in Servers /\ \A c \in Ids : srv.commits[c] \in Commits
    BY <2>1 DEF Types, Servers
  <2>3. {srv.staged, saving, typed, wanted} \subseteq [Edits -> Texts] /\ srv.source \in Sources
    BY <2>1, <2>2 DEF Types, Servers, Batches
  <2>4. \A c \in Ids : srv.commits[c].pc \in {"none", "waiting", "rejected", "finishing", "over"}
    BY <2>2 DEF Commits, Live, NoCommit, Over
  <2>5. {v.id : v \in srv.queue} \subseteq {Awaited(srv, c) : c \in Waiting(srv)}
    BY <2>1, QueuedWaits
  <2>6. /\ page \in [locked : BOOLEAN, stored : {None, "applying", "decision"},
                     count : 0..Cardinality(Edits)]
        /\ page.locked => page.stored # None
    BY <2>1 DEF Types, Pages, Counts
  <2> QED BY <2>3, <2>4, <2>5, <2>6 DEF TypeOK
<1> QED BY <1>1, Invariant, PTL

\* A text the user has saved is never lost: until it is discarded it is staged
\* or in the source.
THEOREM SavedEditsAreKept ==
    Spec => []NoEditIsLost
<1>1. IInv => NoEditIsLost
  <2> SUFFICES ASSUME IInv, Calm, NEW e \in Edits
               PROVE  wanted[e] \in {0, srv.staged[e], srv.source.text[e]}
    BY DEF NoEditIsLost, Calm
  <2>1. Kept
    BY DEF IInv, KeptInv
  <2> QED BY <2>1 DEF Kept, Keeps
<1> QED BY <1>1, Invariant, PTL

\* A commit that needed no repair leaves the source as it was, or sound and
\* without any edit that stays staged.
THEOREM OutcomesAreAtomic ==
    Spec => []OutcomeIsAtomic
<1>1. IInv => OutcomeIsAtomic
  <2> SUFFICES ASSUME IInv, NEW c \in Running, Steady,
                      srv.commits[c].pc = "finishing", srv.commits[c].attempt = 0
               PROVE  Atomic(srv.commits[c])
    BY DEF OutcomeIsAtomic, Steady, Atomic
  <2> QED BY DEF IInv, SteadyInv, Orderly
<1> QED BY <1>1, Invariant, PTL

\* What a commit has changed can be undone while an agent works for it and while
\* the user is asked.
THEOREM ChangesStayCovered ==
    Spec => []ChangesAreCovered
<1>1. IInv => ChangesAreCovered
  <2> SUFFICES ASSUME IInv, Quiet
               PROVE  /\ \A c \in Waiting(srv) : srv.tx # None
                      /\ page.stored = "decision" => srv.tx # None
    BY DEF ChangesAreCovered, Quiet
  <2>1. Covered
    BY DEF IInv, DockInv
  <2> QED BY <2>1 DEF Covered, Guarded, Asked, Running, Waiting
<1> QED BY <1>1, Invariant, PTL

\* With one tab, and a user who is not faster than the messages, no two commits
\* run at the same time: each finds the source as the last one left it.
THEOREM CommitsDoNotOverlap ==
    Spec => [](Quiet => \A c, d \in Running : c = d)
<1>1. IInv => (Quiet => \A c, d \in Running : c = d)
  BY DEF IInv, DockInv, Covered, Alone
<1> QED BY <1>1, Invariant, PTL
-------------------------------------------------------------------------------
(* Nobody waits for an event that is nowhere.                              *)

\* The event is to be polled, or an agent works on it.
Served(id) ==
    \/ \E v \in srv.queue : v.id = id
    \/ \E a \in Agents : agent[a] # Idle /\ agent[a].id = id

CommitsAreServed == \A c \in Waiting(srv) : Served(Awaited(srv, c))

\* A commit that goes on has the next event queued, or waits no more.
LEMMA ServedMoved ==
    ASSUME CommitsAreServed, NEW c \in Ids, Moved(srv, srv', c),
           \A d \in Waiting(srv), a \in Agents :
             d # c /\ agent[a].id = Awaited(srv, d) => agent'[a] = agent[a]
    PROVE  CommitsAreServed'
<1> SUFFICES ASSUME NEW d \in Waiting(srv') PROVE Served(Awaited(srv, d))'
  BY DEF CommitsAreServed
<1>1. /\ \A e \in Ids : e # c => srv'.commits[e] = srv.commits[e]
      /\ \A v \in srv.queue : v \in srv'.queue
  <2>1. CASE srv'.queue = srv.queue
    BY <2>1 DEF Moved
  <2>2. CASE \E v : srv'.queue = srv.queue \cup {v}
    BY <2>2 DEF Moved
  <2> QED BY <2>1, <2>2 DEF Moved
<1>2. CASE d = c
  <2>1. srv'.commits[c].pc = "waiting"
    BY <1>2 DEF Waiting
  <2>2. PICK edits : srv'.queue = srv.queue \cup {[id |-> <<c, srv'.commits[c].sent>>,
                                                   edits |-> edits,
                                                   text |-> srv'.commits[c].batch]}
    BY <2>1 DEF Moved
  <2> DEFINE new == [id |-> <<c, srv'.commits[c].sent>>, edits |-> edits,
                     text |-> srv'.commits[c].batch]
  <2>3. new \in srv'.queue /\ new.id = <<c, srv'.commits[c].sent>>
    BY <2>2
  <2> HIDE DEF new
  <2> QED BY <1>2, <2>3 DEF Served, Awaited
<1>3. CASE d # c
  <2>1. d \in Waiting(srv) /\ Awaited(srv', d) = Awaited(srv, d)
    BY <1>1, <1>3 DEF Waiting, Awaited
  <2>2. Served(Awaited(srv, d))
    BY <2>1 DEF CommitsAreServed
  <2> QED BY <1>1, <1>3, <2>1, <2>2 DEF Served
<1> QED BY <1>2, <1>3

\* A commit that goes on waiting keeps its event.
LEMMA ServedCalm ==
    ASSUME CommitsAreServed,
           \A c \in Waiting(srv') :
             /\ c \in Waiting(srv) /\ srv'.commits[c] = srv.commits[c]
             /\ \A v \in srv.queue : v.id = Awaited(srv, c) => v \in srv'.queue
             /\ \A a \in Agents : agent[a] # Idle /\ agent[a].id = Awaited(srv, c)
                                    => agent'[a] # Idle /\ agent'[a].id = agent[a].id
    PROVE  CommitsAreServed'
<1> SUFFICES ASSUME NEW c \in Waiting(srv') PROVE Served(Awaited(srv, c))'
  BY DEF CommitsAreServed
<1>1. Awaited(srv', c) = Awaited(srv, c) /\ Served(Awaited(srv, c))
  BY DEF CommitsAreServed, Awaited
<1> QED BY <1>1 DEF Served

\* The commits keep what they are.
LEMMA ServedStays ==
    ASSUME CommitsAreServed, srv'.queue = srv.queue, srv'.commits = srv.commits, UNCHANGED agent
    PROVE  CommitsAreServed'
<1>1. Waiting(srv') = Waiting(srv)
  BY DEF Waiting
<1> QED BY <1>1, ServedCalm

LEMMA ServedNext ==
    ASSUME Types, EventInv, CommitsAreServed, [Next]_vars
    PROVE  CommitsAreServed'
<1>s. srv \in Servers /\ \A c \in Ids : srv.commits[c] \in Commits
  BY DEF Types, Servers
<1>1. ASSUME NEW c \in Ids, manualEditCommit(c) PROVE CommitsAreServed'
  <2>1. srv.commits[c] = NoCommit /\ Begun(srv, srv', c) /\ UNCHANGED agent
    BY <1>1, <1>s, CommitBegins DEF manualEditCommit, IsNext
  <2> QED BY <2>1, BegunMoved, ServedMoved
<1>2. ASSUME NEW c \in Ids, manualEditRepair(c), srv.tx # None, UNCHANGED agent
      PROVE  CommitsAreServed'
  <2>1. Moved(srv, srv', c)
    BY <1>2, RepairMoved
  <2> QED BY <1>2, <2>1, ServedMoved
<1>3. ASSUME manualEditDiscard PROVE CommitsAreServed'
  <2>1. \A d \in Ids : srv'.commits[d] = IF d \in Waiting(srv) THEN Rejected(srv.commits[d])
                                         ELSE srv.commits[d]
    BY <1>3, Discards
  <2>2. \A d \in Waiting(srv) : Rejected(srv.commits[d]).pc = "rejected"
    BY <1>s, WaitingLive, RejectedLive
  <2>3. Waiting(srv') = {}
    BY <2>1, <2>2 DEF Waiting
  <2> QED BY <2>3, ServedCalm
<1>4. ASSUME onPendingRollbackClick PROVE CommitsAreServed'
  <2>1. srv'.queue = srv.queue /\ srv'.commits = srv.commits /\ UNCHANGED agent
    BY <1>4, <1>s, RolledBack DEF onPendingRollbackClick
  <2> QED BY <2>1, ServedStays
<1>5. ASSUME NEW e \in Edits, StashArrives(e) PROVE CommitsAreServed'
  <2>1. srv'.queue = srv.queue /\ srv'.commits = srv.commits /\ UNCHANGED agent
    <3>1. saving[e] \in Texts
      BY DEF Types, Batches
    <3> QED BY <1>5, <1>s, <3>1, Entered DEF StashArrives
  <2> QED BY <2>1, ServedStays
<1>6. ASSUME NEW c \in Ids, CommitRejected(c) PROVE CommitsAreServed'
  <2>1. Moved(srv, srv', c) /\ UNCHANGED agent
    BY <1>6, RejectionGoes, GoesOnMoved DEF CommitRejected
  <2> QED BY <2>1, ServedMoved
<1>7. ASSUME NEW c \in Ids, CommitFinishes(c) PROVE CommitsAreServed'
  <2>1. /\ srv'.queue = srv.queue /\ srv'.commits[c] = Over /\ UNCHANGED agent
        /\ \A d \in Ids : d # c => srv'.commits[d] = srv.commits[d]
    BY <1>7, Finishes DEF CommitFinishes
  <2>2. c \notin Waiting(srv')
    BY <2>1 DEF Waiting, Over
  <2>3. \A d \in Waiting(srv') : d \in Waiting(srv) /\ srv'.commits[d] = srv.commits[d]
    BY <2>1, <2>2 DEF Waiting
  <2> QED BY <2>1, <2>3, ServedCalm
<1>8. ASSUME NEW a \in Agents, PollEvent(a) PROVE CommitsAreServed'
  <2>1. PICK v \in srv.queue :
          /\ agent' = [agent EXCEPT ![a] = [id |-> v.id, edits |-> v.edits, text |-> v.text,
                                            edited |-> FALSE]]
          /\ srv' = [srv EXCEPT !.queue = @ \ {v}]
    BY <1>8 DEF PollEvent
  <2>2. srv'.queue = srv.queue \ {v} /\ srv'.commits = srv.commits
    BY <1>s, <2>1 DEF Servers
  <2>3. agent[a] = Idle /\ agent'[a].id = v.id /\ agent'[a] # Idle
    <3> DEFINE work == [id |-> v.id, edits |-> v.edits, text |-> v.text, edited |-> FALSE]
    <3>1. work # Idle
      BY DEF Idle
    <3> QED BY <1>8, <2>1, <3>1 DEF PollEvent, Types
  <2>4. \A b \in Agents : b # a => agent'[b] = agent[b]
    BY <2>1 DEF Types
  <2> SUFFICES ASSUME NEW c \in Waiting(srv') PROVE Served(Awaited(srv, c))'
    BY DEF CommitsAreServed
  <2>5. Awaited(srv', c) = Awaited(srv, c) /\ Served(Awaited(srv, c))
    BY <2>2 DEF CommitsAreServed, Awaited, Waiting
  <2> QED BY <2>2, <2>3, <2>4, <2>5 DEF Served
<1>9. ASSUME NEW a \in Agents, AgentEdits(a) PROVE CommitsAreServed'
  <2>1. srv'.queue = srv.queue /\ srv'.commits = srv.commits
    BY <1>9, <1>s DEF AgentEdits, Servers
  <2>2. agent[a] # Idle /\ agent[a] \in Work /\ agent' = [agent EXCEPT ![a].edited = TRUE]
    BY <1>9 DEF AgentEdits, Types
  <2>3. /\ agent'[a].id = agent[a].id /\ agent'[a] # Idle
        /\ \A b \in Agents : b # a => agent'[b] = agent[b]
    BY <2>2 DEF Types, Work, Idle
  <2>4. Waiting(srv') = Waiting(srv)
    BY <2>1 DEF Waiting
  <2> QED BY <2>1, <2>3, <2>4, ServedCalm
<1>a. ASSUME NEW a \in Agents, AgentReplies(a) PROVE CommitsAreServed'
  <2>1. agent'[a] = Idle /\ \A b \in Agents : b # a => agent'[b] = agent[b]
    BY <1>a DEF AgentReplies, Types
  <2>2. CASE \E c \in Waiting(srv) : /\ Awaited(srv, c) = agent[a].id
                                     /\ GoesOn(srv, srv', c, srv.commits[c])
    <3>1. PICK c \in Waiting(srv) : /\ Awaited(srv, c) = agent[a].id
                                    /\ GoesOn(srv, srv', c, srv.commits[c])
      BY <2>2
    <3>2. c \in Ids /\ Moved(srv, srv', c)
      BY <1>s, <3>1, WaitingLive, GoesOnMoved
    <3>3. \A d \in Waiting(srv) : d # c => Awaited(srv, d) # agent[a].id
      BY <3>1 DEF Awaited
    <3> QED BY <2>1, <3>2, <3>3, ServedMoved
  <2>3. CASE /\ \A c \in Waiting(srv) : Awaited(srv, c) # agent[a].id
             /\ \/ \E stone \in srv.timedOut : srv' = rollbackTimedOutReply(srv, stone)
                \/ srv' = srv
    <3>0. ASSUME NEW stone \in srv.timedOut, srv' = rollbackTimedOutReply(srv, stone)
          PROVE  srv'.queue = srv.queue /\ srv'.commits = srv.commits
      BY <1>s, <3>0 DEF rollbackTimedOutReply, Servers
    <3>1. srv'.queue = srv.queue /\ srv'.commits = srv.commits
      BY <2>3, <3>0
    <3>2. Waiting(srv') = Waiting(srv)
      BY <3>1 DEF Waiting
    <3> QED BY <2>1, <2>3, <3>1, <3>2, ServedCalm
  <2> QED BY <1>a, <2>2, <2>3, ReplyGoes
<1>b. ASSUME NEW c \in Ids, EventTimesOut(c) PROVE CommitsAreServed'
  <2>1. c \in Waiting(srv) /\ UNCHANGED agent
    BY <1>b DEF EventTimesOut
  <2>2. /\ srv'.queue = {v \in srv.queue : v.id # Awaited(srv, c)}
        /\ srv'.commits[c] = Rejected(srv.commits[c])
        /\ \A d \in Ids : d # c => srv'.commits[d] = srv.commits[d]
    BY <1>b, <1>s, <2>1, TimedOut DEF EventTimesOut
  <2>3. Rejected(srv.commits[c]).pc = "rejected"
    BY <1>s, <2>1, WaitingLive, RejectedLive
  <2>4. \A d \in Waiting(srv') : /\ d # c /\ d \in Waiting(srv)
                                 /\ srv'.commits[d] = srv.commits[d]
                                 /\ Awaited(srv, d) # Awaited(srv, c)
    BY <2>2, <2>3 DEF Waiting, Awaited
  <2> QED BY <2>1, <2>2, <2>4, ServedCalm
<1>c. ASSUME Restart PROVE CommitsAreServed'
  <2>1. /\ srv'.queue = {} /\ UNCHANGED agent
        /\ \A c \in Ids : srv'.commits[c] = IF srv.commits[c] = NoCommit THEN NoCommit ELSE Over
    BY <1>c, <1>s, Restarted DEF Restart
  <2>2. \A c \in Ids : srv'.commits[c].pc \in {"none", "over"}
    BY <2>1 DEF NoCommit, Over
  <2>3. Waiting(srv') = {}
    BY <2>2 DEF Waiting
  <2> QED BY <2>3, ServedCalm
<1>d. ASSUME UNCHANGED <<srv, agent>> PROVE CommitsAreServed'
  BY <1>d, ServedStays
<1> QED BY <1>1, <1>2, <1>3, <1>4, <1>5, <1>6, <1>7, <1>8, <1>9, <1>a, <1>b, <1>c, <1>d
        DEF Next, vars, User, Server, AgentSteps, applyEditing, onPendingPillClick,
            onPendingKeepFixingClick, onPendingTrashClick, handleManualEditActivity,
            OtherTab, Reload

\* Whatever happens, restarts and discards included, the event a commit waits for
\* is to be polled or an agent works on it: no commit waits in vain
\* (pushApplyEventAndWait, cancelPendingEvents).
THEOREM NoCommitWaitsInVain ==
    Spec => []CommitsAreServed
<1>1. Init => CommitsAreServed
  BY DEF Init, CommitsAreServed, Waiting, NoCommit
<1>2. IInv /\ CommitsAreServed /\ [Next]_vars => CommitsAreServed'
  BY ServedNext DEF IInv
<1> QED BY <1>1, <1>2, Invariant, PTL DEF Spec
===============================================================================
