------------------------------ MODULE ManualApply ------------------------------
(***************************************************************************)
(* Copy edits made in the page (live/manual-edit-routes.mjs,               *)
(* manual-apply.mjs, manual-edits-buffer.mjs, live-commit-manual-edits.mjs *)
(* and the dock of live-browser.js): edits are staged on disk, and Apply   *)
(* has an agent write them into the source in chunks, verifies what it     *)
(* reports, has it repair what does not verify, and takes what verified    *)
(* off the stage.  A transaction file remembers the source from before.    *)
(*                                                                         *)
(* One page, whose texts are all in one source file; every edit is an      *)
(* entry of its own with one op, and its texts are numbered 1, 2, ... in   *)
(* the order the user typed them (0 is the original).                      *)
(***************************************************************************)
EXTENDS Integers, SequencesExt

CONSTANTS
  Edits,          \* texts of the page the user may edit
  Agents,         \* processes polling for work
  MaxText,        \* bound on the texts typed for one edit
  MaxCommits,     \* bound on commits
  MaxRepairs,     \* repairAttemptLimit
  ChunkSize,      \* manualEditApplyChunkSize
  None,
  Troubles        \* which of these happen, at most one of them and once:
                  \*   "timeout"  an apply event runs out of time
                  \*   "restart"  the server dies and is started again
                  \*   "race"     a save arrives while a commit is running
                  \*   "tab"      another tab applies or discards
                  \*   "reload"   the page is reloaded

ASSUME BoundsAssumption ==
    /\ IsFiniteSet(Edits) /\ MaxText \in Nat \ {0} /\ MaxCommits \in Nat \ {0}
    /\ MaxRepairs \in 1..10 /\ ChunkSize \in 1..20

Kinds == {"timeout", "restart", "race", "tab", "reload"}

Texts == 0..MaxText
Ids == 1..MaxCommits

Sources == [text : [Edits -> Texts], ok : BOOLEAN]
Transactions == [id : Ids, edits : SUBSET Edits, before : Sources]

ASSUME TroublesAssumption == Troubles \subseteq Kinds

ASSUME NoneAssumption ==
    /\ None \notin {"applying", "decision", "late"} \cup Kinds
    /\ None \notin Transactions

VARIABLES
  srv,            \* the server: files, commits and apply events
  agent,          \* the apply event each agent works on
  page,           \* the dock: apply in flight, stored phase, count shown
  sse,            \* messages on their way to the page
  saving,         \* saves on their way to the server
  trouble,        \* history: the one trouble that has happened, or "late": the
                  \*   user has been faster than the messages
  typed,          \* how many texts the user has typed for each edit
  wanted          \* history: the text last saved for an edit and not discarded

vars == <<srv, agent, page, sse, saving, trouble, typed, wanted>>

\* The fields of srv: staged (the buffer file: a text for each edit, or 0),
\* source (the source file: the text of each edit, and whether the file is
\* sound), tx (the transaction file), commits, queue (apply events no agent has
\* polled yet) and timedOut (tombstones of events nobody waits for any more).

Original == [text |-> [e \in Edits |-> 0], ok |-> TRUE]
Nothing == [e \in Edits |-> 0]

Suffers(kind) == kind \in Troubles /\ trouble = None /\ trouble' = kind

Pending(batch) == {e \in Edits : batch[e] # 0}

NoCommit == [pc |-> "none"]
Over     == [pc |-> "over"]

Waiting(s) == {c \in Ids : s.commits[c].pc = "waiting"}

\* The event a commit waits for.
Awaited(s, c) == <<c, s.commits[c].sent>>

-------------------------------------------------------------------------------
(* Files.  Each operator maps the server to the next one.                  *)

\* rollbackManualApplyTransaction: restores the source if an edit of the
\* transaction is still staged; the transaction is gone either way.
rollbackTransaction(s) ==
    IF s.tx = None THEN s
    ELSE [s EXCEPT !.tx = None,
                   !.source = IF s.tx.edits \cap Pending(s.staged) # {}
                              THEN s.tx.before ELSE @]

writeTransaction(s, c) ==
    [s EXCEPT !.tx = [id |-> c, edits |-> Pending(s.staged), before |-> s.source]]

\* Only a commit's own transaction is cleared.
clearTransaction(s, id) ==
    IF s.tx # None /\ s.tx.id = id THEN [s EXCEPT !.tx = None] ELSE s

\* A save merges into the entry that is staged for the edit and keeps its id; a
\* new entry has a new id, which an older transaction does not know.
stageEntry(s, e, text) ==
    [s EXCEPT !.staged[e] = text,
              !.tx = IF @ # None /\ s.staged[e] = 0
                     THEN [s.tx EXCEPT !.edits = s.tx.edits \ {e}] ELSE @]

-------------------------------------------------------------------------------
(* A commit, from dispatch to outcome.                                     *)

\* splitManualApplyBatch: entries of one op each, packed in order.
splitManualApplyBatch(edits) ==
    LET order   == SetToSeq(edits)
        n       == Len(order)
        last(i) == IF i * ChunkSize > n THEN n ELSE i * ChunkSize
    IN  [i \in 1..((n + ChunkSize - 1) \div ChunkSize) |->
            {order[j] : j \in ((i - 1) * ChunkSize + 1)..last(i)}]

\* pushApplyEventAndWait: with each event, the source a late reply goes back to.
pushApplyEvent(s, c, commit, edits) ==
    [s EXCEPT !.commits[c] = [commit EXCEPT !.pc = "waiting", !.sent = @ + 1,
                                              !.eventBefore = s.source],
              !.queue = @ \cup {[id |-> <<c, commit.sent + 1>>, edits |-> edits,
                                 text |-> commit.batch]}]

Finishing(s, c, commit) == [s EXCEPT !.commits[c] = [commit EXCEPT !.pc = "finishing"]]

\* (Mutant.)  The source stays as the agent left it.
rollbackChangedFilesNot(s, c, commit) == Finishing(s, c, commit)

\* Nothing has been applied, and the source is as it was.
rollbackChangedFiles(s, c, commit) ==
    Finishing([s EXCEPT !.source = commit.before], c, commit)

\* (Mutant.)  The whole batch is taken off the stage.
clearAppliedEntriesAll(s, c, commit, verified) ==
    Finishing([s EXCEPT !.staged = [e \in Edits |-> IF commit.batch[e] # 0 THEN 0 ELSE @[e]]],
              c, commit)

\* By id, whatever text is staged by now.  (An edit that was discarded and saved
\* again while a repair went on would have a new id and stay: not told apart.)
clearAppliedEntries(s, c, commit, verified) ==
    Finishing([s EXCEPT !.staged = [e \in Edits |-> IF e \in verified THEN 0 ELSE @[e]]],
              c, commit)

\* The next repair event, for the whole batch; after the last one the user has
\* to decide, and source and transaction stay as they are.
Repair(s, c, commit) ==
    IF commit.attempt < MaxRepairs
    THEN pushApplyEvent(s, c, [commit EXCEPT !.attempt = @ + 1], Pending(commit.batch))
    ELSE Finishing(s, c, [commit EXCEPT !.decide = TRUE])

\* The edits of the batch that the source shows (verifyAppliedEntry).
Shown(src, commit) == {e \in Pending(commit.batch) : src.text[e] = commit.batch[e]}

\* commitManualEdits, once the agent's whole result is in the commit.
Validate(s, c, commit) ==
    LET edits    == Pending(commit.batch)
        verified == commit.applied \cap Shown(s.source, commit)
        leaked   == Shown(s.source, commit) \ (commit.applied \cup Shown(commit.before, commit))
    IN  IF \/ commit.status = "error"
           \/ commit.applied \cap commit.failed # {}
           \/ ~ commit.files /\ s.source # commit.before
        THEN rollbackChangedFiles(s, c, commit)
        ELSE IF commit.applied # {} /\ ~ commit.files THEN Repair(s, c, commit)
        ELSE IF leaked # {} THEN rollbackChangedFiles(s, c, commit)
        ELSE IF verified # commit.applied THEN Repair(s, c, commit)
        ELSE IF commit.files /\ ~ s.source.ok
        THEN Repair(s, c, [commit EXCEPT !.applied = IF @ = {} THEN edits ELSE @])
        ELSE clearAppliedEntries(s, c, commit, verified)

\* After a repair event claims add up, and all of them must show in the source.
Revalidate(s, c, commit) ==
    IF \/ ~ commit.applied \subseteq Shown(s.source, commit)
       \/ commit.files /\ ~ s.source.ok
    THEN Repair(s, c, commit)
    ELSE clearAppliedEntries(s, c, commit, commit.applied)

\* The result of all chunks together: what is not applied has failed.
Chunked(commit) ==
    [commit EXCEPT !.todo = <<>>,
                   !.failed = Pending(commit.batch) \ commit.applied,
                   !.status = IF commit.applied = {} THEN "error" ELSE "done"]

\* An event's reply: a repair's, a lone event's or a chunk's.
resolveDeferred(s, c, reply) ==
    LET commit == s.commits[c]
        heard  == [commit EXCEPT !.files = @ \/ reply.files]
        chunk  == [heard EXCEPT !.applied = @ \cup
                     (IF reply.status = "error" THEN {} ELSE reply.applied \ reply.failed)]
    IN  IF commit.attempt > 0
        THEN Revalidate(s, c, [heard EXCEPT !.applied = @ \cup reply.applied])
        ELSE IF ~ commit.chunked
        THEN Validate(s, c, [heard EXCEPT !.applied = reply.applied, !.failed = reply.failed,
                                          !.status = reply.status])
        ELSE IF commit.todo = <<>> \/ reply.status = "error"
        THEN Validate(s, c, Chunked(chunk))
        ELSE pushApplyEvent(s, c, [chunk EXCEPT !.todo = Tail(@)], Head(commit.todo))

\* (Mutant.)  Nobody is told that there will be no reply.
rejectDeferredSilent(s, c) == s

\* No reply: a repair is tried again, a lone event has failed, a chunk has and
\* so have the chunks after it.
rejectDeferred(s, c) ==
    LET commit == s.commits[c]
    IN  IF commit.attempt > 0 THEN Repair(s, c, commit)
        ELSE IF ~ commit.chunked THEN rollbackChangedFiles(s, c, commit)
        ELSE Validate(s, c, Chunked(commit))

\* (Mutant.)  The event stays in the queue.
TombstonedQueued(s, c) ==
    [s EXCEPT !.timedOut = @ \cup {[id |-> Awaited(s, c),
                                    before |-> s.commits[c].eventBefore]}]

\* The event a commit waits for is withdrawn and remembered.
Tombstoned(s, c) ==
    [s EXCEPT !.queue = {v \in @ : v.id # Awaited(s, c)},
              !.timedOut = @ \cup {[id |-> Awaited(s, c),
                                    before |-> s.commits[c].eventBefore]}]

\* cancelPendingEvents: the snapshots of the events are restored one after the
\* other, that of the commit `last' last, and the commits hear of it.
cancelPendingEvents(s, last) ==
    [s EXCEPT !.queue = {},
              !.source = s.commits[last].eventBefore,
              !.timedOut = @ \cup {[id |-> Awaited(s, c), before |-> s.commits[c].eventBefore] :
                                     c \in Waiting(s)},
              !.commits = [c \in Ids |-> IF c \in Waiting(s)
                                         THEN [@[c] EXCEPT !.pc = "rejected"] ELSE @[c]]]

\* A reply nobody waits for: the snapshot of its event is restored.
rollbackTimedOutReply(s, tombstone) ==
    [s EXCEPT !.source = tombstone.before, !.timedOut = @ \ {tombstone}]

-------------------------------------------------------------------------------
(* The routes.                                                             *)

Count(s) == Cardinality(Pending(s.staged))
Tell(type, s) == sse' = Append(sse, [type |-> type, count |-> Count(s)])

NewCommit(s, transaction) ==
    [pc |-> "waiting", batch |-> s.staged, before |-> s.source, eventBefore |-> s.source,
     tx |-> transaction, sent |-> 0, chunked |-> FALSE, todo |-> <<>>, applied |-> {},
     failed |-> {}, status |-> "done", files |-> FALSE, attempt |-> 0, decide |-> FALSE]

\* The server has one thread: a commit that need not wait goes on before the
\* next request or timer.
Free == \A c \in Ids : srv.commits[c].pc \notin {"rejected", "finishing"}

IsNext(c) == Free /\ srv.commits[c] = NoCommit /\ \A d \in 1..(c - 1) : srv.commits[d] # NoCommit

\* POST /manual-edit-commit: an abandoned transaction is rolled back, the next
\* one written, and what is staged is sent to the agent.
CommitStarted(s, c) ==
    LET clean  == rollbackTransaction(s)
        chunks == splitManualApplyBatch(Pending(s.staged))
    IN  IF Count(s) = 0 THEN Finishing(clean, c, NewCommit(clean, c))
        ELSE pushApplyEvent(writeTransaction(clean, c), c,
               [NewCommit(clean, c) EXCEPT !.chunked = Len(chunks) > 1, !.todo = Tail(chunks)],
               Head(chunks))

manualEditCommit(c) ==
    /\ IsNext(c)
    /\ srv' = CommitStarted(srv, c)
    /\ Tell("started", srv)
    /\ UNCHANGED <<agent, saving, typed, wanted>>

\* With repair=1 the source as it is, is validated for all that is staged.
manualEditRepair(c) ==
    /\ IsNext(c)
    /\ srv' = IF Count(srv) = 0 THEN Finishing(srv, c, NewCommit(srv, None))
              ELSE Validate(srv, c, [NewCommit(srv, srv.tx.id) EXCEPT
                                       !.applied = Pending(srv.staged), !.files = TRUE])
    /\ Tell("started", srv)

manualEditDiscard ==
    /\ Free
    /\ LET clean == [rollbackTransaction(srv) EXCEPT !.staged = Nothing]
       IN  \/ Waiting(srv) = {} /\ srv' = clean
           \/ \E c \in Waiting(srv) : srv' = cancelPendingEvents(clean, c)
    /\ Tell("discarded", srv')
    /\ wanted' = Nothing
    /\ UNCHANGED <<agent, saving, typed>>

CommitRejected(c) ==
    /\ srv.commits[c].pc = "rejected"
    /\ srv' = rejectDeferred(srv, c)
    /\ UNCHANGED <<agent, page, sse, saving, trouble, typed, wanted>>

\* (Mutant.)  The transaction is cleared although the user has to decide.
CommitFinishesCleared(c) ==
    /\ srv.commits[c].pc = "finishing"
    /\ srv' = [clearTransaction(srv, srv.commits[c].tx) EXCEPT !.commits[c] = Over]
    /\ Tell(IF srv.commits[c].decide THEN "decide" ELSE "done", srv)
    /\ UNCHANGED <<agent, page, saving, trouble, typed, wanted>>

\* The `finally' of a commit, and what it tells the pages.  (An exception that
\* commitManualEdits does not catch itself is a file that cannot be read or
\* written: no such failures here.)
CommitFinishes(c) ==
    /\ srv.commits[c].pc = "finishing"
    /\ LET commit == srv.commits[c]
       IN  /\ srv' = [IF commit.decide THEN srv ELSE clearTransaction(srv, commit.tx)
                        EXCEPT !.commits[c] = Over]
           /\ Tell(IF commit.decide THEN "decide" ELSE "done", srv)
    /\ UNCHANGED <<agent, page, saving, trouble, typed, wanted>>

NewPage == [locked |-> FALSE, stored |-> None, count |-> 0]

\* setPendingApplyLoading(true), keeping the phase that is stored.
Locked(p) == [p EXCEPT !.locked = TRUE, !.stored = IF @ = None THEN "applying" ELSE @]

\* Edits are left: the dock goes on applying if it was, or storage says it was.
updatePendingCounter(p, n) ==
    IF n = 0 THEN NewPage
    ELSE IF p.locked \/ p.stored # None THEN [Locked(p) EXCEPT !.count = n]
    ELSE [p EXCEPT !.count = n]

\* A save reaches the server.  Its answer has the page count what is staged, no
\* later than the message does.
StashArrives(e) ==
    /\ saving[e] # 0 /\ Free
    /\ IF \E c \in Ids : srv.commits[c].pc = "waiting"
       THEN Suffers("race") ELSE UNCHANGED trouble
    /\ srv' = stageEntry(srv, e, saving[e])
    /\ saving' = [saving EXCEPT ![e] = 0]
    /\ wanted' = [wanted EXCEPT ![e] = saving[e]]
    /\ Tell("stashed", srv')
    /\ page' \in {page, updatePendingCounter(page, Count(srv'))}
    /\ UNCHANGED <<agent, typed>>

EventTimesOut(c) ==
    /\ Free /\ c \in Waiting(srv) /\ Suffers("timeout")
    /\ srv' = [Tombstoned(srv, c) EXCEPT !.commits[c].pc = "rejected"]
    /\ UNCHANGED <<agent, page, sse, saving, typed, wanted>>

-------------------------------------------------------------------------------
(* The dock of the page.                                                   *)

showManualApplyDecision(p) == [p EXCEPT !.locked = FALSE, !.stored = "decision"]

\* fetchPendingCount reads what is staged by then.
Handled(m) ==
    CASE m.type = "stashed"  -> updatePendingCounter(page, m.count)
      [] m.type = "started"  -> [page EXCEPT !.locked = TRUE, !.stored = "applying",
                                             !.count = IF m.count > 0 THEN m.count ELSE @]
      [] m.type = "decide"   -> showManualApplyDecision(page)
      [] m.type = "done"     -> updatePendingCounter(NewPage, m.count)
      [] m.type = "rollback" -> updatePendingCounter([page EXCEPT !.stored = None], Count(srv))
      [] m.type = "discarded" -> updatePendingCounter(page, Count(srv))

handleManualEditActivity ==
    /\ sse # <<>>
    /\ page' = Handled(Head(sse)) /\ sse' = Tail(sse)
    /\ UNCHANGED <<srv, agent, saving, trouble, typed, wanted>>

applyEditing(e) ==
    /\ ~ page.locked /\ saving[e] = 0 /\ typed[e] < MaxText
    /\ typed' = [typed EXCEPT ![e] = @ + 1]
    /\ saving' = [saving EXCEPT ![e] = typed[e] + 1]
    /\ UNCHANGED <<srv, agent, page, sse, trouble, wanted>>

\* The user decides before the page has heard of the last outcome.
Overtakes ==
    trouble' = IF \E m \in ToSet(sse) : m.type \in {"decide", "done"} THEN "late" ELSE trouble

onPendingPillClick(c) ==
    /\ page.count > 0 /\ ~ page.locked /\ page.stored = None
    /\ page' = Locked(page)
    /\ manualEditCommit(c) /\ Overtakes

onPendingTrashClick ==
    /\ page.count > 0 /\ ~ page.locked /\ page.stored = None
    /\ page' = NewPage
    /\ manualEditDiscard /\ Overtakes

\* Without a transaction the server refuses and the question is shown again.
onPendingKeepFixingClick(c) ==
    /\ page.count > 0 /\ ~ page.locked /\ page.stored = "decision" /\ srv.tx # None
    /\ page' = [page EXCEPT !.locked = TRUE, !.stored = "applying"]
    /\ manualEditRepair(c) /\ Overtakes
    /\ UNCHANGED <<agent, saving, typed, wanted>>

onPendingRollbackClick ==
    /\ Free /\ ~ page.locked /\ page.stored = "decision"
    /\ srv' = rollbackTransaction(srv)
    /\ page' = updatePendingCounter([page EXCEPT !.stored = None], Count(srv))
    /\ Tell("rollback", srv) /\ Overtakes
    /\ UNCHANGED <<agent, saving, typed, wanted>>

\* Another tab of the same page, loaded before this one applied.
OtherTab ==
    /\ Suffers("tab")
    /\ manualEditDiscard \/ \E c \in Ids : manualEditCommit(c) /\ Count(srv) > 0
    /\ UNCHANGED page

\* What sessionStorage says outlives the reload, messages under way do not.
Reload ==
    /\ Suffers("reload")
    /\ page' = updatePendingCounter([NewPage EXCEPT !.stored = page.stored], Count(srv))
    /\ sse' = <<>>
    /\ UNCHANGED <<srv, agent, saving, typed, wanted>>

-------------------------------------------------------------------------------
(* The agents and the server's restart.                                    *)

Idle == [id |-> None]

\* An event is leased for longer than its commit waits for it (live-poll.mjs asks
\* for ten minutes), and so handed out once.
PollEvent(a) ==
    /\ Free /\ agent[a] = Idle
    /\ \E v \in srv.queue :
         /\ agent' = [agent EXCEPT ![a] = [id |-> v.id, edits |-> v.edits,
                                           text |-> v.text, edited |-> FALSE]]
         /\ srv' = [srv EXCEPT !.queue = @ \ {v}]
    /\ UNCHANGED <<page, sse, saving, trouble, typed, wanted>>

\* It writes some of the edits, and may leave the file unsound or mend it.
AgentEdits(a) ==
    /\ agent[a] # Idle /\ ~ agent[a].edited
    /\ agent' = [agent EXCEPT ![a].edited = TRUE]
    /\ \E written \in SUBSET agent[a].edits, ok \in BOOLEAN :
         srv' = [srv EXCEPT !.source =
                   [text |-> [e \in Edits |-> IF e \in written THEN agent[a].text[e]
                                              ELSE @.text[e]],
                    ok |-> ok]]
    /\ UNCHANGED <<page, sse, saving, trouble, typed, wanted>>

\* The replies validateManualApplyResultMessage lets through.
Replies(edits) ==
    {r \in [status : {"done", "partial", "error"}, applied : SUBSET edits,
            failed : SUBSET edits, files : BOOLEAN] :
       CASE r.status = "done"    -> r.failed = {} /\ r.applied # {}
         [] r.status = "partial" -> r.applied \cup r.failed # {}
         [] r.status = "error"   -> r.applied = {}}

\* The commit that waits for the reply gets it; a tombstone has it undone; any
\* other reply is refused.
AgentReplies(a) ==
    /\ Free /\ agent[a] # Idle /\ agent[a].edited
    /\ agent' = [agent EXCEPT ![a] = Idle]
    /\ LET awaiting   == {c \in Waiting(srv) : Awaited(srv, c) = agent[a].id}
           tombstones == {t \in srv.timedOut : t.id = agent[a].id}
       IN  \/ \E c \in awaiting, r \in Replies(agent[a].edits) :
                srv' = resolveDeferred(srv, c, r)
           \/ awaiting = {} /\ \E t \in tombstones : srv' = rollbackTimedOutReply(srv, t)
           \/ awaiting = {} /\ tombstones = {} /\ UNCHANGED srv
    /\ UNCHANGED <<page, sse, saving, trouble, typed, wanted>>

\* A new server has only the files; its page has another token, so another key
\* in sessionStorage.  Agents go on with the work they have.
Restart ==
    /\ Suffers("restart")
    /\ srv' = rollbackTransaction(
                [srv EXCEPT !.queue = {}, !.timedOut = {},
                   !.commits = [c \in Ids |-> IF @[c] = NoCommit THEN NoCommit ELSE Over]])
    /\ page' = updatePendingCounter(NewPage, Count(srv))
    /\ sse' = <<>> /\ saving' = Nothing
    /\ UNCHANGED <<agent, typed, wanted>>

-------------------------------------------------------------------------------
Init ==
    /\ srv = [staged |-> Nothing, source |-> Original, tx |-> None,
              commits |-> [c \in Ids |-> NoCommit], queue |-> {}, timedOut |-> {}]
    /\ agent = [a \in Agents |-> Idle]
    /\ page = NewPage /\ sse = <<>> /\ saving = Nothing /\ trouble = None
    /\ typed = Nothing /\ wanted = Nothing

User ==
    \/ \E e \in Edits : applyEditing(e)
    \/ \E c \in Ids : onPendingPillClick(c) \/ onPendingKeepFixingClick(c)
    \/ onPendingTrashClick \/ onPendingRollbackClick

AgentSteps(a) == PollEvent(a) \/ AgentEdits(a) \/ AgentReplies(a)

Server ==
    \/ \E e \in Edits : StashArrives(e)
    \/ \E c \in Ids : CommitRejected(c) \/ CommitFinishes(c)

Next ==
    \/ User \/ Server \/ handleManualEditActivity
    \/ \E a \in Agents : AgentSteps(a)
    \/ \E c \in Ids : EventTimesOut(c)
    \/ OtherTab \/ Reload \/ Restart

Spec == Init /\ [][Next]_vars

\* Agents poll and work, commits go on, messages arrive; the user need not act.
FairSpec ==
    /\ Spec /\ WF_vars(Server) /\ WF_vars(handleManualEditActivity)
    /\ \A a \in Agents : WF_vars(AgentSteps(a))

-------------------------------------------------------------------------------
(* Properties.                                                             *)

Running == {c \in Ids : srv.commits[c].pc \in {"waiting", "rejected", "finishing"}}

TypeOK ==
    /\ {srv.staged, saving, typed, wanted} \subseteq [Edits -> Texts]
    /\ srv.source \in Sources
    /\ \A c \in Ids : srv.commits[c].pc \in {"none", "waiting", "rejected", "finishing", "over"}
    /\ {v.id : v \in srv.queue} \subseteq {Awaited(srv, c) : c \in Waiting(srv)}
    /\ page \in [locked : BOOLEAN, stored : {None, "applying", "decision"},
                 count : 0..Cardinality(Edits)]
    /\ page.locked => page.stored # None

\* A text the user has saved is never lost: until it is discarded it is staged
\* or in the source.
NoEditIsLost ==
    trouble \in {None, "reload"} =>
      \A e \in Edits : wanted[e] \in {0, srv.staged[e], srv.source.text[e]}

\* A commit that needed no repair is all or nothing: either the source is as it
\* was, or it is sound and shows no edit that stays staged.
OutcomeIsAtomic ==
    \A c \in Running :
      LET commit == srv.commits[c]
      IN  /\ trouble \in {None, "race", "reload"}
          /\ commit.pc = "finishing" /\ commit.attempt = 0
          =>
            \/ srv.source = commit.before
            \/ /\ srv.source.ok
               /\ \A e \in Pending(srv.staged) :
                    srv.staged[e] \notin {srv.source.text[e]} \ {commit.before.text[e]}

\* What can be undone is on disk: while a commit that has changed the source
\* waits for an agent, and while the user is asked whether to roll it back.
ChangesAreCovered ==
    trouble \notin {"tab", "late"} =>
      /\ \A c \in Waiting(srv) : srv.source # srv.commits[c].before => srv.tx # None
      /\ page.stored = "decision" => srv.tx # None

\* Every commit comes to an end, whatever the agents answer.
CommitEnds == Running # {} ~> Running = {}
===============================================================================
