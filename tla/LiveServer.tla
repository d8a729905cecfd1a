------------------------------ MODULE LiveServer ------------------------------
(***************************************************************************)
(* The helper server of live mode (live-server.mjs) with the agents that   *)
(* poll it (live-poll.mjs, live-accept.mjs, live-complete.mjs) and the     *)
(* journal (LiveSessionStore).  A browser tab posts a session's requests;  *)
(* the server journals and queues them; an agent long-polls, gets an event *)
(* under a lease, edits the source and replies; the reply acknowledges the *)
(* event by the session's id and is journalled.                            *)
(*                                                                         *)
(* Every lease has the same length (live-poll.mjs always asks for          *)
(* DEFAULT_EVENT_LEASE_MS), so leases run out in the order they were       *)
(* given and the unexpired ones are kept as a sequence in that order.      *)
(***************************************************************************)
EXTENDS LiveSessionStore, SequencesExt

CONSTANTS
  Sessions,       \* session ids a browser makes up
  Agents,         \* processes running live-poll.mjs
  MaxFaults,      \* bound on agent crashes and server deaths together
  MaxEpisodes,    \* bound on the browser's leave-and-return episodes
  ScriptsFail     \* may live-accept.mjs or the agent's own edit fail?

VARIABLES
  srv,            \* the server's memory: queue, parked polls, leases, timer
  journal,        \* replay of each session's journal file
  source,         \* what the session left in the project's source
  agent,          \* what each agent process is doing
  tab,            \* how far the browser is with each session
  checkpoints,    \* fire-and-forget browser checkpoints still under way
  clients,        \* is an event stream of the page connected?
  exitTimer,      \* the 8 s timer armed when the last stream closes
  faults, episodes

vars == <<srv, journal, source, agent, tab, checkpoints, clients, exitTimer,
          faults, episodes>>

Exit == [id |-> None, type |-> "exit"]
Events == [id : Sessions, type : WorkTypes] \cup {Exit}
Nothing == [id |-> None, type |-> None]

\* How an agent's reply ends the work it was given.
Replies == {"done", "steer_done", "discarded", "complete", "carbonize", "agent_done",
            "error"}

IdleAgent == [pc |-> "idle", event |-> Nothing, reply |-> None]

NewServer == [up |-> TRUE, pendingEvents |-> <<>>, pendingPolls |-> <<>>,
              leases |-> <<>>, leaseTimer |-> Nothing, told |-> None]

\* Sessions have ids, and there are finitely many of them.
ASSUME SessionsAssumption == IsFiniteSet(Sessions) /\ None \notin Sessions

ASSUME BoundsAssumption ==
    MaxRevision \in Nat /\ MaxFaults \in Nat /\ MaxEpisodes \in Nat

-------------------------------------------------------------------------------
(* Filtered arrays.                                                        *)

\* The members of S that s lists, in the order in which it lists them.
Keep(s, S) ==
    LET kept[n \in 0..Len(s)] ==
          IF n = 0 THEN <<>>
          ELSE IF s[n] \in S THEN Append(kept[n - 1], s[n]) ELSE kept[n - 1]
    IN  kept[Len(s)]

Without(s, e) == Keep(s, ToSet(s) \ {e})

-------------------------------------------------------------------------------
(* The queue.  Each operator maps the server's memory to the next one.     *)

Available(s) == Keep(s.pendingEvents, ToSet(s.pendingEvents) \ ToSet(s.leases))

agentPollingConnected(s) == s.pendingPolls # <<>> \/ s.leases # <<>>

Polling(s) == IF agentPollingConnected(s) THEN "polling" ELSE "silent"

broadcastAgentPollingIfChanged(s) == [s EXCEPT !.told = Polling(s)]

\* Mutant: the timer is armed for no lease.
scheduleLeaseFlushUnarmed(s) == [s EXCEPT !.leaseTimer = Nothing]

\* The timer is re-armed for the lease that runs out next, if any does.
scheduleLeaseFlush(s) ==
    [s EXCEPT !.leaseTimer = IF s.leases = <<>> THEN Nothing ELSE Head(s.leases)]

\* An event without an id is handed over and gone; any other one is leased.
leaseEvent(s, event) ==
    IF event.id = None
    THEN [s EXCEPT !.pendingEvents = Without(@, event)]
    ELSE broadcastAgentPollingIfChanged(
           scheduleLeaseFlush([s EXCEPT !.leases = Append(@, event)]))

\* How many parked polls the loop of flushPendingPolls serves: the i-th poll
\* gets the i-th available event.
Served(s) == LET polls == Len(s.pendingPolls)
                 events == Len(Available(s))
             IN  IF polls < events THEN polls ELSE events

Deliveries(s) ==
    [i \in 1..Served(s) |-> [agent |-> s.pendingPolls[i], event |-> Available(s)[i]]]

flushPendingPolls(s) ==
    LET n     == Served(s)
        given == SubSeq(Available(s), 1, n)
        after == [s EXCEPT
          !.pendingPolls = SubSeq(@, n + 1, Len(@)),
          !.leases = @ \o Without(given, Exit),
          !.pendingEvents = IF Contains(given, Exit) THEN Without(@, Exit) ELSE @]
        armed == scheduleLeaseFlush(after)
    IN  IF s.pendingPolls = <<>> THEN armed ELSE broadcastAgentPollingIfChanged(armed)

\* The agents after a flush: those whose poll was answered have an event.
Answered(s) ==
    [a \in Agents |->
        LET mine == {d \in ToSet(Deliveries(s)) : d.agent = a}
        IN  IF mine = {} THEN agent[a]
            ELSE [pc |-> "working", event |-> (CHOOSE d \in mine : TRUE).event,
                  reply |-> None]]

\* What enqueueEvent leaves for the flush that ends it; a duplicate of a
\* queued event is dropped before the flush.
IsDuplicate(s, event) == event.id # None /\ Contains(s.pendingEvents, event)

enqueueEvent(s, event) == [s EXCEPT !.pendingEvents = Append(@, event)]

\* Mutant: a queued event waits for the next poll or timer.
EnqueueUnflushed(event) ==
    /\ srv' = IF IsDuplicate(srv, event) THEN srv ELSE enqueueEvent(srv, event)
    /\ UNCHANGED agent

Enqueue(event) ==
    IF IsDuplicate(srv, event) THEN UNCHANGED <<srv, agent>>
    ELSE /\ srv' = flushPendingPolls(enqueueEvent(srv, event))
         /\ agent' = Answered(enqueueEvent(srv, event))

EventsOf(s, id) == Keep(s.pendingEvents, {e \in ToSet(s.pendingEvents) : e.id = id})

\* Mutant: the lease outlives its event.
acknowledgePendingEventLeased(s, id) ==
    IF EventsOf(s, id) = <<>> THEN s
    ELSE [s EXCEPT !.pendingEvents = Without(@, Head(EventsOf(s, id)))]

\* The FIRST queued event with the id is acknowledged, whatever its type.
acknowledgePendingEvent(s, id) ==
    IF EventsOf(s, id) = <<>> THEN s
    ELSE LET acked == Head(EventsOf(s, id))
         IN  broadcastAgentPollingIfChanged(scheduleLeaseFlush(
               [s EXCEPT !.pendingEvents = Without(@, acked),
                         !.leases = Without(@, acked)]))

cancelQueuedAnonymousExitEvents(s) ==
    IF ~ Contains(s.pendingEvents, Exit) THEN s
    ELSE broadcastAgentPollingIfChanged(scheduleLeaseFlush(
           [s EXCEPT !.pendingEvents = Without(@, Exit)]))

-------------------------------------------------------------------------------
(* Requests of the browser.                                                *)

\* POST /events with a session's request: journalled, then queued.
PostEvent(s, type) ==
    /\ srv.up
    /\ journal' = [journal EXCEPT ![s] = applyEvent(@, [type |-> type])]
    /\ Enqueue([id |-> s, type |-> type])

Report(s, phase) ==
    checkpoints' = checkpoints \cup
      (IF journal[s].checkpointRevision < MaxRevision
       THEN {[type |-> "checkpoint", id |-> s, phase |-> phase, revision |-> r] :
             r \in {1 + Cardinality({c \in checkpoints : c.id = s})
                    + journal[s].checkpointRevision} \cap 1..MaxRevision}
       ELSE {})

Begin(s, type) ==
    /\ tab[s] = "unused" /\ clients
    /\ PostEvent(s, type)
    /\ tab' = [tab EXCEPT ![s] = IF type = "steer" THEN "closed" ELSE "generating"]
    /\ Report(s, IF type = "steer" THEN "steer" ELSE "generating")
    /\ UNCHANGED <<source, clients, exitTimer, faults, episodes>>

\* The page's observer sees the variants in the DOM once they are in source.
SeeVariants(s) ==
    /\ tab[s] = "generating" /\ source[s] = "variants"
    /\ tab' = [tab EXCEPT ![s] = "cycling"]
    /\ Report(s, "cycling")
    /\ UNCHANGED <<srv, journal, source, agent, clients, exitTimer, faults, episodes>>

Decide(s, type) ==
    /\ tab[s] = "cycling" /\ clients
    /\ PostEvent(s, type)
    /\ tab' = [tab EXCEPT ![s] = IF type = "accept" THEN "saving" ELSE "closed"]
    /\ IF type = "accept" THEN Report(s, "saving") ELSE UNCHANGED checkpoints
    /\ UNCHANGED <<source, clients, exitTimer, faults, episodes>>

CheckpointArrives(c) ==
    /\ c \in checkpoints
    /\ checkpoints' = checkpoints \ {c}
    /\ IF srv.up THEN journal' = [journal EXCEPT ![c.id] = applyEvent(@, c)]
                 ELSE UNCHANGED journal
    /\ UNCHANGED <<srv, source, agent, tab, clients, exitTimer, faults, episodes>>

\* GET /events: the exit timer and queued exits are cancelled; a page that
\* was reloaded goes back to the session its journal says is active.
PageConnects ==
    /\ srv.up /\ ~ clients
    /\ clients' = TRUE /\ exitTimer' = FALSE
    /\ srv' = cancelQueuedAnonymousExitEvents(srv)
    /\ tab' = [s \in Sessions |->
                 IF /\ tab[s] \in {"cycling", "saving"}
                    /\ journal[s].phase \notin COMPLETED_PHASES
                    /\ source[s] = "variants"
                 THEN "cycling" ELSE tab[s]]
    /\ UNCHANGED <<journal, source, agent, checkpoints, faults, episodes>>

PageLeaves ==
    /\ clients /\ episodes < MaxEpisodes
    /\ clients' = FALSE /\ exitTimer' = srv.up
    /\ episodes' = episodes + 1
    /\ UNCHANGED <<srv, journal, source, agent, tab, checkpoints, faults>>

ExitTimerFires ==
    /\ exitTimer /\ srv.up
    /\ exitTimer' = FALSE
    /\ IF clients THEN UNCHANGED <<srv, agent>> ELSE Enqueue(Exit)
    /\ UNCHANGED <<journal, source, tab, checkpoints, clients, faults, episodes>>

\* The page's exit button posts an exit and tears the page down.
PageExits ==
    /\ clients /\ srv.up /\ episodes < MaxEpisodes
    /\ clients' = FALSE /\ exitTimer' = TRUE
    /\ episodes' = episodes + 1
    /\ Enqueue(Exit)
    /\ UNCHANGED <<journal, source, tab, checkpoints, faults>>

-------------------------------------------------------------------------------
(* The agents.                                                             *)

handlePollGet(a) ==
    /\ agent[a].pc = "idle" /\ srv.up
    /\ IF Available(srv) # <<>>
       THEN /\ srv' = leaseEvent(srv, Head(Available(srv)))
            /\ agent' = [agent EXCEPT ![a] =
                 [pc |-> "working", event |-> Head(Available(srv)), reply |-> None]]
       ELSE /\ srv' = scheduleLeaseFlush(broadcastAgentPollingIfChanged(
                        [srv EXCEPT !.pendingPolls = Append(@, a)]))
            /\ agent' = [agent EXCEPT ![a].pc = "waiting"]
    /\ UNCHANGED <<journal, source, tab, checkpoints, clients, exitTimer, faults, episodes>>

\* The long poll times out, or its client goes away.
PollEnds(a) ==
    /\ agent[a].pc = "waiting" /\ srv.up
    /\ srv' = broadcastAgentPollingIfChanged(
                [srv EXCEPT !.pendingPolls = Without(@, a)])
    /\ agent' = [agent EXCEPT ![a] = IdleAgent]
    /\ UNCHANGED <<journal, source, tab, checkpoints, clients, exitTimer, faults, episodes>>

\* The agent edits the source: it writes variants, or carries out a steer.
AgentEdits(a) ==
    /\ agent[a].pc = "working" /\ agent[a].event.type \in {"generate", "steer"}
    /\ LET e == agent[a].event
       IN  \/ /\ agent' = [agent EXCEPT ![a].pc = "replying",
                             ![a].reply = IF e.type = "steer" THEN "steer_done" ELSE "done"]
              /\ source' = [source EXCEPT ![e.id] =
                              IF e.type = "generate" THEN "variants" ELSE @]
           \/ /\ ScriptsFail
              /\ agent' = [agent EXCEPT ![a].pc = "replying", ![a].reply = "error"]
              /\ UNCHANGED source
    /\ UNCHANGED <<srv, journal, tab, checkpoints, clients, exitTimer, faults, episodes>>

\* live-accept.mjs rewrites the wrapper it finds; without one it handles nothing.
\* A result is the reply completionTypeForAcceptResult makes of it.
AcceptResults(e) ==
    IF source[e.id] # "variants"
    THEN {[source |-> source[e.id],
           reply |-> IF e.type = "discard" THEN "error" ELSE "agent_done"]}
    ELSE (IF e.type = "discard" THEN {[source |-> "restored", reply |-> "discarded"]}
          ELSE {[source |-> "accepted", reply |-> "complete"],
                [source |-> "carbonize", reply |-> "carbonize"]})
         \cup (IF ScriptsFail THEN {[source |-> source[e.id], reply |-> "error"]} ELSE {})

augmentEventWithAcceptHandling(a) ==
    /\ agent[a].pc = "working" /\ agent[a].event.type \in {"accept", "discard"}
    /\ \E result \in AcceptResults(agent[a].event) :
         /\ source' = [source EXCEPT ![agent[a].event.id] = result.source]
         /\ agent' = [agent EXCEPT ![a].pc = "replying", ![a].reply = result.reply]
    /\ UNCHANGED <<srv, journal, tab, checkpoints, clients, exitTimer, faults, episodes>>

\* Mutant: the journal has no name for a completion.
JournalEventUnfinished(id, reply) ==
    [type |-> CASE reply = "steer_done" -> "steer_done"
                [] reply = "discarded"  -> "discarded"
                [] reply = "error"      -> "agent_error"
                [] OTHER                -> "agent_done",
     id |-> id, carbonize |-> reply = "carbonize"]

\* The journal's name for a reply.
JournalEvent(id, reply) ==
    [type |-> CASE reply = "steer_done" -> "steer_done"
                [] reply = "discarded"  -> "discarded"
                [] reply = "complete"   -> "complete"
                [] reply = "error"      -> "agent_error"
                [] OTHER                -> "agent_done",
     id |-> id, carbonize |-> reply = "carbonize"]

\* Mutant: every reply is journalled.
skipJournalReplyNever(id) == FALSE

\* A reply that acknowledged nothing is kept out of a finished session.
skipJournalReply(id) ==
    EventsOf(srv, id) = <<>> /\ journal[id].phase \in COMPLETED_PHASES

handlePollPost(id, reply) ==
    LET acked == acknowledgePendingEvent(srv, id)
    IN  /\ srv' = flushPendingPolls(acked)
        /\ journal' = IF skipJournalReply(id) THEN journal
                      ELSE [journal EXCEPT ![id] = applyEvent(@, JournalEvent(id, reply))]

\* After its reply the agent polls again; a carbonize accept leaves it cleanup
\* first.  A reply that finds no server is lost (postReply throws).
AgentReplies(a) ==
    /\ agent[a].pc = "replying"
    /\ LET next == IF agent[a].reply = "carbonize"
                   THEN [agent[a] EXCEPT !.pc = "cleanup"] ELSE IdleAgent
           id   == agent[a].event.id
       IN  IF srv.up
           THEN /\ handlePollPost(id, agent[a].reply)
                /\ agent' = [Answered(acknowledgePendingEvent(srv, id)) EXCEPT ![a] = next]
           ELSE /\ agent' = [agent EXCEPT ![a] = next]
                /\ UNCHANGED <<srv, journal>>
    /\ UNCHANGED <<source, tab, checkpoints, clients, exitTimer, faults, episodes>>

\* live-complete.mjs: through the server, or straight into the journal.
completeCli(a) ==
    /\ agent[a].pc = "cleanup"
    /\ LET id == agent[a].event.id
       IN  /\ source' = [source EXCEPT ![id] = "accepted"]
           /\ IF srv.up
              THEN /\ handlePollPost(id, "complete")
                   /\ agent' = [Answered(acknowledgePendingEvent(srv, id))
                                  EXCEPT ![a] = IdleAgent]
              ELSE /\ journal' = [journal EXCEPT ![id] =
                                    applyEvent(@, JournalEvent(id, "complete"))]
                   /\ agent' = [agent EXCEPT ![a] = IdleAgent]
                   /\ UNCHANGED srv
    /\ UNCHANGED <<tab, checkpoints, clients, exitTimer, faults, episodes>>

AgentCrashes(a) ==
    /\ faults < MaxFaults /\ agent[a].pc \in {"working", "replying", "cleanup"}
    /\ faults' = faults + 1
    /\ agent' = [agent EXCEPT ![a] = IdleAgent]
    /\ UNCHANGED <<srv, journal, source, tab, checkpoints, clients, exitTimer, episodes>>

-------------------------------------------------------------------------------
(* Time, death and start.                                                  *)

LeaseExpires ==
    /\ srv.up /\ srv.leases # <<>>
    /\ srv' = [srv EXCEPT !.leases = Tail(@)]
    /\ UNCHANGED <<journal, source, agent, tab, checkpoints, clients, exitTimer,
                   faults, episodes>>

\* The timer is due a little after the lease it was armed for has run out.
LeaseTimerFires ==
    /\ srv.up /\ srv.leaseTimer # Nothing /\ ~ Contains(srv.leases, srv.leaseTimer)
    /\ srv' = broadcastAgentPollingIfChanged(flushPendingPolls(srv))
    /\ agent' = Answered(srv)
    /\ UNCHANGED <<journal, source, tab, checkpoints, clients, exitTimer, faults, episodes>>

\* The memory of the server is gone; parked polls fail or are told to exit.
ServerGone ==
    /\ srv' = [NewServer EXCEPT !.up = FALSE]
    /\ clients' = FALSE /\ exitTimer' = FALSE

shutdown(a) ==
    /\ agent[a].pc = "working" /\ agent[a].event = Exit
    /\ IF srv.up THEN ServerGone ELSE UNCHANGED <<srv, clients, exitTimer>>
    /\ agent' = [b \in Agents |->
         IF b = a \/ agent[b].pc = "waiting" THEN IdleAgent ELSE agent[b]]
    /\ UNCHANGED <<journal, source, tab, checkpoints, faults, episodes>>

ServerDies ==
    /\ srv.up /\ faults < MaxFaults
    /\ faults' = faults + 1
    /\ ServerGone
    /\ agent' = [b \in Agents |-> IF agent[b].pc = "waiting" THEN IdleAgent ELSE agent[b]]
    /\ UNCHANGED <<journal, source, tab, checkpoints, episodes>>

\* What listActiveSessions still waits for is queued again.
restorePendingEventsFromStore ==
    LET active == {s \in Sessions : /\ journal[s].phase \notin COMPLETED_PHASES
                                    /\ journal[s].pendingEvent # None}
    IN  [i \in 1..Cardinality(active) |->
            LET s == SetToSeq(active)[i]
            IN  [id |-> s, type |-> journal[s].pendingEvent]]

ServerStarts ==
    /\ ~ srv.up
    /\ srv' = [NewServer EXCEPT !.pendingEvents = restorePendingEventsFromStore]
    /\ UNCHANGED <<journal, source, agent, tab, checkpoints, clients, exitTimer,
                   faults, episodes>>

-------------------------------------------------------------------------------
Init ==
    /\ srv = NewServer
    /\ journal = [s \in Sessions |-> baseSnapshot]
    /\ source = [s \in Sessions |-> "none"]
    /\ agent = [a \in Agents |-> IdleAgent]
    /\ tab = [s \in Sessions |-> "unused"]
    /\ checkpoints = {}
    /\ clients = FALSE /\ exitTimer = FALSE
    /\ faults = 0 /\ episodes = 0

Browser ==
    \/ \E s \in Sessions :
         \/ \E type \in {"generate", "steer"} : Begin(s, type)
         \/ SeeVariants(s)
         \/ \E type \in {"accept", "discard"} : Decide(s, type)
    \/ \E c \in checkpoints : CheckpointArrives(c)
    \/ PageConnects \/ PageLeaves \/ PageExits

AgentSteps(a) ==
    \/ handlePollGet(a) \/ AgentEdits(a) \/ augmentEventWithAcceptHandling(a)
    \/ AgentReplies(a) \/ completeCli(a) \/ shutdown(a)

Timers == LeaseExpires \/ LeaseTimerFires \/ ExitTimerFires

Next ==
    \/ Browser
    \/ \E a \in Agents : AgentSteps(a) \/ PollEnds(a) \/ AgentCrashes(a)
    \/ Timers
    \/ ServerDies \/ ServerStarts

Spec == Init /\ [][Next]_vars

\* The agents poll and work, timers fire, a crash-free server is restarted.
\* A long poll that ends is started again (the loop of fetchNextEvent).
Fairness ==
    /\ \A a \in Agents : WF_vars(AgentSteps(a))
    /\ WF_vars(LeaseExpires) /\ WF_vars(LeaseTimerFires)
    /\ WF_vars(ServerStarts)
    /\ \A s \in Sessions : WF_vars(\E c \in checkpoints : CheckpointArrives(c))

FairSpec == Spec /\ Fairness

-------------------------------------------------------------------------------
(* Properties.                                                             *)

Servers ==
    [up : BOOLEAN, pendingEvents : Seq(Events), pendingPolls : Seq(Agents),
     leases : Seq(Events), leaseTimer : Events \cup {Nothing},
     told : {None, "polling", "silent"}]

AgentStates ==
    [pc : {"idle", "waiting"}, event : {Nothing}, reply : {None}]
    \cup [pc : {"working"}, event : Events, reply : {None}]
    \cup [pc : {"replying", "cleanup"}, event : [id : Sessions, type : WorkTypes],
          reply : Replies]

Checkpoints == [type : {"checkpoint"}, id : Sessions, phase : BrowserPhases,
                revision : 1..MaxRevision]

\* Besides the types: an event is leased once and while it is queued, and the
\* parked polls are those of the agents that wait for an answer.
TypeOK ==
    /\ srv \in Servers
    /\ ToSet(srv.leases) \subseteq ToSet(srv.pendingEvents) \ {Exit}
    /\ IsInjective(srv.leases)
    /\ ToSet(srv.pendingPolls) = {a \in Agents : agent[a].pc = "waiting"}
    /\ IsInjective(srv.pendingPolls)
    /\ agent \in [Agents -> AgentStates]
    /\ checkpoints \subseteq Checkpoints
    /\ journal \in [Sessions -> Snapshot]
    /\ source \in [Sessions -> {"none", "variants", "restored", "carbonize", "accepted"}]
    /\ tab \in [Sessions -> {"unused", "generating", "cycling", "saving", "closed"}]
    /\ clients \in BOOLEAN /\ exitTimer \in BOOLEAN
    /\ faults \in 0..MaxFaults /\ episodes \in 0..MaxEpisodes

\* An agent parked in a long poll never sits next to deliverable work without
\* a timer that will wake it: leases run out silently, and only the lease timer
\* looks again (scheduleLeaseFlush, flushPendingPolls).
NoLostWakeup ==
    srv.up /\ srv.pendingPolls # <<>> /\ Available(srv) # <<>>
      => srv.leaseTimer # Nothing

\* What a restart would requeue from the journal is in the queue of a running
\* server: the journal never asks again for work an agent has answered.
JournalPendingIsQueued ==
    \A s \in Sessions :
      srv.up /\ journal[s].pendingEvent # None
             /\ journal[s].phase \notin COMPLETED_PHASES
        => Contains(srv.pendingEvents, [id |-> s, type |-> journal[s].pendingEvent])

\* A session that is over comes back to life only by a new request of the page
\* or by a reply to an event of it that was still queued; never by a late
\* checkpoint or by a reply nobody waits for (skipJournalReply).
OverIsOver ==
    [][\A s \in Sessions :
          /\ journal[s].phase \in COMPLETED_PHASES
          /\ journal'[s].phase \notin COMPLETED_PHASES
          => EventsOf(srv, s) # <<>> \/ journal'[s].pendingEvent # None]_vars

\* Work is never left lying: while agents keep polling, whatever is queued is
\* leased, answered or forgotten with the server.
QueuedIsServed ==
    \A e \in [id : Sessions, type : WorkTypes] :
      Contains(Available(srv), e) ~> ~ Contains(Available(srv), e)

\* Without crashes, a queued accept of variants that are in the source comes to
\* an outcome in the journal: the session completes (after the carbonize cleanup
\* if it needs one) or has failed.
AcceptEnds ==
    \A s \in Sessions :
      source[s] = "variants" /\ Contains(srv.pendingEvents, [id |-> s, type |-> "accept"])
        ~> journal[s].phase \in {"completed", "agent_error"}
===============================================================================
