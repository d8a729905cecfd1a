--------------------------- MODULE LiveSessionStore ---------------------------
(***************************************************************************)
(* The durable journal of live-mode sessions (live/session-store.mjs).     *)
(* A snapshot is what replaying the journal of one session yields; since   *)
(* replay is a left fold, the replay of a longer journal is the event      *)
(* applied to the replay of the shorter one, and no journal is kept here.  *)
(***************************************************************************)
EXTENDS Naturals

CONSTANT MaxRevision     \* bound on the checkpoints a browser numbers

None == "none"

\* Events that ask the agent for work; each is a session's pendingEvent.
WorkTypes == {"generate", "steer", "accept", "discard"}

\* What a browser checkpoint may report as its own state.
BrowserPhases == {"generating", "cycling", "saving", "steer"}

Phases == BrowserPhases \cup
    {"new", "generate_requested", "variants_ready", "carbonize_required",
     "accept_requested", "discard_requested", "steer_requested", "steer_done",
     "completed", "discarded", "agent_error"}

COMPLETED_PHASES == {"completed", "discarded"}

Snapshot == [phase : Phases, pendingEvent : WorkTypes \cup {None},
             checkpointRevision : 0..MaxRevision]

baseSnapshot == [phase |-> "new", pendingEvent |-> None, checkpointRevision |-> 0]

\* The events that queue work: phase and pending event are set together.
Requested(snapshot, type) ==
    [snapshot EXCEPT !.pendingEvent = type,
                     !.phase = CASE type = "generate" -> "generate_requested"
                                 [] type = "accept"   -> "accept_requested"
                                 [] type = "discard"  -> "discard_requested"
                                 [] type = "steer"    -> "steer_requested"]

\* Mutant: a reply leaves the pending event in the snapshot.
RepliedStillPending(snapshot, phase) == [snapshot EXCEPT !.phase = phase]

\* The agent's replies: whatever the session was waiting for is forgotten.
Replied(snapshot, phase) ==
    [snapshot EXCEPT !.pendingEvent = None, !.phase = phase]

\* Mutant: a checkpoint is applied to a session that is over.
CheckpointedAlways(snapshot, event) ==
    IF event.revision < snapshot.checkpointRevision THEN snapshot
    ELSE [snapshot EXCEPT !.phase = event.phase,
                          !.checkpointRevision = event.revision]

\* Browser progress: ignored once the session is over or by an older revision.
Checkpointed(snapshot, event) ==
    IF snapshot.phase \in COMPLETED_PHASES
       \/ event.revision < snapshot.checkpointRevision
    THEN snapshot
    ELSE [snapshot EXCEPT !.phase = event.phase,
                          !.checkpointRevision = event.revision]

applyEvent(snapshot, event) ==
    CASE event.type \in WorkTypes    -> Requested(snapshot, event.type)
      [] event.type = "checkpoint"   -> Checkpointed(snapshot, event)
      [] event.type = "agent_done"   -> Replied(snapshot, IF event.carbonize
                                                          THEN "carbonize_required"
                                                          ELSE "variants_ready")
      [] event.type = "steer_done"   -> Replied(snapshot, "steer_done")
      [] event.type = "discarded"    -> Replied(snapshot, "discarded")
      [] event.type = "complete"     -> Replied(snapshot, "completed")
      [] event.type = "agent_error"  -> Replied(snapshot, "agent_error")

===============================================================================
