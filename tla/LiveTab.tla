-------------------------------- MODULE LiveTab --------------------------------
(***************************************************************************)
(* The overlay in the page (live-browser.js, live-browser-session.js): one *)
(* tab, its sessions one after the other, its pending callbacks, what it   *)
(* keeps in localStorage, and a page that may be reloaded at any moment.   *)
(* Server and agent are the environment: requests are worked off in the    *)
(* order they were queued and answered over one event stream (LiveServer   *)
(* has what can go wrong there).  Variants arrive all at once.             *)
(***************************************************************************)
EXTENDS Naturals, SequencesExt

CONSTANTS
  Sessions,       \* ids the page makes up (id8), numbered in the order in which
                  \* their elements stand in the document
  None,           \* no session
  MaxReloads,     \* bound on reloads of the page
  Requests,       \* what the user does besides Go: accept, discard, steer
  Troubles        \* which of "post" (a POST fails), "agent" (it answers with an
                  \* error), "fetch" (variants fetched from source), "stream" (it
                  \* breaks and messages are lost) happen

ASSUME SessionsAssumption ==
    /\ Sessions \subseteq Nat /\ None \notin Sessions
    /\ None \notin {"post", "agent", "fetch", "stream", "late"}

ASSUME BoundsAssumption ==
    MaxReloads \in Nat /\ Troubles \subseteq {"post", "agent", "fetch", "stream"}

VARIABLES
  state,          \* the overlay's mode
  currentSessionId,
  arrived,        \* arrivedVariants = expectedVariants > 0
  pendingAccepted,\* pendingAcceptedSession: id and finalizing
  observer,       \* session the MutationObserver watches
  stored,         \* the session saved in localStorage
  handled,        \* the one id marked handled in localStorage
  calls,          \* timers and fetches whose callbacks are pending
  steerRequestId, \* the steer the chat is locked for
  sse,            \* messages on their way to the page
  work,           \* requests on the server, in order
  edited,         \* has the agent edited the source for the head of work?
  result,         \* what live-accept.mjs then said of it
  source, dom,    \* sessions with a variant wrapper in source, in the page
  used, reloads,
  trouble,        \* history: the one trouble that has happened
  confirmed,      \* history: sessions whose discard the page saw confirmed
  astray          \* history: has an accept been asked for that will find no markers?

vars == <<state, currentSessionId, arrived, pendingAccepted, observer, stored,
          handled, calls, steerRequestId, sse, work, edited, result, source, dom,
          used, reloads, trouble, confirmed, astray>>

tabVars == <<state, currentSessionId, arrived, pendingAccepted, observer>>
storage == <<stored, handled, confirmed>>
serverVars == <<work, edited, result, source>>

States == {"PICKING", "CONFIGURING", "GENERATING", "CYCLING", "SAVING", "CONFIRMED"}
NoSession == [id |-> None, state |-> "PICKING", arrived |-> FALSE]
NoAccept == [id |-> None, finalizing |-> FALSE]

Call(kind, id) == [kind |-> kind, id |-> id]
Message(type, id) == [type |-> type, id |-> id]

Suffers(kind) == kind \in Troubles /\ trouble = None /\ trouble' = kind

\* A callback that runs for s drops whatever session is current: it came late
\* if that is another one.
Drops(s) ==
    trouble' = IF trouble = None /\ currentSessionId \notin {None, s} THEN "late" ELSE trouble

-------------------------------------------------------------------------------
(* Storage and clean-up.                                                   *)

\* Mutant: saved with or without a session.
SavedAlways(id, mode) == [id |-> id, state |-> mode, arrived |-> TRUE]

\* saveSession: only with a current session, which by then has its variants.
Saved(id, mode) ==
    IF id = None THEN stored ELSE [id |-> id, state |-> mode, arrived |-> TRUE]

\* setLiveState followed by saveSession, as the callers that save do.
Enter(mode) == state' = mode /\ stored' = Saved(currentSessionId, mode)

\* cleanup: the session is forgotten, its observer disconnected.
cleanup ==
    /\ state' = "PICKING" /\ currentSessionId' = None /\ observer' = None
    /\ stored' = NoSession
    /\ UNCHANGED <<arrived, pendingAccepted>>

cleanupAcceptedSession ==
    /\ state' = "PICKING" /\ currentSessionId' = None /\ observer' = None
    /\ stored' = NoSession /\ pendingAccepted' = NoAccept
    /\ UNCHANGED arrived

-------------------------------------------------------------------------------
(* What the user does.                                                     *)

Pick ==
    /\ state = "PICKING"
    /\ state' = "CONFIGURING"
    /\ UNCHANGED <<currentSessionId, arrived, pendingAccepted, observer, storage,
                   calls, steerRequestId, sse, serverVars, dom, used, reloads, trouble, astray>>

exitConfigureToPicking ==
    /\ state = "CONFIGURING"
    /\ state' = "PICKING"
    /\ UNCHANGED <<currentSessionId, arrived, pendingAccepted, observer, storage,
                   calls, steerRequestId, sse, serverVars, dom, used, reloads, trouble, astray>>

\* Go, or Create in insert mode: the session exists in the page and in storage;
\* its request is sent only once the element has been captured.
handleGo(s) ==
    /\ state = "CONFIGURING" /\ s \notin used
    /\ used' = used \cup {s}
    /\ state' = "GENERATING" /\ currentSessionId' = s /\ arrived' = FALSE
    /\ pendingAccepted' = NoAccept /\ observer' = s
    /\ stored' = [id |-> s, state |-> "GENERATING", arrived |-> FALSE]
    /\ calls' = calls \cup {Call("capture", s)}
    /\ UNCHANGED <<handled, confirmed, steerRequestId, sse, serverVars, dom, reloads, trouble, astray>>

captureAndEmit(s) ==
    /\ Call("capture", s) \in calls
    /\ calls' = calls \ {Call("capture", s)}
    /\ \/ work' = Append(work, Message("generate", s)) /\ UNCHANGED trouble
       \/ Suffers("post") /\ UNCHANGED work
    /\ UNCHANGED <<tabVars, storage, steerRequestId, sse, edited, result, source, dom,
                   used, reloads, astray>>

\* An accept of s would be carried out on a source that has no markers of s: they
\* are not there, or an earlier accept will have removed them.
WithoutMarkers(s) == s \notin source \/ Message("accept", s) \in ToSet(work)

handleAccept ==
    /\ "accept" \in Requests /\ state = "CYCLING"
    /\ pendingAccepted = NoAccept /\ currentSessionId # None /\ arrived
    /\ Enter("SAVING")
    /\ pendingAccepted' = [id |-> currentSessionId, finalizing |-> FALSE]
    /\ calls' = calls \cup {Call("accept", currentSessionId)}
    /\ astray' = (astray \/ WithoutMarkers(currentSessionId))
    /\ UNCHANGED <<currentSessionId, arrived, observer, handled, confirmed, steerRequestId,
                   sse, serverVars, dom, used, reloads, trouble>>

\* The POST of the accept is answered; only a failure has a callback.
AcceptPosted(s) ==
    /\ Call("accept", s) \in calls
    /\ calls' = calls \ {Call("accept", s)}
    /\ \/ /\ work' = Append(work, Message("accept", s))
          /\ UNCHANGED <<state, pendingAccepted, trouble>>
       \/ /\ Suffers("post")
          /\ state' = "CYCLING"
          /\ pendingAccepted' = IF pendingAccepted.id = s THEN NoAccept ELSE pendingAccepted
          /\ UNCHANGED work
    /\ UNCHANGED <<currentSessionId, arrived, observer, storage, steerRequestId,
                   sse, edited, result, source, dom, used, reloads, astray>>

handleDiscard ==
    /\ "discard" \in Requests /\ state = "CYCLING" /\ currentSessionId # None
    /\ calls' = calls \cup {Call("discard", currentSessionId)}
    /\ UNCHANGED <<tabVars, storage, steerRequestId, sse, serverVars, dom, used, reloads, trouble, astray>>

\* Confirmed: whatever session is current NOW is marked handled and dropped.
DiscardPosted(s) ==
    /\ Call("discard", s) \in calls
    /\ calls' = calls \ {Call("discard", s)}
    /\ \/ /\ work' = Append(work, Message("discard", s))
          /\ handled' = IF currentSessionId = None THEN handled ELSE currentSessionId
          /\ confirmed' = confirmed \cup {s}
          /\ cleanup /\ Drops(s)
       \/ Suffers("post") /\ UNCHANGED <<tabVars, storage, work>>
    /\ UNCHANGED <<steerRequestId, sse, edited, result, source, dom, used, reloads, astray>>

submitSteerMessage(s) ==
    /\ "steer" \in Requests /\ steerRequestId = None /\ s \notin used
    /\ used' = used \cup {s}
    /\ \/ /\ steerRequestId' = s
          /\ work' = Append(work, Message("steer", s))
          /\ UNCHANGED trouble
       \/ Suffers("post") /\ UNCHANGED <<steerRequestId, work>>
    /\ UNCHANGED <<tabVars, storage, calls, sse, edited, result, source, dom, reloads, astray>>

SteerTimesOut ==
    /\ steerRequestId # None
    /\ steerRequestId' = None
    /\ UNCHANGED <<tabVars, storage, calls, sse, serverVars, dom, used, reloads, trouble, astray>>

-------------------------------------------------------------------------------
(* Variants arrive.                                                        *)

\* The dev server's hot update brings the page in line with the source.
HotUpdate ==
    /\ dom # source
    /\ dom' = source
    /\ UNCHANGED <<tabVars, storage, calls, steerRequestId, sse, serverVars, used, reloads, trouble, astray>>

\* The MutationObserver: in whatever mode the overlay is, it goes to CYCLING.
VariantsSeen ==
    /\ observer # None /\ observer \in dom /\ ~ arrived
    /\ arrived' = TRUE
    /\ Enter("CYCLING")
    /\ UNCHANGED <<currentSessionId, pendingAccepted, observer, handled, confirmed, calls,
                   steerRequestId, sse, serverVars, dom, used, reloads, trouble, astray>>

\* The answer of the source fallback is put into the page whatever it is doing.
injectVariantsFromSource(s) ==
    /\ Call("source", s) \in calls
    /\ calls' = calls \ {Call("source", s)}
    /\ IF s \in source
       THEN /\ dom' = dom \cup {s} /\ arrived' = TRUE
            /\ Enter("CYCLING")
       ELSE UNCHANGED <<dom, arrived, state, stored>>
    /\ UNCHANGED <<currentSessionId, pendingAccepted, observer, handled, confirmed,
                   steerRequestId, sse, serverVars, used, reloads, trouble, astray>>

-------------------------------------------------------------------------------
(* Messages of the event stream.                                           *)

maybeCompleteSteer(m) ==
    steerRequestId # None /\ m.id = steerRequestId /\ m.type \in {"steer_done", "error"}

\* `done': the DOM may already have the variants; otherwise wait for the
\* observer, or fetch them from source.
OnDone(m) ==
    IF arrived
    THEN /\ state' = IF state = "GENERATING" THEN "CYCLING" ELSE state
         /\ UNCHANGED <<calls, trouble>>
    ELSE /\ UNCHANGED state
         /\ \/ UNCHANGED <<calls, trouble>>
            \/ /\ state = "GENERATING" /\ m.id = currentSessionId
               /\ Suffers("fetch")
               /\ calls' = calls \cup {Call("source", m.id)}

maybeCompleteAcceptedSession(m) ==
    IF pendingAccepted.id # m.id
    THEN UNCHANGED <<state, pendingAccepted, handled, calls>>
    ELSE IF currentSessionId \notin {None, m.id}
    THEN /\ pendingAccepted' = NoAccept
         /\ UNCHANGED <<state, handled, calls>>
    ELSE IF pendingAccepted.finalizing
    THEN UNCHANGED <<state, pendingAccepted, handled, calls>>
    ELSE /\ pendingAccepted' = [pendingAccepted EXCEPT !.finalizing = TRUE]
         /\ handled' = IF currentSessionId = None THEN handled ELSE currentSessionId
         /\ state' = "CONFIRMED"
         /\ calls' = calls \cup {Call("cleanup", m.id)}

OnDiscarded(m) ==
    IF m.id = currentSessionId
    THEN handled' = currentSessionId /\ cleanup /\ UNCHANGED confirmed
    ELSE UNCHANGED <<tabVars, storage>>

\* Mutant: the failure of an accept is not for the overlay.
OnErrorIgnored(m) ==
    IF pendingAccepted.id = m.id THEN UNCHANGED <<state, pendingAccepted>>
    ELSE state' = "PICKING" /\ UNCHANGED pendingAccepted

\* Only an accept's own failure is told from another session's.
OnError(m) ==
    IF pendingAccepted.id = m.id
    THEN pendingAccepted' = NoAccept /\ state' = "CYCLING"
    ELSE state' = "PICKING" /\ UNCHANGED pendingAccepted

Receive ==
    /\ sse # <<>>
    /\ sse' = Tail(sse)
    /\ LET m == Head(sse)
       IN  IF maybeCompleteSteer(m)
           THEN /\ steerRequestId' = None
                /\ UNCHANGED <<tabVars, storage, calls, trouble>>
           ELSE /\ UNCHANGED steerRequestId
                /\ CASE m.type = "done" ->
                          /\ OnDone(m)
                          /\ UNCHANGED <<currentSessionId, arrived, pendingAccepted,
                                         observer, storage>>
                     [] m.type = "complete" ->
                          /\ maybeCompleteAcceptedSession(m)
                          /\ UNCHANGED <<currentSessionId, arrived, observer, stored, confirmed, trouble>>
                     [] m.type = "discarded" ->
                          OnDiscarded(m) /\ UNCHANGED <<calls, trouble>>
                     [] m.type = "error" ->
                          /\ OnError(m)
                          /\ UNCHANGED <<currentSessionId, arrived, observer, storage, calls, trouble>>
                     [] OTHER -> UNCHANGED <<tabVars, storage, calls, trouble>>
    /\ UNCHANGED <<serverVars, dom, used, reloads, astray>>

\* scheduleAcceptCleanup: a clean page is cleaned up whatever its session is by
\* then; one with the wrapper still in it only if the accept is still pending.
AcceptCleanup(s) ==
    /\ Call("cleanup", s) \in calls
    /\ calls' = calls \ {Call("cleanup", s)}
    /\ IF s \notin dom \/ pendingAccepted.id = s
       THEN dom' = dom \ {s} /\ cleanupAcceptedSession /\ Drops(s)
       ELSE UNCHANGED <<tabVars, stored, dom, trouble>>
    /\ UNCHANGED <<handled, confirmed, steerRequestId, sse, serverVars, used, reloads, astray>>

-------------------------------------------------------------------------------
(* Reload.                                                                 *)

\* Posts under way may or may not have reached the server; captures have not.
Delivered == {c \in calls : c.kind \in {"accept", "discard"}}

\* restoreSessionWithoutWrapper: what localStorage says, with as many variants as
\* it says, which are fetched if the file they are in is known.
Restorable == stored.id # None /\ stored.id # handled
                /\ stored.state \in {"GENERATING", "CYCLING"}

RestoreSaved ==
    /\ state' = "GENERATING" /\ currentSessionId' = stored.id
    /\ observer' = stored.id /\ arrived' = stored.arrived
    /\ stored' = [stored EXCEPT !.state = "GENERATING"]
    /\ UNCHANGED <<handled, confirmed>>

FetchSaved(pending) ==
    \/ calls' = pending /\ UNCHANGED trouble
    \/ calls' = pending \cup {Call("source", stored.id)} /\ Suffers("fetch")

restoreSessionWithoutWrapper ==
    IF Restorable THEN RestoreSaved /\ FetchSaved({})
    ELSE /\ state' = "PICKING" /\ currentSessionId' = None /\ observer' = None
         /\ arrived' = FALSE /\ stored' = NoSession /\ handled' = None
         /\ calls' = {} /\ UNCHANGED <<confirmed, trouble>>

\* Mutant: whatever wrapper there is, is resumed.
ResumeWrapperAny(s) ==
    /\ state' = "CYCLING" /\ currentSessionId' = s /\ observer' = s
    /\ arrived' = TRUE
    /\ stored' = [id |-> s, state |-> "CYCLING", arrived |-> TRUE]
    /\ UNCHANGED <<handled, confirmed>>

\* A wrapper in the page belongs to a session to go on with, unless handled.
ResumeWrapper(s) ==
    IF s = handled
    THEN /\ state' = "PICKING" /\ currentSessionId' = None /\ observer' = None
         /\ arrived' = FALSE
         /\ UNCHANGED storage
    ELSE /\ state' = "CYCLING" /\ currentSessionId' = s /\ observer' = s
         /\ arrived' = TRUE
         /\ stored' = [id |-> s, state |-> "CYCLING", arrived |-> TRUE]
         /\ UNCHANGED <<handled, confirmed>>

\* The first wrapper in the document.
First(S) == CHOOSE s \in S : \A t \in S : s <= t

resumeSession ==
    IF source = {} THEN restoreSessionWithoutWrapper
                   ELSE ResumeWrapper(First(source)) /\ calls' = {} /\ UNCHANGED trouble

Reload ==
    /\ reloads < MaxReloads
    /\ reloads' = reloads + 1
    /\ sse' = <<>> /\ steerRequestId' = None
    /\ pendingAccepted' = NoAccept
    /\ \E sent \in SUBSET Delivered : \E posts \in SetToSeqs(sent) :
         work' = work \o [i \in DOMAIN posts |-> Message(posts[i].kind, posts[i].id)]
    /\ dom' = source
    /\ resumeSession
    /\ UNCHANGED <<edited, result, source, used, astray>>

\* The event stream is connected again, the messages of the meantime are lost.
\* restoreFromActiveSessions: a document without a wrapper is restored, unless the
\* server's sessions say otherwise.
Reconnect ==
    /\ \/ UNCHANGED sse /\ dom = {} /\ Restorable /\ RestoreSaved /\ FetchSaved(calls)
       \/ /\ Suffers("stream") /\ sse' = <<>> /\ UNCHANGED calls
          /\ \/ dom = {} /\ Restorable /\ RestoreSaved
             \/ UNCHANGED <<state, currentSessionId, arrived, observer, storage>>
    /\ UNCHANGED <<pendingAccepted, steerRequestId, serverVars, dom, used, reloads, astray>>

-------------------------------------------------------------------------------
(* The environment.                                                        *)

Answer(type) ==
    /\ work' = Tail(work) /\ edited' = FALSE /\ result' = "none"
    /\ sse' = Append(sse, Message(type, Head(work).id))

\* The agent's edit for a request.  An accept or a discard finds the wrapper of
\* its session by the markers in the source, or handles nothing.
AgentEdits ==
    /\ work # <<>> /\ ~ edited
    /\ edited' = TRUE
    /\ LET m == Head(work)
       IN /\ source' = CASE m.type = "generate" -> source \cup {m.id}
                         [] m.type \in {"accept", "discard"} -> source \ {m.id}
                         [] OTHER -> source
          /\ result' = IF m.type \in {"accept", "discard"} /\ m.id \notin source
                       THEN "unhandled" ELSE "handled"
    /\ UNCHANGED <<tabVars, storage, calls, steerRequestId, sse, work, dom, used, reloads, trouble, astray>>

\* completionTypeForAcceptResult, and the replies to the other requests.
CompletionType(type) ==
    CASE type = "generate" -> "done"
      [] type = "accept"   -> IF result = "unhandled" THEN "agent_done" ELSE "complete"
      [] type = "discard"  -> IF result = "unhandled" THEN "error" ELSE "discarded"
      [] type = "steer"    -> "steer_done"

\* A carbonize accept is acknowledged first; live-complete.mjs follows when the
\* agent has cleaned up, and before it polls again.
AgentCarbonizes ==
    /\ work # <<>> /\ edited /\ Head(work).type = "accept" /\ result = "handled"
    /\ result' = "carbonize"
    /\ sse' = Append(sse, Message("agent_done", Head(work).id))
    /\ UNCHANGED <<tabVars, storage, calls, steerRequestId, work, edited, source, dom, used, reloads,
                   trouble, astray>>

\* A discard that handles nothing came after the end of its session.
AgentAnswers ==
    /\ work # <<>> /\ edited
    /\ Answer(CompletionType(Head(work).type))
    /\ trouble' = IF trouble = None /\ CompletionType(Head(work).type) = "error" THEN "late"
                  ELSE trouble
    /\ UNCHANGED <<tabVars, storage, calls, steerRequestId, source, dom, used, reloads, astray>>

AgentFailsRequest ==
    /\ Suffers("agent") /\ work # <<>> /\ ~ edited
    /\ Answer("error")
    /\ UNCHANGED <<tabVars, storage, calls, steerRequestId, source, dom, used, reloads, astray>>

-------------------------------------------------------------------------------
Init ==
    /\ state = "PICKING" /\ currentSessionId = None /\ arrived = FALSE
    /\ pendingAccepted = NoAccept /\ observer = None
    /\ stored = NoSession /\ handled = None
    /\ calls = {} /\ steerRequestId = None /\ sse = <<>>
    /\ work = <<>> /\ edited = FALSE /\ result = "none" /\ source = {} /\ dom = {}
    /\ used = {} /\ reloads = 0 /\ trouble = None /\ confirmed = {}
    /\ astray = FALSE

User ==
    \/ Pick \/ exitConfigureToPicking \/ handleAccept \/ handleDiscard \/ Reload
    \/ \E s \in Sessions : handleGo(s) \/ submitSteerMessage(s)

Callbacks ==
    \/ \E s \in Sessions :
         \/ captureAndEmit(s) \/ AcceptPosted(s) \/ DiscardPosted(s)
         \/ injectVariantsFromSource(s) \/ AcceptCleanup(s)
    \/ Receive \/ VariantsSeen \/ SteerTimesOut

Environment ==
    \/ Reconnect \/ AgentCarbonizes
    \/ HotUpdate \/ AgentEdits \/ AgentAnswers \/ AgentFailsRequest

Next == User \/ Callbacks \/ Environment

Spec == Init /\ [][Next]_vars

\* Callbacks run, the agent works and hot updates arrive; the user need not act.
FairSpec ==
    /\ Spec /\ WF_vars(Callbacks)
    /\ WF_vars(HotUpdate \/ AgentEdits \/ AgentAnswers \/ AgentFailsRequest)

-------------------------------------------------------------------------------
(* Properties.                                                             *)

TypeOK ==
    /\ state \in States
    /\ {currentSessionId, observer, handled, steerRequestId, pendingAccepted.id}
         \subseteq Sessions \cup {None}
    /\ stored \in {NoSession} \cup
                 [id : Sessions, state : {"GENERATING", "CYCLING", "SAVING"},
                  arrived : BOOLEAN]
    /\ arrived \in BOOLEAN /\ edited \in BOOLEAN
    /\ {c.id : c \in calls} \subseteq used
    /\ {m.id : m \in ToSet(work)} \subseteq used
    /\ source \subseteq used /\ dom \subseteq used
    /\ trouble \in {None, "late"} \cup Troubles

\* A discard that the page saw confirmed is final: no reload and no message
\* brings the session back, although markSessionHandled keeps one id only and
\* the wrapper stays in the page until the agent gets to it.  What breaks it: a
\* failed accept and a late fetch bring back CYCLING for whatever session is
\* current, an error PICKING (the agent's, or that of a discard that comes after the
\* end of its session); a late callback drops another session.
DiscardedIsNotResumed == trouble = None => currentSessionId \notin confirmed

\* The page does not stay in SAVING: the accept is confirmed, or fails.  What
\* breaks it: an accept whose markers are gone or not there yet, and the page
\* ignores the agent_done that says so.  It takes a session accepted again, after a
\* reload that met the first accept under way, or one that a late fetch, a failed
\* POST or an agent's error left in CYCLING without variants in the source; and an
\* answer lost with the event stream.
SavingEnds == (state = "SAVING") ~> (state # "SAVING" \/ astray \/ trouble = "stream")
================================================================================
