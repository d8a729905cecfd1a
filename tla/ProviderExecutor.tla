--------------------------- MODULE ProviderExecutor ---------------------------
(***************************************************************************)
(* What the executor of a company's enrichment job does while it calls     *)
(* (EnrichmentJobs): run_enrichment_cascade of providers/orchestrator.py   *)
(* reaches a provider that is paid by the run, execute_provider of         *)
(* providers/executor.py reserves a durable call for it, and the adapter   *)
(* (adapters/apify.py) starts an actor at the provider and comes back for  *)
(* its result, which may take several executions of the job.               *)
(*                                                                         *)
(* A call has an execution token, a new one with each reservation, and a   *)
(* lease of its own, which is shorter than the adapter may take.  Every    *)
(* write asks for the token.  An executor has one execution at a time, so  *)
(* the token is the executor here.  The key of a call holds the blocks the *)
(* provider is asked for: those that the providers before it have not      *)
(* delivered.                                                              *)
(***************************************************************************)
EXTENDS EnrichmentJobs, Sequences

CONSTANTS
  BlockSets,      \* the sets of blocks the provider may be asked for
  max_retries     \* of the provider's policy

ASSUME ExecutorConstants == BlockSets # {} /\ max_retries \in Nat

VARIABLES
  calls,          \* the ProviderCall rows of the item, in the order of creation
  exec,           \* where each executor is
  actors          \* history: the runs started at the provider

execVars == <<job, messages, sent, run, asker, faults, overrun, shared, calls, exec, actors>>

ProviderCall ==
    [blocks : BlockSets, status : {"REQUESTED", "SUCCEEDED", "ABSENT", "FAILED"},
     error_code : {"", "ProviderSubmissionUncertain", "interrupted", "other"},
     execution_token : Executors,
     held : BOOLEAN,                \* leased_until > now or next_poll_at > now
     provider_state : {"empty", "SUBMITTING", "run"}, run_id : Nat]

\* A run knows its call; the provider ends it.
Actor == [call : Nat \ {0}, over : BOOLEAN]

Idle == [pc |-> "out", call |-> 0, answer |-> 0]

\* Inside the try block of execute_provider, in its handler, outside.
Trying == {"enrich", "save", "post", "answered", "poll", "result"}
Failing == {"uncertain", "cut", "failed"}

Exec == [pc : Trying \cup Failing \cup {"out", "done", "raise"}, call : Nat, answer : Nat]

Completed(c) == calls[c].status \in {"SUCCEEDED", "ABSENT"}
Requested(c) == calls[c].status = "REQUESTED"

CallsFor(blocks) == {c \in DOMAIN calls : calls[c].blocks = blocks}

At(x, pc) == exec[x].pc = pc
GoTo(x, pc) ==
    exec' = [exec EXCEPT ![x] = IF pc \in {"done", "raise"} THEN [Idle EXCEPT !.pc = pc]
                                ELSE [@ EXCEPT !.pc = pc]]

\* The job and its executors stay as they are.
InsideJob == UNCHANGED vars

-------------------------------------------------------------------------------
(* _reserve, under the lock of the policy.                                 *)

Uncertain(c) == calls[c].error_code = "ProviderSubmissionUncertain"
Cut(c)       == calls[c].error_code = "interrupted"

\* Mutant: the call that has its result is not looked for.
RefusedUncertain(blocks) == \E c \in CallsFor(blocks) : Uncertain(c)

\* The result is there already, or an earlier start must be reconciled first.
Refused(blocks) == \E c \in CallsFor(blocks) : Completed(c) \/ Uncertain(c)

Reserved(c, x) == [c EXCEPT !.execution_token = x, !.held = TRUE]

NewCall(blocks, x) ==
    [blocks |-> blocks, status |-> "REQUESTED", error_code |-> "",
     execution_token |-> x, held |-> TRUE,
     provider_state |-> "empty", run_id |-> 0]

Holding(x, c) == exec' = [exec EXCEPT ![x] = [pc |-> "enrich", call |-> c, answer |-> 0]]

\* Another execution is at it, or the provider was asked a moment ago; or the
\* quota is used up.
ResumeCall(x, c) ==
    \/ GoTo(x, "raise") /\ UNCHANGED calls
    \/ /\ ~ calls[c].held
       /\ calls' = [calls EXCEPT ![c] = Reserved(@, x)]
       /\ Holding(x, c)

\* The gate may be shut (budget, circuit, configuration) or the quota used up.
StartCall(x, blocks) ==
    \/ GoTo(x, "done") /\ UNCHANGED calls
    \/ GoTo(x, "raise") /\ UNCHANGED calls
    \/ /\ Cardinality(CallsFor(blocks)) <= max_retries
       /\ calls' = Append(calls, NewCall(blocks, x))
       /\ Holding(x, Len(calls) + 1)

_reserve(x, blocks) ==
    IF Refused(blocks) THEN GoTo(x, "done") /\ UNCHANGED calls
    ELSE LET open == {c \in CallsFor(blocks) : Requested(c)} IN
         IF open # {} THEN \E c \in open : ResumeCall(x, c)
         ELSE StartCall(x, blocks)

\* The cascade may also not come to the provider: everything is delivered.
run_enrichment_cascade(x) ==
    /\ run[x].pc = "calling" /\ At(x, "out")
    /\ \/ \E blocks \in BlockSets : _reserve(x, blocks)
       \/ GoTo(x, "done") /\ UNCHANGED calls
    /\ InsideJob /\ UNCHANGED actors

-------------------------------------------------------------------------------
(* The adapter.                                                            *)

\* Mutant: whoever has held the call may write to it.
MayWriteOnceHeld(x) == Requested(exec[x].call)

\* The condition of every write of an execution.
MayWrite(x) == Requested(exec[x].call) /\ calls[exec[x].call].execution_token = x

\* _save, and what follows if the call is still x's; otherwise ProviderPending.
Saves(x, c, pc) ==
    IF MayWrite(x)
    THEN calls' = [calls EXCEPT ![exec[x].call] = c] /\ GoTo(x, pc)
    ELSE GoTo(x, "raise") /\ UNCHANGED calls

\* Asks again later: the lease is given back, but not before the wait is saved.
Waits(x) == Saves(x, [calls[exec[x].call] EXCEPT !.held = TRUE], "raise")

\* What the call says of the run: none yet (and none without a positive reserve),
\* one that may have been started, or one to ask for unless it has taken too long.
enrich(x) ==
    /\ At(x, "enrich")
    /\ LET state == calls[exec[x].call].provider_state IN
       \/ state = "empty" /\ GoTo(x, "save")
       \/ state = "empty" /\ GoTo(x, "failed")
       \/ state = "SUBMITTING" /\ GoTo(x, "uncertain")
       \/ state = "run" /\ GoTo(x, "poll")
       \/ state = "run" /\ GoTo(x, "uncertain")
    /\ InsideJob /\ UNCHANGED <<calls, actors>>

SaveSubmitting(x) ==
    /\ At(x, "save")
    /\ Saves(x, [calls[exec[x].call] EXCEPT !.provider_state = "SUBMITTING"], "post")
    /\ InsideJob /\ UNCHANGED actors

\* The request may fail before or after it has started the actor.
PostRun(x) ==
    /\ At(x, "post")
    /\ \/ /\ actors' = Append(actors, [call |-> exec[x].call, over |-> FALSE])
          /\ \E answer \in {0, Len(actors) + 1} :
               exec' = [exec EXCEPT ![x].pc = "answered", ![x].answer = answer]
       \/ GoTo(x, "answered") /\ UNCHANGED actors
    /\ InsideJob /\ UNCHANGED calls

SaveRun(x) ==
    /\ At(x, "answered")
    /\ LET call == calls[exec[x].call] IN
       IF exec[x].answer = 0
       THEN Saves(x, [call EXCEPT !.held = TRUE], "uncertain")
       ELSE Saves(x, [call EXCEPT !.provider_state = "run", !.run_id = exec[x].answer],
                  "poll")
    /\ InsideJob /\ UNCHANGED actors

\* The run is asked for, its cost and its dataset read; any of it may have to
\* wait, and what comes may be no result.
_advance(x) ==
    /\ At(x, "poll")
    /\ \/ Waits(x)
       \/ /\ actors[calls[exec[x].call].run_id].over
          /\ \/ Saves(x, calls[exec[x].call], "result")
             \/ Saves(x, calls[exec[x].call], "failed")
    /\ InsideJob /\ UNCHANGED actors

\* The provider's side.
ActorEnds(a) ==
    /\ ~ actors[a].over
    /\ actors' = [actors EXCEPT ![a].over = TRUE]
    /\ InsideJob /\ UNCHANGED <<calls, exec>>

-------------------------------------------------------------------------------
(* execute_provider, once the adapter has returned or raised.              *)

Ended(c, status, error_code) ==
    [c EXCEPT !.status = status, !.error_code = error_code, !.held = FALSE]

\* Evidence, deliveries and the end of the call are one transaction, which may
\* fail.
Finalize(x) ==
    /\ At(x, "result")
    /\ \/ \E status \in {"SUCCEEDED", "ABSENT"} :
            Saves(x, Ended(calls[exec[x].call], status, ""), "done")
       \/ MayWrite(x) /\ GoTo(x, "failed") /\ UNCHANGED calls
    /\ InsideJob /\ UNCHANGED actors

\* Mutant: the reason is not kept.
ErrorAnonymous(x) == "other"

Error(x) == CASE At(x, "uncertain") -> "ProviderSubmissionUncertain"
              [] At(x, "cut")       -> "interrupted"
              [] At(x, "failed")    -> "other"

\* A ProviderError lets the cascade go on, and so does what becomes one; a
\* refused delivery (ValidationError) ends it.
Fails(x) ==
    /\ exec[x].pc \in Failing
    /\ calls' = IF MayWrite(x)
                THEN [calls EXCEPT ![exec[x].call] = Ended(@, "FAILED", Error(x))]
                ELSE calls
    /\ \/ GoTo(x, "done")
       \/ At(x, "failed") /\ GoTo(x, "raise")
    /\ InsideJob /\ UNCHANGED actors

\* An error of the database in a write (_save, Finalize) is an exception like any
\* other, and Celery's soft time limit is one in the midst of whatever a worker
\* does; in the handler they leave the call as it is.
Writing == {"save", "answered", "poll", "result"}

Interrupted(x) ==
    /\ \/ exec[x].pc \in (IF x \in Workers THEN Trying ELSE Writing)
          /\ GoTo(x, "cut")
       \/ exec[x].pc \in Failing /\ GoTo(x, "raise")
    /\ InsideJob /\ UNCHANGED <<calls, actors>>

\* Time passes.
CallIsDue(c) ==
    /\ calls[c].held
    /\ calls' = [calls EXCEPT ![c].held = FALSE]
    /\ InsideJob /\ UNCHANGED <<exec, actors>>

-------------------------------------------------------------------------------
(* The job with the calls inside.                                          *)

\* A step of the job that x's execution does not notice, or is ended by.
Outside == UNCHANGED <<calls, exec, actors>>

Leaves(x) == exec' = [exec EXCEPT ![x] = Idle] /\ UNCHANGED <<calls, actors>>

\* The rest of the enrichment may fail before and after the cascade.
Returns(x) ==
    /\ \/ At(x, "done") /\ Finish(x)
       \/ exec[x].pc \in {"out", "done", "raise"} /\ Raise(x)
    /\ Leaves(x)

JobStep ==
    \/ (\E w \in Workers : WorkerStep(w)) /\ Outside
    \/ \E w \in Workers : WorkerLost(w) /\ Leaves(w)
    \/ \E x \in Executors : Returns(x)
    \/ (\E id \in messages : MessageLost(id)) /\ Outside
    \/ (LeaseExpires \/ recover_stalled_enrichment_jobs) /\ Outside
    \/ (submitIndividual \/ Ask \/ AnswerLost) /\ Outside
    \/ (\E x \in WebRequests : WebStep(x)) /\ Outside
    \/ \E x \in WebRequests : RequestDies(x) /\ Leaves(x)

CallStep(x) ==
    \/ run_enrichment_cascade(x) \/ enrich(x) \/ SaveSubmitting(x) \/ PostRun(x)
    \/ SaveRun(x) \/ _advance(x) \/ Finalize(x) \/ Fails(x)

Time ==
    \/ \E c \in DOMAIN calls : CallIsDue(c)
    \/ \E a \in DOMAIN actors : ActorEnds(a)

ExecInit == Init /\ calls = <<>> /\ exec = [x \in Executors |-> Idle] /\ actors = <<>>

ExecNext ==
    \/ JobStep \/ Time
    \/ \E x \in Executors : CallStep(x) \/ Interrupted(x)

ExecSpec == ExecInit /\ [][ExecNext]_execVars

\* Workers work, Beat recovers every minute, time passes, the page asks; what an
\* executor calls answers, or times out.
ExecFairSpec ==
    /\ ExecSpec
    /\ \A w \in Workers : WF_execVars(WorkerStep(w) /\ Outside)
    /\ \A x \in Executors : WF_execVars(CallStep(x) \/ Returns(x))
    /\ WF_execVars(LeaseExpires /\ Outside)
    /\ WF_execVars(recover_stalled_enrichment_jobs /\ Outside)
    /\ WF_execVars((Ask \/ \E x \in WebRequests : EnrichmentJobDetailView(x)) /\ Outside)
    /\ \A x \in WebRequests : WF_execVars(WebClaims(x) /\ Outside)

-------------------------------------------------------------------------------
(* Properties.                                                             *)

ExecTypeOK ==
    /\ calls \in Seq(ProviderCall) /\ actors \in Seq(Actor)
    /\ exec \in [Executors -> Exec]
    /\ \A a \in DOMAIN actors : actors[a].call \in DOMAIN calls
    /\ \A x \in Executors :
         exec[x].pc \in Trying \cup Failing =>
           run[x].pc = "calling" /\ exec[x].call \in DOMAIN calls

\* A run that may still cost money is on record: its call will be asked for it
\* again, or says that the start must be reconciled, or that the execution was
\* interrupted.
RunsAreOnRecord ==
    \A a \in DOMAIN actors :
      LET c == actors[a].call IN
      actors[a].over \/ Requested(c) \/ Uncertain(c) \/ Cut(c)

\* No run is started for the same blocks beside one whose outcome is not on
\* record, however executions stall, die and are resumed by others (unless one
\* was interrupted).
StartsAreAlone ==
    [][Len(actors') > Len(actors) =>
         \A a \in DOMAIN actors :
           LET c == actors[a].call
               d == actors'[Len(actors')].call IN
           calls[c].blocks = calls[d].blocks /\ ~ Cut(c) /\ ~ Cut(d)
             => ~ Requested(c) /\ ~ Uncertain(c)]_execVars

\* Once the provider has delivered, or has said that it has nothing, the calls
\* for these blocks stay as they are: nothing is paid or billed again.
OutcomeIsFinal ==
    [][\A c \in DOMAIN calls :
         Completed(c) =>
           \A d \in DOMAIN calls' :
             calls'[d].blocks = calls[c].blocks =>
               d \in DOMAIN calls /\ calls'[d].status = calls[d].status]_execVars
===============================================================================
