---------------------------- MODULE EnrichmentJobs ----------------------------
(***************************************************************************)
(* A single enrichment (providers/enrichment_jobs.py, tasks.py, the job    *)
(* views of analytics/views.py) and the page that waits for it             *)
(* (waitForEnrichmentJob of frontend/src/pages/Enrichment.tsx).            *)
(*                                                                         *)
(* Who executes a job takes a lease under a worker id: the id of the       *)
(* Celery task for a worker, "api-worker" for every request that finds the *)
(* job QUEUED and executes it itself: that of the page, of the page in     *)
(* another tab, of another user of the tenant.  The lease lets its owner   *)
(* in, so it does not keep such requests apart; and the final write checks *)
(* neither the lease nor its owner.                                        *)
(***************************************************************************)
EXTENDS Naturals, FiniteSets

CONSTANTS
  Workers,        \* Celery worker processes
  WebRequests,    \* what answers requests: the threads of the web process
  None,
  max_attempts,   \* 5
  MaxPolls,       \* how often the page asks before it gives up (150)
  MaxFaults       \* bound on deaths, losses, overrun leases and requests of
                  \* others together

Executors == Workers \cup WebRequests

ASSUME JobConstants ==
    /\ max_attempts \in Nat \ {0} /\ MaxPolls \in Nat \ {0} /\ MaxFaults \in Nat
    /\ Workers \cap WebRequests = {}
    /\ None \notin Nat \cup {"QUEUED", "RUNNING", "SUCCEEDED", "NO_DATA", "FAILED"}
                    \cup Workers \cup WebRequests

VARIABLES
  job,            \* the row of EnrichmentJob
  messages,       \* task ids whose message the broker holds
  sent,           \* task ids given out
  run,            \* what each executor is doing
  asker,          \* the page: waitForEnrichmentJob
  faults,
  overrun,        \* history: has an execution outlived its lease?
  shared          \* history: has a request been let in beside another's execution?

vars == <<job, messages, sent, run, asker, faults, overrun, shared>>

FINAL_JOB_STATUSES == {"SUCCEEDED", "NO_DATA", "FAILED"}

ApiWorker == 0                  \* the worker id "api-worker", of every request

EnrichmentJob ==
    [status : {None, "QUEUED", "RUNNING"} \cup FINAL_JOB_STATUSES,
     attempt_count : Nat, lease_owner : {None} \cup Nat,
     lease : {"none", "live", "expired"}]

Asker ==
    [pc : {"form", "sleeping", "asking", "shown", "error"}, polls : Nat,
     by : {None} \cup WebRequests]         \* who executes the job for it

Run == [pc : {"idle", "read", "calling"}, id : {None} \cup Nat, attempt : Nat]

NoJob == [status |-> None, attempt_count |-> 0, lease_owner |-> None, lease |-> "none"]

FreeRun == [pc |-> "idle", id |-> None, attempt |-> 0]

Fault == faults < MaxFaults /\ faults' = faults + 1

\* process_enrichment_job_task.delay: a new task id.
Delay == sent' = sent + 1 /\ messages' = messages \cup {sent + 1}

-------------------------------------------------------------------------------
(* Executing a job.                                                        *)

Released(status) == [job EXCEPT !.status = status, !.lease_owner = None, !.lease = "none"]

\* Mutant: a live lease keeps nobody out.
LeasedToOtherNever(id) == FALSE

LeasedToOther(id) ==
    job.status = "RUNNING" /\ job.lease = "live" /\ job.lease_owner # id

\* Mutant: a job that has ended is executed again.
ExecutableAgain(id) == job.status # None /\ ~ LeasedToOther(id)

Executable(id) == job.status \notin FINAL_JOB_STATUSES /\ ~ LeasedToOther(id)

\* The first transaction of execute_enrichment_job.
Claim(x, id) ==
    /\ job' = [job EXCEPT !.status = "RUNNING", !.lease_owner = id, !.lease = "live",
                          !.attempt_count = @ + 1]
    /\ run' = [run EXCEPT ![x] = [pc |-> "calling", id |-> id,
                                  attempt |-> job.attempt_count + 1]]

\* The page gets the job as its request leaves it.
Seen(status) ==
    [pc |-> IF status \in {"SUCCEEDED", "NO_DATA"} THEN "shown"
            ELSE IF status = "FAILED" \/ asker.polls + 1 = MaxPolls THEN "error"
            ELSE "sleeping",
     polls |-> asker.polls + 1, by |-> None]

Answers(x, status) == asker' = IF asker.by = x THEN Seen(status) ELSE asker

\* A worker that finds the job finished or leased acknowledges the message.
process_enrichment_job_task(w, id) ==
    /\ run[w].pc = "idle" /\ id \in messages
    /\ messages' = messages \ {id}
    /\ IF Executable(id) THEN Claim(w, id) ELSE UNCHANGED <<job, run>>
    /\ UNCHANGED <<sent, asker, faults, overrun, shared>>

Finish(x) ==
    /\ run[x].pc = "calling"
    /\ \E status \in {"SUCCEEDED", "NO_DATA"} :
         job' = Released(status) /\ Answers(x, status)
    /\ run' = [run EXCEPT ![x] = FreeRun]
    /\ UNCHANGED <<messages, sent, faults, overrun, shared>>

\* Whether a failure is the last is decided by the attempt that was claimed.
AfterFailure(x) == IF run[x].attempt >= max_attempts THEN "FAILED" ELSE "QUEUED"

\* A task is retried under its id unless the job has failed; a request swallows
\* the exception.
Raise(x) ==
    /\ run[x].pc = "calling"
    /\ job' = Released(AfterFailure(x)) /\ Answers(x, AfterFailure(x))
    /\ messages' = IF x \in Workers /\ AfterFailure(x) # "FAILED"
                   THEN messages \cup {run[x].id} ELSE messages
    /\ run' = [run EXCEPT ![x] = FreeRun]
    /\ UNCHANGED <<sent, faults, overrun, shared>>

\* An acknowledged-late message of a lost worker is delivered again.
WorkerLost(w) ==
    /\ run[w].pc = "calling" /\ Fault
    /\ messages' = messages \cup {run[w].id}
    /\ run' = [run EXCEPT ![w] = FreeRun]
    /\ UNCHANGED <<job, sent, asker, overrun, shared>>

LeaseExpires ==
    /\ job.lease = "live"
    /\ IF \A x \in Executors : run[x].pc # "calling" THEN UNCHANGED <<faults, overrun>>
       ELSE Fault /\ overrun' = TRUE
    /\ job' = [job EXCEPT !.lease = "expired"]
    /\ UNCHANGED <<messages, sent, run, asker, shared>>

\* Mutant: nobody is told of the job that is queued again.
recoverUntold ==
    /\ job.status = "RUNNING" /\ job.lease = "expired"
    /\ job' = Released("QUEUED")
    /\ UNCHANGED <<messages, sent, run, asker, faults, overrun, shared>>

recover_stalled_enrichment_jobs ==
    /\ job.status = "RUNNING" /\ job.lease = "expired"
    /\ job' = Released("QUEUED")
    /\ Delay
    /\ UNCHANGED <<run, asker, faults, overrun, shared>>

MessageLost(id) ==
    /\ id \in messages /\ Fault
    /\ messages' = messages \ {id}
    /\ UNCHANGED <<job, sent, run, asker, overrun, shared>>

-------------------------------------------------------------------------------
(* The page.                                                               *)

\* submitIndividual: the job is created and its task sent when the request
\* commits; the page then waits.  If the answer is lost, the page forgets it.
submitIndividual ==
    /\ asker.pc = "form" /\ job.status = None
    /\ job' = [job EXCEPT !.status = "QUEUED"]
    /\ Delay
    /\ \/ asker' = [asker EXCEPT !.pc = "sleeping"] /\ UNCHANGED faults
       \/ asker' = [asker EXCEPT !.pc = "error"] /\ Fault
    /\ UNCHANGED <<run, overrun, shared>>

\* Two seconds later the page asks again, unless it has asked often enough.
Ask ==
    /\ asker.pc = "sleeping"
    /\ asker' = [asker EXCEPT !.pc = "asking"]
    /\ UNCHANGED <<job, messages, sent, run, faults, overrun, shared>>

\* EnrichmentJobDetailView reads the job for the page: one that is QUEUED is to be
\* executed.
EnrichmentJobDetailView(x) ==
    /\ asker.pc = "asking" /\ asker.by = None /\ run[x].pc = "idle"
    /\ IF job.status = "QUEUED"
       THEN run' = [run EXCEPT ![x].pc = "read"] /\ asker' = [asker EXCEPT !.by = x]
       ELSE asker' = Seen(job.status) /\ UNCHANGED run
    /\ UNCHANGED <<job, messages, sent, faults, overrun, shared>>

\* The same for somebody else, of whom only this matters.
OtherAsks(x) ==
    /\ job.status = "QUEUED" /\ run[x].pc = "idle" /\ Fault
    /\ run' = [run EXCEPT ![x].pc = "read"]
    /\ UNCHANGED <<job, messages, sent, asker, overrun, shared>>

\* The job may be another's by the time the request claims it, or another
\* request's: then it is executed twice.
WebClaims(x) ==
    /\ run[x].pc = "read"
    /\ IF Executable(ApiWorker)
       THEN /\ Claim(x, ApiWorker)
            /\ shared' = (shared \/ \E y \in WebRequests : run[y].pc = "calling")
            /\ UNCHANGED asker
       ELSE /\ run' = [run EXCEPT ![x] = FreeRun]
            /\ Answers(x, job.status)
            /\ UNCHANGED <<job, shared>>
    /\ UNCHANGED <<messages, sent, faults, overrun>>

\* The process of a request dies; a page that waits for it stops asking.
RequestDies(x) ==
    /\ run[x].pc # "idle" /\ Fault
    /\ run' = [run EXCEPT ![x] = FreeRun]
    /\ asker' = IF asker.by = x THEN [asker EXCEPT !.pc = "error", !.by = None]
                ELSE asker
    /\ UNCHANGED <<job, messages, sent, overrun, shared>>

\* So it does when the answer is lost, but the execution goes on.
AnswerLost ==
    /\ asker.pc = "asking" /\ Fault
    /\ asker' = [asker EXCEPT !.pc = "error", !.by = None]
    /\ UNCHANGED <<job, messages, sent, run, overrun, shared>>

-------------------------------------------------------------------------------
Init ==
    /\ job = NoJob /\ messages = {} /\ sent = 0
    /\ run = [x \in Executors |-> FreeRun]
    /\ asker = [pc |-> "form", polls |-> 0, by |-> None]
    /\ faults = 0 /\ overrun = FALSE /\ shared = FALSE

Execution(x) == Finish(x) \/ Raise(x)

WorkerStep(w) == \E id \in messages : process_enrichment_job_task(w, id)

WebStep(x) == EnrichmentJobDetailView(x) \/ OtherAsks(x) \/ WebClaims(x)

Next ==
    \/ \E w \in Workers : WorkerStep(w) \/ WorkerLost(w)
    \/ \E x \in Executors : Execution(x)
    \/ \E id \in messages : MessageLost(id)
    \/ LeaseExpires \/ recover_stalled_enrichment_jobs
    \/ submitIndividual \/ Ask \/ AnswerLost
    \/ \E x \in WebRequests : WebStep(x) \/ RequestDies(x)

Spec == Init /\ [][Next]_vars

-------------------------------------------------------------------------------
(* Properties.                                                             *)

Calling == {x \in Executors : run[x].pc = "calling"}

TypeOK ==
    /\ job \in EnrichmentJob
    /\ sent \in Nat /\ messages \subseteq 1..sent
    /\ run \in [Executors -> Run]
    /\ asker \in Asker
    /\ faults \in 0..MaxFaults /\ overrun \in BOOLEAN /\ shared \in BOOLEAN

\* An execution that the lease did not keep to itself: it outlived it, or a second
\* request came in under the same worker id.
Unleased == overrun \/ shared

\* The providers are called for a job by one executor at a time (they charge by
\* the call), unless an execution outlives its lease or two requests execute it:
\* the lease keeps tasks, their retries and requests apart.
OneCallerAtATime == ~ Unleased => \A x, y \in Calling : x = y

\* A job that has ended stays ended, on the same condition: no late execution
\* takes its result back.
EndedStaysEnded ==
    [][~ Unleased /\ job.status \in FINAL_JOB_STATUSES => job' = job]_vars

\* Nobody asks for the job any more and nothing more fails.
Unwatched ==
    /\ asker.pc = "error" /\ faults = MaxFaults
    /\ \A x \in WebRequests : run[x].pc = "idle"

\* A task that will execute the job, or an execution or what the recovery will
\* find of one.
IsAtHand == messages # {} \/ job.status = "RUNNING"

\* A job nobody asks for that has a task or an execution ends: failed attempts are
\* retried, lost ones recovered.  (A job that has neither stays QUEUED: a request
\* that executes the job has its task acknowledged unexecuted, and if the attempt
\* fails only the next request would try again.)
JobEnds == Unwatched /\ IsAtHand ~> job.status \in FINAL_JOB_STATUSES
===============================================================================
