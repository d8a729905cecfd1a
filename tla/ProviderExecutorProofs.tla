------------------------ MODULE ProviderExecutorProofs ------------------------
(***************************************************************************)
(* Theorems about EnrichmentJobs and ProviderExecutor, for every number of *)
(* workers, attempts, polls, faults, block sets and calls.                 *)
(*                                                                         *)
(* What makes the lease of a job exclusive is that a caller's worker id    *)
(* does not come in a second time while it calls.  Of tasks this is so: a  *)
(* task's message is not with the broker while the task is executed.  Of   *)
(* requests it is not: they share an id, and what is proved is that this   *)
(* (shared) and an execution that outlives its lease (overrun) are the     *)
(* only ways in.                                                           *)
(*                                                                         *)
(* Two things make a paid run unique.  _reserve starts a call only beside  *)
(* calls that are over, so one call per set of blocks is open (OneOpen).   *)
(* And one execution ever posts for a call: SUBMITTING is saved under its  *)
(* token before the request, whoever resumes the call later finds it and   *)
(* does not post again, and the run's id is saved only by who posted       *)
(* (CallKnows, ExecutionKnows).                                            *)
(***************************************************************************)
EXTENDS ProviderExecutor, SequenceTheorems, TLAPS

-------------------------------------------------------------------------------
(* Jobs: EnrichmentJobs.  Their types first.                               *)

\* Claiming leaves a job and an executor of the right types.
LEMMA ClaimTypes ==
  ASSUME job \in EnrichmentJob, run \in [Executors -> Run],
         NEW x \in Executors, NEW id \in Nat, Claim(x, id)
  PROVE  job' \in EnrichmentJob /\ run' \in [Executors -> Run]
<1> DEFINE new == [pc |-> "calling", id |-> id, attempt |-> job.attempt_count + 1]
<1>1. job.attempt_count + 1 \in Nat
  BY DEF EnrichmentJob
<1>2. job' \in EnrichmentJob
  BY <1>1 DEF EnrichmentJob, Claim
<1>3. new \in Run /\ run' = [run EXCEPT ![x] = new]
  BY <1>1 DEF Run, Claim
<1>4. run' \in [Executors -> Run]
  BY <1>3
<1> QED BY <1>2, <1>4

\* So does releasing the job with any status it may have.
LEMMA ReleasedType ==
  ASSUME job \in EnrichmentJob,
         NEW status \in {"QUEUED"} \cup FINAL_JOB_STATUSES
  PROVE  Released(status) \in EnrichmentJob
BY DEF EnrichmentJob, Released

\* What the page has been told leaves it well typed.
LEMMA SeenType ==
  ASSUME asker \in Asker, NEW status
  PROVE  Seen(status) \in Asker
BY DEF Seen, Asker

\* A free executor is well typed.
LEMMA FreeRunType == FreeRun \in Run
BY DEF FreeRun, Run

\* A worker executes a job under a task id that was given out.
IdsGiven == \A w \in Workers : run[w].pc = "calling" => run[w].id \in 1..sent

\* Every operation keeps the types: the message of a lost or failed task goes
\* back to the broker under an id that was given out.
LEMMA TypeStep == ASSUME TypeOK, IdsGiven, [Next]_vars PROVE TypeOK'
<1> USE DEF TypeOK
<1>1. CASE UNCHANGED vars
  BY <1>1 DEF vars
<1>2. ASSUME NEW w \in Workers, NEW id \in messages,
             process_enrichment_job_task(w, id)
      PROVE  TypeOK'
  <2>1. w \in Executors /\ id \in Nat
    BY DEF Executors
  <2>2. CASE Claim(w, id)
    BY <1>2, <2>1, <2>2, ClaimTypes DEF process_enrichment_job_task
  <2>3. CASE UNCHANGED <<job, run>>
    BY <1>2, <2>3 DEF process_enrichment_job_task
  <2> QED BY <1>2, <2>2, <2>3 DEF process_enrichment_job_task
<1>3. ASSUME NEW w \in Workers, WorkerLost(w) PROVE TypeOK'
  <2>1. faults' \in 0..MaxFaults
    BY <1>3, JobConstants DEF WorkerLost, Fault
  <2>3. run' \in [Executors -> Run]
    BY <1>3, FreeRunType DEF WorkerLost
  <2>4. messages' \subseteq 1..sent'
    BY <1>3 DEF WorkerLost, IdsGiven
  <2> QED BY <1>3, <2>1, <2>3, <2>4 DEF WorkerLost
<1>4. ASSUME NEW x \in Executors, Finish(x) PROVE TypeOK'
  <2>1. job' \in EnrichmentJob
    BY <1>4, ReleasedType DEF Finish, FINAL_JOB_STATUSES
  <2>2. run' \in [Executors -> Run]
    BY <1>4, FreeRunType DEF Finish
  <2> QED BY <1>4, <2>1, <2>2, SeenType DEF Finish, Answers
<1>5. ASSUME NEW x \in Executors, Raise(x) PROVE TypeOK'
  <2>1. job' \in EnrichmentJob
    BY <1>5, ReleasedType DEF Raise, AfterFailure, FINAL_JOB_STATUSES
  <2>2. run' \in [Executors -> Run]
    BY <1>5, FreeRunType DEF Raise
  <2>3. messages' \subseteq 1..sent'
    <3>1. x \in Workers => run[x].id \in 1..sent
      BY <1>5 DEF Raise, IdsGiven
    <3> QED BY <1>5, <3>1 DEF Raise
  <2> QED BY <1>5, <2>1, <2>2, <2>3, SeenType DEF Raise, Answers
<1>6. ASSUME NEW id \in messages, MessageLost(id) PROVE TypeOK'
  BY <1>6, JobConstants DEF MessageLost, Fault
<1>7. CASE LeaseExpires
  <2>1. job' \in EnrichmentJob
    BY <1>7 DEF LeaseExpires, EnrichmentJob
  <2>2. faults' \in 0..MaxFaults
    BY <1>7, JobConstants DEF LeaseExpires, Fault
  <2>3. overrun' \in BOOLEAN
    BY <1>7 DEF LeaseExpires
  <2> QED BY <1>7, <2>1, <2>2, <2>3 DEF LeaseExpires
<1>8. CASE recover_stalled_enrichment_jobs
  <2>1. job' \in EnrichmentJob
    BY <1>8, ReleasedType DEF recover_stalled_enrichment_jobs
  <2> QED BY <1>8, <2>1 DEF recover_stalled_enrichment_jobs, Delay
<1>9. CASE submitIndividual
  <2>1. job' \in EnrichmentJob
    BY <1>9 DEF submitIndividual, EnrichmentJob
  <2>2. asker' \in Asker
    BY <1>9 DEF submitIndividual, Asker
  <2> QED BY <1>9, <2>1, <2>2, JobConstants DEF submitIndividual, Delay, Fault
<1>10. CASE Ask \/ AnswerLost
  <2>1. faults' \in 0..MaxFaults
    BY <1>10, JobConstants DEF Ask, AnswerLost, Fault
  <2> QED BY <1>10, <2>1 DEF Ask, AnswerLost, Asker
<1>11. ASSUME NEW x \in WebRequests, EnrichmentJobDetailView(x) PROVE TypeOK'
  <2>1. run' \in [Executors -> Run]
    BY <1>11 DEF EnrichmentJobDetailView, Run, Executors
  <2>2. asker' \in Asker
    BY <1>11, SeenType DEF EnrichmentJobDetailView, Asker
  <2> QED BY <1>11, <2>1, <2>2 DEF EnrichmentJobDetailView
<1>12. ASSUME NEW x \in WebRequests, OtherAsks(x) PROVE TypeOK'
  <2>1. run' \in [Executors -> Run]
    BY <1>12 DEF OtherAsks, Run, Executors
  <2>2. faults' \in 0..MaxFaults
    BY <1>12, JobConstants DEF OtherAsks, Fault
  <2> QED BY <1>12, <2>1, <2>2 DEF OtherAsks
<1>13. ASSUME NEW x \in WebRequests, WebClaims(x) PROVE TypeOK'
  <2>1. x \in Executors /\ ApiWorker \in Nat
    BY DEF Executors, ApiWorker
  <2>2. CASE Claim(x, ApiWorker) /\ UNCHANGED asker
    <3>1. shared' \in BOOLEAN
      BY <1>13, <2>1, <2>2 DEF WebClaims
    <3> QED BY <1>13, <2>1, <2>2, <3>1, ClaimTypes DEF WebClaims
  <2>3. CASE run' = [run EXCEPT ![x] = FreeRun] /\ UNCHANGED <<job, shared>>
    <3>1. run' \in [Executors -> Run]
      BY <2>3, FreeRunType
    <3>2. asker' \in Asker
      BY <1>13, SeenType DEF WebClaims, Answers
    <3> QED BY <1>13, <2>3, <3>1, <3>2 DEF WebClaims
  <2> QED BY <1>13, <2>2, <2>3 DEF WebClaims
<1>14. ASSUME NEW x \in WebRequests, RequestDies(x) PROVE TypeOK'
  <2>1. run' \in [Executors -> Run]
    BY <1>14, FreeRunType DEF RequestDies
  <2>2. faults' \in 0..MaxFaults
    BY <1>14, JobConstants DEF RequestDies, Fault
  <2>3. asker' \in Asker
    BY <1>14 DEF RequestDies, Asker
  <2> QED BY <1>14, <2>1, <2>2, <2>3 DEF RequestDies
<1> QED
  BY <1>1, <1>2, <1>3, <1>4, <1>5, <1>6, <1>7, <1>8, <1>9, <1>10, <1>11, <1>12,
     <1>13, <1>14 DEF Next, WorkerStep, Execution, WebStep

\* Every executor keeps what it does, is freed, or is a worker that takes a
\* message; ids are only ever added.
LEMMA IdsStep == ASSUME TypeOK, IdsGiven, [Next]_vars PROVE IdsGiven'
<1> SUFFICES ASSUME NEW w \in Workers, run'[w].pc = "calling"
             PROVE  run'[w].id \in 1..sent'
  BY DEF IdsGiven
<1> USE DEF TypeOK, Executors
<1> DEFINE Given == run'[w].id \in 1..sent'
<1>0. /\ w \notin WebRequests
      /\ FreeRun.pc # "calling"
      /\ run[w].pc = "calling" => run[w].id \in 1..sent
  BY JobConstants DEF FreeRun, IdsGiven
<1>1. CASE UNCHANGED vars
  BY <1>0, <1>1 DEF vars
<1>2. ASSUME NEW v \in Workers, NEW id \in messages,
             process_enrichment_job_task(v, id)
      PROVE  Given
  BY <1>0, <1>2 DEF process_enrichment_job_task, Claim
<1>3. ASSUME NEW v \in Workers, WorkerLost(v) PROVE Given
  BY <1>0, <1>3 DEF WorkerLost
<1>4. ASSUME NEW x \in Executors, Finish(x) \/ Raise(x) PROVE Given
  <2>1. run' = [run EXCEPT ![x] = FreeRun] /\ sent' = sent
    BY <1>4 DEF Finish, Raise
  <2> QED BY <1>0, <2>1
<1>5. CASE UNCHANGED <<run, sent>>
  BY <1>0, <1>5
<1>6. ASSUME UNCHANGED run, Delay PROVE Given
  BY <1>0, <1>6 DEF Delay
<1>7. ASSUME NEW x \in WebRequests, WebStep(x) \/ RequestDies(x) PROVE Given
  <2>1. run'[w] = run[w] /\ sent' = sent
    BY <1>0, <1>7 DEF WebStep, EnrichmentJobDetailView, OtherAsks, WebClaims, Claim,
                      RequestDies
  <2> QED BY <1>0, <2>1
<1> QED
  BY <1>1, <1>2, <1>3, <1>4, <1>5, <1>6, <1>7
     DEF Next, WorkerStep, Execution, MessageLost, LeaseExpires,
         recover_stalled_enrichment_jobs, submitIndividual, Ask, AnswerLost

-------------------------------------------------------------------------------
(* The lease *)

\* The lease is that of the executor that calls; a worker's message is not with
\* the broker meanwhile, so that no task comes in under the same id.
LeaseOfCaller ==
    \A x \in Calling :
      /\ job.status = "RUNNING" /\ job.lease = "live" /\ job.lease_owner = run[x].id
      /\ IF x \in WebRequests THEN run[x].id = ApiWorker ELSE run[x].id \notin messages

Alone == \A x, y \in Calling : x = y

LeasedIsRunning == job.lease # "none" => job.status = "RUNNING"

IInv ==
    /\ TypeOK
    /\ IdsGiven
    /\ ~ Unleased => LeaseOfCaller /\ Alone
    /\ LeasedIsRunning

LEMMA InitEstablishes == Init => IInv
<1> SUFFICES ASSUME Init PROVE IInv
  OBVIOUS
<1>1. TypeOK
  <2>1. job \in EnrichmentJob
    BY DEF Init, NoJob, EnrichmentJob
  <2>2. run \in [Executors -> Run]
    BY FreeRunType DEF Init
  <2>3. asker \in Asker
    BY DEF Init, Asker
  <2>4. /\ sent \in Nat /\ messages \subseteq 1..sent
        /\ overrun \in BOOLEAN /\ shared \in BOOLEAN
    BY DEF Init
  <2>5. faults \in 0..MaxFaults
    BY JobConstants DEF Init
  <2> QED BY <2>1, <2>2, <2>3, <2>4, <2>5 DEF TypeOK
<1>2. \A x \in Executors : run[x].pc # "calling"
  BY DEF Init, FreeRun
<1>3. IdsGiven /\ LeaseOfCaller /\ Alone
  BY <1>2 DEF IdsGiven, LeaseOfCaller, Alone, Calling, Executors
<1>4. LeasedIsRunning
  BY DEF Init, NoJob, LeasedIsRunning
<1> QED BY <1>1, <1>3, <1>4 DEF IInv

\* Who may claim the job finds nobody calling, unless it is a request that finds
\* another.
LEMMA ClaimedAlone ==
  ASSUME IInv, ~ Unleased, NEW x \in Executors, NEW id \in Nat, Executable(id),
         IF x \in WebRequests
         THEN id = ApiWorker /\ \A y \in WebRequests : run[y].pc # "calling"
         ELSE id \in messages
  PROVE  Calling = {}
<1> SUFFICES ASSUME NEW y \in Calling PROVE FALSE
  OBVIOUS
<1>1. job.status = "RUNNING" /\ job.lease = "live" /\ job.lease_owner = run[y].id
  BY DEF IInv, LeaseOfCaller
<1>2. id = run[y].id
  BY <1>1 DEF Executable, LeasedToOther
<1>3. CASE y \in WebRequests
  <2>1. run[y].id = 0 /\ x \notin WebRequests
    BY <1>3 DEF IInv, LeaseOfCaller, Calling, ApiWorker
  <2> QED BY <1>2, <2>1 DEF IInv, TypeOK
<1>4. CASE y \notin WebRequests
  <2>1. run[y].id \in 1..sent /\ run[y].id \notin messages
    BY <1>4 DEF IInv, LeaseOfCaller, Calling, IdsGiven, Executors
  <2> QED BY <1>2, <2>1 DEF ApiWorker
<1> QED BY <1>3, <1>4

\* After a claim, the one caller is the one that claimed.
LEMMA ClaimLeases ==
  ASSUME IInv, NEW x \in Executors, NEW id \in Nat, Calling = {},
         Claim(x, id), IF x \in WebRequests THEN id = ApiWorker ELSE id \notin messages'
  PROVE  LeaseOfCaller' /\ Alone'
<1>1. Calling' = {x}
  BY DEF IInv, TypeOK, Claim, Calling, Run
<1>2. run'[x].id = id
  BY DEF IInv, TypeOK, Claim
<1>3. job'.status = "RUNNING" /\ job'.lease = "live" /\ job'.lease_owner = id
  BY DEF IInv, TypeOK, EnrichmentJob, Claim
<1> QED BY <1>1, <1>2, <1>3 DEF LeaseOfCaller, Alone

\* An executor that stops calling leaves nobody calling.
LEMMA FreedAlone ==
  ASSUME IInv, ~ Unleased, NEW x \in Executors, run[x].pc = "calling",
         run' = [run EXCEPT ![x] = FreeRun]
  PROVE  LeaseOfCaller' /\ Alone'
<1>1. Calling' = {}
  BY DEF IInv, TypeOK, Alone, Calling, FreeRun
<1> QED BY <1>1 DEF LeaseOfCaller, Alone

\* What touches neither the lease nor the callers, and brings no message of a
\* caller back, changes nothing.
LEMMA CallersKept ==
  ASSUME IInv, ~ Unleased, UNCHANGED job, Calling' \subseteq Calling,
         \A x \in Calling' : run'[x] = run[x],
         \A x \in Calling' : run[x].id \in messages' => run[x].id \in messages
  PROVE  LeaseOfCaller' /\ Alone'
BY DEF IInv, LeaseOfCaller, Alone

\* Every operation keeps the lease with the one caller.
LEMMA LeaseStep ==
  ASSUME IInv, ~ Unleased, ~ Unleased', [Next]_vars PROVE LeaseOfCaller' /\ Alone'
<1> DEFINE Goal == LeaseOfCaller' /\ Alone'
<1>0. TypeOK /\ IdsGiven /\ LeaseOfCaller /\ Alone
  BY DEF IInv
<1>1. CASE UNCHANGED vars
  BY <1>1, CallersKept DEF vars, Calling
<1>2. ASSUME NEW w \in Workers, NEW id \in messages,
             process_enrichment_job_task(w, id)
      PROVE  Goal
  <2>1. /\ w \in Executors /\ w \notin WebRequests /\ id \in Nat
        /\ run[w].pc # "calling" /\ id \notin messages'
    BY <1>0, <1>2, JobConstants DEF process_enrichment_job_task, Executors, TypeOK
  <2>2. CASE Executable(id)
    <3>1. Calling = {}
      BY <2>1, <2>2, ClaimedAlone
    <3> QED BY <1>2, <2>1, <2>2, <3>1, ClaimLeases DEF process_enrichment_job_task
  <2>3. CASE ~ Executable(id)
    BY <1>2, <2>3, CallersKept DEF process_enrichment_job_task, Calling
  <2> QED BY <2>2, <2>3
<1>3. ASSUME NEW w \in Workers, WorkerLost(w) PROVE Goal
  BY <1>3, FreedAlone DEF WorkerLost, Executors
<1>4. ASSUME NEW x \in Executors, Finish(x) \/ Raise(x) PROVE Goal
  BY <1>4, FreedAlone DEF Finish, Raise
<1>5. ASSUME NEW id \in messages, MessageLost(id) PROVE Goal
  BY <1>5, CallersKept DEF MessageLost, Calling
<1>6. ASSUME Calling = {}, UNCHANGED run PROVE Goal
  BY <1>6 DEF LeaseOfCaller, Alone, Calling
<1>7. CASE LeaseExpires
  BY <1>6, <1>7 DEF LeaseExpires, Calling, Unleased
<1>8. CASE recover_stalled_enrichment_jobs
  <2>1. Calling = {}
    BY <1>0, <1>8 DEF recover_stalled_enrichment_jobs, LeaseOfCaller
  <2> QED BY <1>6, <1>8, <2>1 DEF recover_stalled_enrichment_jobs
<1>9. CASE submitIndividual
  <2>1. Calling = {}
    BY <1>0, <1>9, JobConstants DEF submitIndividual, LeaseOfCaller
  <2> QED BY <1>6, <1>9, <2>1 DEF submitIndividual
<1>10. CASE Ask \/ AnswerLost
  BY <1>10, CallersKept DEF Ask, AnswerLost, Calling
<1>11. ASSUME NEW x \in WebRequests, EnrichmentJobDetailView(x) \/ OtherAsks(x)
       PROVE  Goal
  <2>1. Calling' \subseteq Calling /\ \A y \in Calling' : run'[y] = run[y]
    BY <1>0, <1>11
       DEF EnrichmentJobDetailView, OtherAsks, Calling, TypeOK, Run, Executors
  <2> QED BY <1>11, <2>1, CallersKept DEF EnrichmentJobDetailView, OtherAsks
<1>12. ASSUME NEW x \in WebRequests, WebClaims(x) PROVE Goal
  <2>1. x \in Executors /\ ApiWorker \in Nat
    BY DEF Executors, ApiWorker
  <2>2. CASE Executable(ApiWorker)
    <3>1. \A y \in WebRequests : run[y].pc # "calling"
      BY <1>12, <2>2 DEF WebClaims, Unleased
    <3>2. Calling = {}
      BY <2>1, <2>2, <3>1, ClaimedAlone
    <3> QED BY <1>12, <2>1, <2>2, <3>2, ClaimLeases DEF WebClaims
  <2>3. CASE ~ Executable(ApiWorker)
    <3>1. run' = [run EXCEPT ![x] = FreeRun] /\ UNCHANGED <<job, messages>>
      BY <1>12, <2>3 DEF WebClaims
    <3>2. Calling' \subseteq Calling /\ \A y \in Calling' : run'[y] = run[y]
      BY <1>0, <3>1 DEF Calling, TypeOK, FreeRun
    <3> QED BY <3>1, <3>2, CallersKept
  <2> QED BY <2>2, <2>3
<1>13. ASSUME NEW x \in WebRequests, RequestDies(x) PROVE Goal
  <2>1. Calling' \subseteq Calling /\ \A y \in Calling' : run'[y] = run[y]
    BY <1>0, <1>13 DEF RequestDies, Calling, TypeOK, FreeRun
  <2> QED BY <1>13, <2>1, CallersKept DEF RequestDies
<1> QED
  BY <1>1, <1>2, <1>3, <1>4, <1>5, <1>7, <1>8, <1>9, <1>10, <1>11, <1>12, <1>13
     DEF Next, WorkerStep, Execution, WebStep

\* Only a RUNNING job has a lease: what leaves RUNNING releases it.
LEMMA LeasedStep == ASSUME IInv, [Next]_vars PROVE LeasedIsRunning'
<1>1. job \in EnrichmentJob /\ LeasedIsRunning
  BY DEF IInv, TypeOK
<1>2. ASSUME NEW status, job' = Released(status) PROVE LeasedIsRunning'
  BY <1>1, <1>2 DEF Released, EnrichmentJob, LeasedIsRunning
<1>3. ASSUME NEW x, NEW id, Claim(x, id) PROVE LeasedIsRunning'
  BY <1>1, <1>3 DEF Claim, EnrichmentJob, LeasedIsRunning
<1>4. CASE UNCHANGED job
  BY <1>1, <1>4 DEF LeasedIsRunning
<1>5. CASE LeaseExpires
  BY <1>1, <1>5 DEF LeaseExpires, EnrichmentJob, LeasedIsRunning
<1>6. CASE submitIndividual
  BY <1>1, <1>6, JobConstants DEF submitIndividual, EnrichmentJob, LeasedIsRunning
<1>7. ASSUME NEW x \in WebRequests, WebStep(x) \/ RequestDies(x) PROVE LeasedIsRunning'
  BY <1>3, <1>4, <1>7
     DEF WebStep, EnrichmentJobDetailView, OtherAsks, WebClaims, RequestDies
<1>8. ASSUME NEW x \in Executors, Execution(x) PROVE LeasedIsRunning'
  BY <1>2, <1>8 DEF Execution, Finish, Raise
<1>9. ASSUME NEW w \in Workers, WorkerStep(w) \/ WorkerLost(w) PROVE LeasedIsRunning'
  BY <1>3, <1>4, <1>9 DEF WorkerStep, process_enrichment_job_task, WorkerLost
<1>10. CASE recover_stalled_enrichment_jobs
  BY <1>2, <1>10 DEF recover_stalled_enrichment_jobs
<1> QED
  BY <1>4, <1>5, <1>6, <1>7, <1>8, <1>9, <1>10
     DEF Next, vars, MessageLost, Ask, AnswerLost

\* What has happened stays so.
LEMMA UnleasedStays == ASSUME [Next]_vars, Unleased PROVE Unleased'
<1>1. ASSUME NEW x \in WebRequests, WebClaims(x) PROVE Unleased'
  BY <1>1 DEF WebClaims, Unleased
<1>2. ASSUME NEW x \in Executors, Execution(x) PROVE Unleased'
  BY <1>2 DEF Execution, Finish, Raise, Unleased
<1>3. ASSUME NEW w \in Workers, WorkerStep(w) \/ WorkerLost(w) PROVE Unleased'
  BY <1>3 DEF WorkerStep, process_enrichment_job_task, WorkerLost, Unleased
<1>4. CASE LeaseExpires
  BY <1>4 DEF LeaseExpires, Unleased
<1> QED
  BY <1>1, <1>2, <1>3, <1>4
     DEF Unleased, Next, vars, MessageLost, recover_stalled_enrichment_jobs,
         submitIndividual, Ask, AnswerLost, WebStep, EnrichmentJobDetailView,
         OtherAsks, RequestDies

LEMMA NextStep == IInv /\ [Next]_vars => IInv'
<1> SUFFICES ASSUME IInv, [Next]_vars PROVE IInv'
  OBVIOUS
<1>1. TypeOK' /\ IdsGiven' /\ LeasedIsRunning'
  BY TypeStep, IdsStep, LeasedStep DEF IInv
<1>2. ~ Unleased' => LeaseOfCaller' /\ Alone'
  BY UnleasedStays, LeaseStep
<1> QED BY <1>1, <1>2 DEF IInv

LEMMA Inductive == Spec => []IInv
BY InitEstablishes, NextStep, PTL DEF Spec

-------------------------------------------------------------------------------
(* Theorems *)

\* Jobs, messages and executors are well typed in every reachable state.
THEOREM TypeCorrect == Spec => []TypeOK
<1>1. IInv => TypeOK
  BY DEF IInv
<1> QED BY <1>1, Inductive, PTL

\* However tasks, retries, redeliveries, recoveries and requests interleave, the
\* providers are called for the job by one executor at a time, provided that no
\* execution outlives its lease and no request executes the job beside another:
\* nothing but these two lets a second caller in.
THEOREM CallersAreAlone == Spec => []OneCallerAtATime
<1>1. IInv => OneCallerAtATime
  BY DEF IInv, OneCallerAtATime, Alone
<1> QED BY <1>1, Inductive, PTL

\* No late claim, answer, failure or recovery changes a job that has ended, under
\* the same two provisions.
THEOREM EndIsFinal == Spec => EndedStaysEnded
<1>1. ASSUME IInv, [Next]_vars, ~ Unleased, job.status \in FINAL_JOB_STATUSES
      PROVE  job' = job
  <2>1. /\ job.status # "RUNNING" /\ job.status # "QUEUED" /\ job.status # None
        /\ job.lease = "none"
    BY <1>1, JobConstants
       DEF IInv, TypeOK, EnrichmentJob, LeasedIsRunning, FINAL_JOB_STATUSES
  <2>2. \A x \in Executors : run[x].pc # "calling"
    BY <1>1, <2>1 DEF IInv, LeaseOfCaller, Calling
  <2>3. \A id : ~ Executable(id)
    BY <1>1 DEF Executable
  <2> QED
    BY <1>1, <2>1, <2>2, <2>3
       DEF Next, vars, WorkerStep, process_enrichment_job_task, WorkerLost, Execution,
           Finish, Raise, MessageLost, LeaseExpires, recover_stalled_enrichment_jobs,
           submitIndividual, Ask, AnswerLost, WebStep, EnrichmentJobDetailView,
           OtherAsks, WebClaims, RequestDies, Executors
<1>2. IInv /\ [Next]_vars
        => [~ Unleased /\ job.status \in FINAL_JOB_STATUSES => job' = job]_vars
  BY <1>1
<1> QED BY <1>2, Inductive, PTL DEF Spec, EndedStaysEnded

-------------------------------------------------------------------------------
(* A job nobody waits for is carried on. *)

\* A job that runs has a lease, whose end the recovery will see.
RunningIsLeased == job.status = "RUNNING" => job.lease # "none"

LEMMA RunningStep == ASSUME IInv, RunningIsLeased, [Next]_vars PROVE RunningIsLeased'
<1>1. job \in EnrichmentJob
  BY DEF IInv, TypeOK
<1>2. ASSUME NEW status \in {"QUEUED"} \cup FINAL_JOB_STATUSES, job' = Released(status)
      PROVE  RunningIsLeased'
  BY <1>1, <1>2 DEF Released, EnrichmentJob, RunningIsLeased, FINAL_JOB_STATUSES
<1>3. ASSUME NEW x, NEW id, Claim(x, id) PROVE RunningIsLeased'
  BY <1>1, <1>3 DEF Claim, EnrichmentJob, RunningIsLeased
<1>4. CASE UNCHANGED job
  BY <1>4 DEF RunningIsLeased
<1>5. CASE LeaseExpires
  BY <1>1, <1>5 DEF LeaseExpires, EnrichmentJob, RunningIsLeased
<1>6. CASE submitIndividual
  BY <1>1, <1>6 DEF submitIndividual, EnrichmentJob, RunningIsLeased
<1>7. ASSUME NEW x \in Executors, Execution(x) PROVE RunningIsLeased'
  <2>1. AfterFailure(x) \in {"QUEUED"} \cup FINAL_JOB_STATUSES
    BY DEF AfterFailure, FINAL_JOB_STATUSES
  <2> QED BY <1>2, <1>7, <2>1 DEF Execution, Finish, Raise, FINAL_JOB_STATUSES
<1>8. CASE recover_stalled_enrichment_jobs
  BY <1>2, <1>8 DEF recover_stalled_enrichment_jobs
<1> QED
  BY <1>3, <1>4, <1>5, <1>6, <1>7, <1>8
     DEF Next, vars, WorkerStep, process_enrichment_job_task, WorkerLost, MessageLost,
         Ask, AnswerLost, WebStep, EnrichmentJobDetailView, OtherAsks, WebClaims,
         RequestDies

LEMMA RunningAlways == Spec => []RunningIsLeased
<1>1. Init => RunningIsLeased
  BY JobConstants DEF Init, NoJob, RunningIsLeased
<1>2. IInv /\ RunningIsLeased /\ [Next]_vars => RunningIsLeased'
  BY RunningStep
<1> QED BY <1>1, <1>2, Inductive, PTL DEF Spec

\* A task is taken only by who executes the job, or finds it executed by another;
\* who fails puts the task back, and the recovery sends another.
LEMMA CarriedOn ==
  ASSUME IInv, Unwatched, IsAtHand, job.status \notin FINAL_JOB_STATUSES, [Next]_vars
  PROVE  Unwatched' /\ (IsAtHand' \/ job'.status \in FINAL_JOB_STATUSES)
<1>0. /\ job \in EnrichmentJob /\ run \in [Executors -> Run]
      /\ WebRequests \subseteq Executors /\ ~ Fault
  BY JobConstants DEF IInv, TypeOK, Executors, Fault, Unwatched
<1>1. CASE UNCHANGED vars
  BY <1>1 DEF vars, Unwatched, IsAtHand
<1>2. ASSUME NEW w \in Workers, NEW id \in messages, process_enrichment_job_task(w, id)
      PROVE  Unwatched' /\ IsAtHand'
  <2>1. w \notin WebRequests
    BY JobConstants
  <2>2. Unwatched'
    BY <1>0, <1>2, <2>1 DEF process_enrichment_job_task, Claim, Unwatched
  <2>3. job'.status = "RUNNING"
    <3>1. CASE Executable(id)
      <4>1. Claim(w, id)
        BY <1>2, <3>1 DEF process_enrichment_job_task
      <4> QED BY <1>0, <4>1 DEF Claim, EnrichmentJob
    <3>2. CASE ~ Executable(id)
      <4>1. LeasedToOther(id) /\ UNCHANGED job
        BY <1>2, <3>2 DEF process_enrichment_job_task, Executable
      <4> QED BY <4>1 DEF LeasedToOther
    <3> QED BY <3>1, <3>2
  <2> QED BY <2>2, <2>3 DEF IsAtHand
<1>3. ASSUME NEW x \in Executors, Execution(x)
      PROVE  Unwatched' /\ (IsAtHand' \/ job'.status \in FINAL_JOB_STATUSES)
  <2>1. x \in Workers /\ x \notin WebRequests
    BY <1>3, JobConstants DEF Execution, Finish, Raise, Unwatched, Executors
  <2>2. Unwatched'
    <3>1. asker.by # x
      BY <2>1, JobConstants DEF IInv, TypeOK, Asker
    <3> QED BY <1>0, <1>3, <2>1, <3>1 DEF Execution, Finish, Raise, Answers, Unwatched
  <2>3. CASE Finish(x)
    <3>1. job'.status \in FINAL_JOB_STATUSES
      BY <1>0, <2>3 DEF Finish, Released, EnrichmentJob, FINAL_JOB_STATUSES
    <3> QED BY <2>2, <3>1
  <2>4. CASE Raise(x)
    <3>1. CASE AfterFailure(x) = "FAILED"
      BY <1>0, <2>2, <2>4, <3>1 DEF Raise, Released, EnrichmentJob, FINAL_JOB_STATUSES
    <3>2. CASE AfterFailure(x) # "FAILED"
      BY <2>1, <2>2, <2>4, <3>2 DEF Raise, IsAtHand
    <3> QED BY <3>1, <3>2
  <2> QED BY <1>3, <2>2, <2>3, <2>4 DEF Execution
<1>4. CASE LeaseExpires
  BY <1>0, <1>4 DEF LeaseExpires, EnrichmentJob, Unwatched, IsAtHand
<1>5. CASE recover_stalled_enrichment_jobs
  BY <1>5 DEF recover_stalled_enrichment_jobs, Delay, Unwatched, IsAtHand
<1>6. /\ ~ submitIndividual /\ ~ Ask /\ ~ AnswerLost
      /\ \A x \in WebRequests : ~ WebStep(x) /\ ~ RequestDies(x)
  BY <1>0 DEF submitIndividual, Ask, AnswerLost, WebStep, EnrichmentJobDetailView,
              OtherAsks, WebClaims, RequestDies, Unwatched
<1>7. ASSUME NEW w \in Workers PROVE ~ WorkerLost(w)
  BY <1>0 DEF WorkerLost
<1>8. ASSUME NEW id \in messages PROVE ~ MessageLost(id)
  BY <1>0 DEF MessageLost
<1> QED BY <1>1, <1>2, <1>3, <1>4, <1>5, <1>6, <1>7, <1>8 DEF Next, WorkerStep

\* Once nobody asks for it and nothing more fails, a job that has a task or an
\* execution has one until it ends (execute_enrichment_job, its retries and
\* recover_stalled_enrichment_jobs), and an execution always has a lease for the
\* recovery to find: no step leaves the job with nobody to carry it on.
THEOREM JobsAreCarriedOn ==
  Spec => /\ []RunningIsLeased
          /\ [][Unwatched /\ IsAtHand /\ job.status \notin FINAL_JOB_STATUSES
                  => Unwatched' /\ (IsAtHand' \/ job'.status \in FINAL_JOB_STATUSES)]_vars
<1>1. IInv /\ [Next]_vars
        => [Unwatched /\ IsAtHand /\ job.status \notin FINAL_JOB_STATUSES
              => Unwatched' /\ (IsAtHand' \/ job'.status \in FINAL_JOB_STATUSES)]_vars
  BY CarriedOn
<1> QED BY <1>1, RunningAlways, Inductive, PTL DEF Spec

-------------------------------------------------------------------------------
(* Calls: ProviderExecutor.                                                *)

ActorsOf(c) == {a \in DOMAIN actors : actors[a].call = c}

\* A call that keeps others for the same blocks from being started.
Open(c) == Requested(c) \/ Uncertain(c) \/ Completed(c)

OneOpen ==
    \A c, d \in DOMAIN calls :
      c # d /\ calls[c].blocks = calls[d].blocks => ~ (Open(c) /\ Open(d))

\* What a call says of the runs started for it.
CallKnows(c) ==
    /\ calls[c].provider_state = "empty" => ActorsOf(c) = {}
    /\ calls[c].provider_state = "run" =>
         calls[c].run_id \in DOMAIN actors /\ ActorsOf(c) = {calls[c].run_id}
    /\ ~ Requested(c) /\ ~ Uncertain(c) /\ ~ Cut(c) =>
         calls[c].provider_state # "SUBMITTING" /\ \A a \in ActorsOf(c) : actors[a].over

Starting(x) == exec[x].pc \in {"post", "answered"}

\* What an execution knows of its call: only one ever posts for it.
ExecutionKnows(x) ==
    LET c == exec[x].call IN
    /\ exec[x].pc \in {"enrich", "save", "post"} => exec[x].answer = 0
    /\ At(x, "save") /\ MayWrite(x) => calls[c].provider_state = "empty"
    /\ Starting(x) =>
         /\ calls[c].provider_state = "SUBMITTING"
         /\ \A y \in Executors : Starting(y) /\ exec[y].call = c => y = x
    /\ At(x, "post") => ActorsOf(c) = {}
    /\ At(x, "answered") /\ exec[x].answer # 0 =>
         exec[x].answer \in DOMAIN actors /\ ActorsOf(c) = {exec[x].answer}
    /\ exec[x].pc \in {"poll", "result"} => calls[c].provider_state = "run"
    /\ At(x, "result") => \A a \in ActorsOf(c) : actors[a].over
    /\ At(x, "failed") /\ MayWrite(x) =>
         calls[c].provider_state # "SUBMITTING" /\ \A a \in ActorsOf(c) : actors[a].over

ExecInv ==
    /\ ExecTypeOK /\ OneOpen
    /\ \A c \in DOMAIN calls : CallKnows(c)
    /\ \A x \in Executors : ExecutionKnows(x)

-------------------------------------------------------------------------------
(* The job inside *)

\* Each step of the composition is a step of the job, or leaves it alone.
LEMMA JobStepOrStutter == [ExecNext]_execVars => [Next]_vars
<1> SUFFICES ASSUME [ExecNext]_execVars PROVE [Next]_vars
  OBVIOUS
<1>1. CASE UNCHANGED execVars
  BY <1>1 DEF execVars, vars
<1>2. CASE JobStep
  BY <1>2 DEF JobStep, Returns, Next, Execution
<1>3. CASE Time
  BY <1>3 DEF Time, CallIsDue, ActorEnds, InsideJob
<1>4. ASSUME NEW x \in Executors, CallStep(x) PROVE UNCHANGED vars
  BY <1>4 DEF CallStep, run_enrichment_cascade, enrich, SaveSubmitting, PostRun,
              SaveRun, _advance, Finalize, Fails, InsideJob
<1>5. ASSUME NEW x \in Executors, Interrupted(x) PROVE UNCHANGED vars
  BY <1>5 DEF Interrupted, InsideJob
<1> QED BY <1>1, <1>2, <1>3, <1>4, <1>5 DEF ExecNext

\* The job keeps what EnrichmentJobs promises whatever its executions do at the
\* providers: the calls inside an execution are steps of that execution.
THEOREM ImplementsJobs == ExecSpec => Spec
<1>1. ExecInit => Init
  BY DEF ExecInit
<1> QED BY <1>1, JobStepOrStutter, PTL DEF ExecSpec, Spec

-------------------------------------------------------------------------------
(* Steps *)

\* Writing a call changes that row.
LEMMA CallWritten ==
  ASSUME calls \in Seq(ProviderCall), NEW c \in DOMAIN calls,
         NEW r \in ProviderCall, calls' = [calls EXCEPT ![c] = r]
  PROVE  /\ calls' \in Seq(ProviderCall) /\ DOMAIN calls' = DOMAIN calls
         /\ calls'[c] = r
         /\ \A d \in DOMAIN calls : d # c => calls'[d] = calls[d]
<1>1. c \in 1..Len(calls) /\ DOMAIN calls = 1..Len(calls)
  BY LenProperties
<1>2. /\ calls' \in Seq(ProviderCall) /\ Len(calls') = Len(calls)
      /\ \A d \in 1..Len(calls) : calls'[d] = IF d = c THEN r ELSE calls[d]
  BY <1>1, ExceptSeq
<1>3. DOMAIN calls' = 1..Len(calls')
  BY <1>2, LenProperties
<1> QED BY <1>1, <1>2, <1>3

\* A new call comes after those there are.
LEMMA CallAdded ==
  ASSUME calls \in Seq(ProviderCall), NEW r \in ProviderCall, calls' = Append(calls, r)
  PROVE  /\ calls' \in Seq(ProviderCall)
         /\ Len(calls) + 1 \notin DOMAIN calls
         /\ Len(calls) + 1 \in Nat
         /\ DOMAIN calls' = DOMAIN calls \cup {Len(calls) + 1}
         /\ calls'[Len(calls) + 1] = r
         /\ \A d \in DOMAIN calls : calls'[d] = calls[d]
<1>1. Len(calls) \in Nat /\ DOMAIN calls = 1..Len(calls)
  BY LenProperties
<1>2. /\ calls' \in Seq(ProviderCall) /\ Len(calls') = Len(calls) + 1
      /\ \A d \in 1..Len(calls) : calls'[d] = calls[d]
      /\ calls'[Len(calls) + 1] = r
  BY AppendProperties
<1>3. DOMAIN calls' = 1..Len(calls')
  BY <1>2, LenProperties
<1> QED BY <1>1, <1>2, <1>3

\* So does a run that is started.
LEMMA ActorAdded ==
  ASSUME actors \in Seq(Actor), NEW r \in Actor, actors' = Append(actors, r)
  PROVE  /\ actors' \in Seq(Actor)
         /\ Len(actors') = Len(actors) + 1
         /\ Len(actors) + 1 \in Nat \ {0}
         /\ Len(actors) + 1 \notin DOMAIN actors
         /\ DOMAIN actors' = DOMAIN actors \cup {Len(actors) + 1}
         /\ actors'[Len(actors) + 1] = r
         /\ \A a \in DOMAIN actors : actors'[a] = actors[a]
<1>1. Len(actors) \in Nat /\ DOMAIN actors = 1..Len(actors)
  BY LenProperties
<1>2. /\ actors' \in Seq(Actor) /\ Len(actors') = Len(actors) + 1
      /\ \A d \in 1..Len(actors) : actors'[d] = actors[d]
      /\ actors'[Len(actors) + 1] = r
  BY AppendProperties
<1>3. DOMAIN actors' = 1..Len(actors')
  BY <1>2, LenProperties
<1> QED BY <1>1, <1>2, <1>3

\* A run that ends stays where it is.
LEMMA ActorOver ==
  ASSUME actors \in Seq(Actor), NEW a \in DOMAIN actors,
         actors' = [actors EXCEPT ![a].over = TRUE]
  PROVE  /\ actors' \in Seq(Actor) /\ DOMAIN actors' = DOMAIN actors
         /\ Len(actors') = Len(actors)
         /\ \A b \in DOMAIN actors :
              /\ actors'[b].call = actors[b].call
              /\ actors[b].over => actors'[b].over
<1> DEFINE r == [actors[a] EXCEPT !.over = TRUE]
<1>1. a \in 1..Len(actors) /\ DOMAIN actors = 1..Len(actors)
  BY LenProperties
<1>2. actors[a] \in Actor
  BY <1>1, ElementOfSeq
<1>3. r \in Actor /\ r.call = actors[a].call /\ r.over
  BY <1>2 DEF Actor
<1>4. actors' = [actors EXCEPT ![a] = r]
  OBVIOUS
<1>5. /\ actors' \in Seq(Actor) /\ Len(actors') = Len(actors)
      /\ \A b \in 1..Len(actors) : actors'[b] = IF b = a THEN r ELSE actors[b]
  BY <1>1, <1>3, <1>4, ExceptSeq
<1>6. DOMAIN actors' = 1..Len(actors')
  BY <1>5, LenProperties
<1> QED BY <1>1, <1>3, <1>5, <1>6

\* Where an execution gets to.
LEMMA GoesTo ==
  ASSUME exec \in [Executors -> Exec], NEW x \in Executors,
         NEW pc \in Trying \cup Failing \cup {"out", "done", "raise"}, GoTo(x, pc)
  PROVE  /\ exec' \in [Executors -> Exec]
         /\ exec'[x].pc = pc
         /\ pc \notin {"done", "raise"} =>
              exec'[x].call = exec[x].call /\ exec'[x].answer = exec[x].answer
         /\ \A y \in Executors : y # x => exec'[y] = exec[y]
<1> DEFINE new == IF pc \in {"done", "raise"} THEN [Idle EXCEPT !.pc = pc]
                  ELSE [exec[x] EXCEPT !.pc = pc]
<1>1. /\ new \in Exec /\ new.pc = pc
      /\ pc \notin {"done", "raise"} =>
           new.call = exec[x].call /\ new.answer = exec[x].answer
  BY DEF Exec, Idle
<1>2. exec' = [exec EXCEPT ![x] = new]
  BY DEF GoTo
<1> QED BY <1>1, <1>2

-------------------------------------------------------------------------------
(* What keeps the invariant *)

\* Where an execution has nothing to know.
Careless == {"out", "uncertain", "cut", "done", "raise"}

\* The same for the executions that a step leaves alone, as far as typing goes.
StillCalling ==
    \A y \in Executors :
      exec[y].pc \in Trying \cup Failing =>
        run[y].pc = "calling" /\ exec[y].call \in DOMAIN calls

LEMMA CarelessKnows ==
  ASSUME NEW x \in Executors, exec[x].pc \in Careless PROVE ExecutionKnows(x)
BY DEF ExecutionKnows, Careless, Starting, At

\* An execution that goes on without writing, and not to where it posts.
LEMMA MoveKeeps ==
  ASSUME ExecInv, NEW x \in Executors, UNCHANGED <<calls, actors>>,
         exec' \in [Executors -> Exec],
         \A y \in Executors : y # x => exec'[y] = exec[y],
         StillCalling',
         Starting(x)' => Starting(x) /\ exec'[x].call = exec[x].call,
         ExecutionKnows(x)'
  PROVE  ExecInv'
<1>1. ExecTypeOK'
  BY DEF ExecInv, ExecTypeOK, StillCalling
<1>2. OneOpen' /\ \A c \in DOMAIN calls' : CallKnows(c)'
  BY DEF ExecInv, OneOpen, Open, CallKnows, ActorsOf, Requested, Uncertain, Completed, Cut
<1>3. ASSUME NEW y \in Executors, y # x PROVE ExecutionKnows(y)'
  <2>1. ExecutionKnows(y) /\ exec'[y] = exec[y]
    BY <1>3 DEF ExecInv
  <2>2. ASSUME NEW z \in Executors, Starting(z)'
        PROVE  Starting(z) /\ exec'[z].call = exec[z].call
    BY <2>2 DEF Starting
  <2> QED
    BY <2>1, <2>2 DEF ExecutionKnows, ActorsOf, Starting, At, MayWrite, Requested
<1> QED BY <1>1, <1>2, <1>3 DEF ExecInv

\* An execution that writes to its call: nobody else may, and what the others
\* know of the runs still holds.
LEMMA WriteKeeps ==
  ASSUME ExecInv, NEW x \in Executors, NEW c, c = exec[x].call, NEW r \in ProviderCall,
         exec[x].pc \in Trying \cup Failing, MayWrite(x), StillCalling',
         calls' = [calls EXCEPT ![c] = r], UNCHANGED actors,
         exec' \in [Executors -> Exec],
         \A y \in Executors : y # x => exec'[y] = exec[y],
         r.blocks = calls[c].blocks, r.execution_token = calls[c].execution_token,
         \/ r.provider_state = calls[c].provider_state
         \/ calls[c].provider_state = "empty"
         \/ Starting(x),
         Starting(x)' => /\ exec'[x].call = c
                         /\ Starting(x) \/ calls[c].provider_state = "empty",
         CallKnows(c)', ExecutionKnows(x)'
  PROVE  ExecInv'
<1>0. /\ calls' \in Seq(ProviderCall) /\ DOMAIN calls' = DOMAIN calls
      /\ calls'[c] = r
      /\ \A d \in DOMAIN calls : d # c => calls'[d] = calls[d]
      /\ c \in DOMAIN calls
  BY CallWritten DEF ExecInv, ExecTypeOK
<1>1. ExecTypeOK'
  BY <1>0 DEF ExecInv, ExecTypeOK, StillCalling
<1>2. OneOpen'
  <2>1. Open(c)
    BY DEF MayWrite, Open
  <2>2. \A d \in DOMAIN calls : calls'[d].blocks = calls[d].blocks /\ (Open(d)' => Open(d))
    BY <1>0, <2>1 DEF Open, Requested, Uncertain, Completed
  <2> QED BY <1>0, <2>2 DEF ExecInv, OneOpen
<1>3. ASSUME NEW d \in DOMAIN calls' PROVE CallKnows(d)'
  <2>1. CASE d # c
    <3>1. CallKnows(d) /\ calls'[d] = calls[d]
      BY <1>0, <1>3, <2>1 DEF ExecInv
    <3> QED BY <3>1 DEF CallKnows, ActorsOf, Requested, Uncertain, Cut
  <2> QED BY <2>1
<1>4. ASSUME NEW y \in Executors, y # x PROVE ExecutionKnows(y)'
  <2>1. ExecutionKnows(y) /\ ExecutionKnows(x) /\ exec'[y] = exec[y]
    BY <1>4 DEF ExecInv
  <2>2. CASE exec[y].pc \in Careless
    BY <2>1, <2>2, CarelessKnows DEF Careless, ExecutionKnows, Starting, At
  <2>3. CASE exec[y].pc \notin Careless /\ exec[y].call # c
    <3>1. calls'[exec[y].call] = calls[exec[y].call]
      BY <1>0, <2>3 DEF ExecInv, ExecTypeOK, Careless, Exec, Trying, Failing
    <3>2. ASSUME NEW z \in Executors, Starting(z)', exec'[z].call = exec[y].call
          PROVE  Starting(z) /\ exec[z].call = exec[y].call
      BY <2>3, <3>2 DEF Starting
    <3> QED
      BY <2>1, <3>1, <3>2 DEF ExecutionKnows, ActorsOf, Starting, At, MayWrite, Requested
  <2>4. CASE exec[y].call = c
    <3>1. ~ MayWrite(y) /\ ~ MayWrite(y)'
      BY <1>0, <1>4, <2>1, <2>4 DEF MayWrite, Requested
    <3>2. exec[y].pc \in {"post", "answered", "poll", "result"} =>
            calls'[c].provider_state = calls[c].provider_state
      BY <1>0, <1>4, <2>1, <2>4 DEF ExecutionKnows, Starting
    <3>3. ASSUME NEW z \in Executors, Starting(z)', exec'[z].call = c, Starting(y)
          PROVE  z = y
      BY <1>4, <2>1, <2>4, <3>3 DEF ExecutionKnows, Starting
    <3> QED
      BY <2>1, <2>4, <3>1, <3>2, <3>3 DEF ExecutionKnows, ActorsOf, Starting, At
  <2> QED BY <2>2, <2>3, <2>4
<1> QED BY <1>0, <1>1, <1>2, <1>3, <1>4 DEF ExecInv

\* A call of the table is well typed.
LEMMA CallType ==
  ASSUME ExecInv, NEW c \in DOMAIN calls PROVE calls[c] \in ProviderCall
BY LenProperties, ElementOfSeq DEF ExecInv, ExecTypeOK

\* Going on to where nothing need be known.
LEMMA CarelessKeeps ==
  ASSUME ExecInv, NEW x \in Executors, NEW pc \in Careless, GoTo(x, pc),
         UNCHANGED <<calls, actors, run>>,
         pc \in {"uncertain", "cut"} => exec[x].pc \in Trying \cup Failing
  PROVE  ExecInv'
<1>1. /\ exec' \in [Executors -> Exec] /\ exec'[x].pc = pc
      /\ pc \notin {"done", "raise"} => exec'[x].call = exec[x].call
      /\ \A y \in Executors : y # x => exec'[y] = exec[y]
  BY GoesTo DEF ExecInv, ExecTypeOK, Careless, Trying, Failing
<1>2. StillCalling'
  BY <1>1 DEF ExecInv, ExecTypeOK, StillCalling, Careless, Trying, Failing
<1>3. ~ Starting(x)' /\ ExecutionKnows(x)'
  BY <1>1 DEF Starting, Careless, ExecutionKnows, At
<1> QED BY <1>1, <1>2, <1>3, MoveKeeps

-------------------------------------------------------------------------------
(* The steps of a call *)

\* A call that is resumed has a new holder; the one before may not write any more.
LEMMA ResumeKeeps ==
  ASSUME ExecInv, NEW x \in Executors, run[x].pc = "calling",
         NEW c \in DOMAIN calls, Requested(c),
         calls' = [calls EXCEPT ![c] = Reserved(@, x)], Holding(x, c),
         UNCHANGED <<actors, run>>
  PROVE  ExecInv'
<1> DEFINE r == Reserved(calls[c], x)
<1>1. /\ r \in ProviderCall /\ r.execution_token = x
      /\ r.blocks = calls[c].blocks /\ r.status = calls[c].status
      /\ r.error_code = calls[c].error_code
      /\ r.provider_state = calls[c].provider_state /\ r.run_id = calls[c].run_id
  BY CallType DEF Reserved, ProviderCall
<1>2. /\ calls' \in Seq(ProviderCall) /\ DOMAIN calls' = DOMAIN calls
      /\ calls'[c] = r
      /\ \A d \in DOMAIN calls : d # c => calls'[d] = calls[d]
  BY <1>1, CallWritten DEF ExecInv, ExecTypeOK
<1>3. /\ exec' \in [Executors -> Exec]
      /\ exec'[x].pc = "enrich" /\ exec'[x].call = c /\ exec'[x].answer = 0
      /\ \A y \in Executors : y # x => exec'[y] = exec[y]
  <2>1. c \in Nat
    BY LenProperties DEF ExecInv, ExecTypeOK
  <2> QED BY <2>1 DEF ExecInv, ExecTypeOK, Holding, Exec, Trying
<1>4. ExecTypeOK'
  BY <1>2, <1>3 DEF ExecInv, ExecTypeOK
<1>5. OneOpen'
  <2>1. \A d \in DOMAIN calls : calls'[d].blocks = calls[d].blocks /\ (Open(d)' => Open(d))
    BY <1>1, <1>2 DEF Open, Requested, Uncertain, Completed
  <2> QED BY <1>2, <2>1 DEF ExecInv, OneOpen
<1>6. ASSUME NEW d \in DOMAIN calls' PROVE CallKnows(d)'
  <2>1. CallKnows(d)
    BY <1>2, <1>6 DEF ExecInv
  <2> QED BY <1>1, <1>2, <1>6, <2>1 DEF CallKnows, ActorsOf, Requested, Uncertain, Cut
<1>7. ASSUME NEW y \in Executors PROVE ExecutionKnows(y)'
  <2>1. CASE y = x
    BY <1>3, <2>1 DEF ExecutionKnows, Starting, At
  <2>2. CASE y # x /\ exec[y].pc \in Careless
    BY <1>3, <2>2 DEF Careless, ExecutionKnows, Starting, At
  <2>3. CASE y # x /\ exec[y].pc \notin Careless
    <3>1. exec[y].call \in DOMAIN calls /\ ExecutionKnows(y) /\ exec'[y] = exec[y]
      BY <1>3, <2>3 DEF ExecInv, ExecTypeOK, Careless, Exec, Trying, Failing
    <3>2. /\ calls'[exec[y].call].provider_state = calls[exec[y].call].provider_state
          /\ MayWrite(y)' => MayWrite(y)
      BY <1>1, <1>2, <2>3, <3>1 DEF MayWrite, Requested
    <3>3. ASSUME NEW z \in Executors, Starting(z)'
          PROVE  Starting(z) /\ exec'[z].call = exec[z].call
      BY <1>3, <3>3 DEF Starting
    <3> QED BY <3>1, <3>2, <3>3 DEF ExecutionKnows, ActorsOf, Starting, At
  <2> QED BY <2>1, <2>2, <2>3
<1> QED BY <1>4, <1>5, <1>6, <1>7 DEF ExecInv

\* A call is created beside none that is open.
LEMMA StartKeeps ==
  ASSUME ExecInv, NEW x \in Executors, run[x].pc = "calling", NEW blocks \in BlockSets,
         \A d \in CallsFor(blocks) : ~ Open(d),
         calls' = Append(calls, NewCall(blocks, x)), Holding(x, Len(calls) + 1),
         UNCHANGED <<actors, run>>
  PROVE  ExecInv'
<1> DEFINE c == Len(calls) + 1
           r == NewCall(blocks, x)
<1>1. /\ r \in ProviderCall /\ r.execution_token = x /\ r.blocks = blocks
      /\ r.status = "REQUESTED" /\ r.provider_state = "empty"
  BY DEF NewCall, ProviderCall
<1>2. /\ calls' \in Seq(ProviderCall)
      /\ c \notin DOMAIN calls /\ c \in Nat
      /\ DOMAIN calls' = DOMAIN calls \cup {c}
      /\ calls'[c] = r
      /\ \A d \in DOMAIN calls : calls'[d] = calls[d]
  BY <1>1, CallAdded DEF ExecInv, ExecTypeOK
<1> HIDE DEF c, r
<1>3. /\ exec' \in [Executors -> Exec]
      /\ exec'[x].pc = "enrich" /\ exec'[x].call = c /\ exec'[x].answer = 0
      /\ \A y \in Executors : y # x => exec'[y] = exec[y]
  BY <1>2 DEF ExecInv, ExecTypeOK, Holding, Exec, Trying, c
<1>4. ExecTypeOK'
  BY <1>2, <1>3 DEF ExecInv, ExecTypeOK
<1>5. OneOpen'
  <2>1. \A d \in DOMAIN calls :
          /\ calls'[d].blocks = calls[d].blocks /\ (Open(d)' => Open(d))
          /\ calls[d].blocks = blocks => ~ Open(d)
    BY <1>2 DEF Open, Requested, Uncertain, Completed, CallsFor
  <2> QED BY <1>1, <1>2, <2>1 DEF ExecInv, OneOpen
<1>6. ASSUME NEW d \in DOMAIN calls' PROVE CallKnows(d)'
  <2>1. CASE d = c
    <3>1. ActorsOf(d)' = {}
      BY <1>2, <2>1 DEF ExecInv, ExecTypeOK, ActorsOf
    <3>2. calls'[d] = r
      BY <1>2, <2>1
    <3> QED BY <1>1, <3>1, <3>2 DEF CallKnows, Requested
  <2>2. CASE d # c
    <3>1. CallKnows(d) /\ calls'[d] = calls[d]
      BY <1>2, <1>6, <2>2 DEF ExecInv
    <3> QED BY <3>1 DEF CallKnows, ActorsOf, Requested, Uncertain, Cut
  <2> QED BY <2>1, <2>2
<1>7. ASSUME NEW y \in Executors PROVE ExecutionKnows(y)'
  <2>1. CASE y = x
    BY <1>3, <2>1 DEF ExecutionKnows, Starting, At
  <2>2. CASE y # x /\ exec[y].pc \in Careless
    BY <1>3, <2>2 DEF Careless, ExecutionKnows, Starting, At
  <2>3. CASE y # x /\ exec[y].pc \notin Careless
    <3>1. exec[y].call \in DOMAIN calls /\ ExecutionKnows(y) /\ exec'[y] = exec[y]
      BY <1>3, <2>3 DEF ExecInv, ExecTypeOK, Careless, Exec, Trying, Failing
    <3>2. calls'[exec[y].call] = calls[exec[y].call]
      BY <1>2, <3>1
    <3>3. ASSUME NEW z \in Executors, Starting(z)'
          PROVE  Starting(z) /\ exec'[z].call = exec[z].call
      BY <1>3, <3>3 DEF Starting
    <3> QED
      BY <3>1, <3>2, <3>3 DEF ExecutionKnows, ActorsOf, Starting, At, MayWrite, Requested
  <2> QED BY <2>1, <2>2, <2>3
<1> QED BY <1>4, <1>5, <1>6, <1>7 DEF ExecInv

\* _reserve looks for all that is open, and the lock of the policy lets nobody
\* in between.
LEMMA ReserveKeeps ==
  ASSUME ExecInv, NEW x \in Executors, run_enrichment_cascade(x) PROVE ExecInv'
<1>1. run[x].pc = "calling" /\ UNCHANGED <<actors, run>>
  BY DEF run_enrichment_cascade, InsideJob, vars
<1>2. ASSUME NEW pc \in {"done", "raise"}, GoTo(x, pc), UNCHANGED calls PROVE ExecInv'
  BY <1>1, <1>2, CarelessKeeps DEF Careless
<1>3. ASSUME NEW blocks \in BlockSets, _reserve(x, blocks) PROVE ExecInv'
  <2>1. CASE Refused(blocks)
    BY <1>2, <1>3, <2>1 DEF _reserve
  <2>2. ASSUME ~ Refused(blocks), NEW c \in CallsFor(blocks), Requested(c), ResumeCall(x, c)
        PROVE  ExecInv'
    BY <1>1, <1>2, <2>2, ResumeKeeps DEF ResumeCall, CallsFor
  <2>3. ASSUME ~ Refused(blocks), \A c \in CallsFor(blocks) : ~ Requested(c),
               StartCall(x, blocks)
        PROVE  ExecInv'
    <3>1. \A d \in CallsFor(blocks) : ~ Open(d)
      BY <2>3 DEF Refused, Open
    <3> QED BY <1>1, <1>2, <2>3, <3>1, StartKeeps DEF StartCall
  <2> QED BY <1>3, <2>1, <2>2, <2>3 DEF _reserve
<1> QED BY <1>2, <1>3 DEF run_enrichment_cascade

\* The row an execution may write to.
LEMMA CallOf ==
  ASSUME ExecInv, NEW x \in Executors, exec[x].pc \in Trying \cup Failing
  PROVE  /\ exec[x].call \in DOMAIN calls
         /\ calls[exec[x].call] \in ProviderCall
         /\ CallKnows(exec[x].call) /\ ExecutionKnows(x)
BY CallType DEF ExecInv, ExecTypeOK

\* The adapter looks at what the call says.
LEMMA EnrichKeeps ==
  ASSUME ExecInv, NEW x \in Executors, enrich(x) PROVE ExecInv'
<1>1. ASSUME NEW pc \in {"save", "failed", "poll"}, GoTo(x, pc),
             calls[exec[x].call].provider_state = IF pc = "poll" THEN "run" ELSE "empty"
      PROVE  ExecInv'
  <2>1. UNCHANGED <<calls, actors, run>> /\ exec[x].pc = "enrich"
    BY DEF enrich, At, InsideJob, vars
  <2>2. /\ exec' \in [Executors -> Exec] /\ exec'[x].pc = pc
        /\ exec'[x].call = exec[x].call /\ exec'[x].answer = exec[x].answer
        /\ \A y \in Executors : y # x => exec'[y] = exec[y]
    BY <1>1, GoesTo DEF ExecInv, ExecTypeOK, Trying, Failing
  <2>3. StillCalling'
    BY <2>1, <2>2 DEF ExecInv, ExecTypeOK, StillCalling, Trying
  <2>4. /\ exec[x].answer = 0
        /\ calls[exec[x].call].provider_state = "empty" => ActorsOf(exec[x].call) = {}
    BY <2>1, CallOf DEF ExecutionKnows, CallKnows, Trying
  <2>5. ~ Starting(x)' /\ ExecutionKnows(x)'
    BY <1>1, <2>1, <2>2, <2>4 DEF ExecutionKnows, ActorsOf, Starting, At
  <2> QED BY <2>1, <2>2, <2>3, <2>5, MoveKeeps
<1>2. ASSUME GoTo(x, "uncertain") PROVE ExecInv'
  BY <1>2, CarelessKeeps DEF enrich, At, InsideJob, vars, Careless, Trying
<1> QED BY <1>1, <1>2 DEF enrich

\* What every write of an execution has to show of the row it writes and of where
\* the execution goes on.
LEMMA SavesKeeps ==
  ASSUME ExecInv, NEW x \in Executors, NEW c, c = exec[x].call, NEW r \in ProviderCall,
         NEW pc \in {"post", "uncertain", "poll", "result", "failed", "done", "raise"},
         exec[x].pc \in Trying \cup Failing, Saves(x, r, pc),
         UNCHANGED <<actors, run>>,
         r.blocks = calls[c].blocks, r.execution_token = calls[c].execution_token,
         \/ r.provider_state = calls[c].provider_state
         \/ calls[c].provider_state = "empty"
         \/ Starting(x),
         pc = "post" => calls[c].provider_state = "empty",
         /\ MayWrite(x) /\ calls'[c] = r
         /\ exec'[x].pc = pc
         /\ pc \notin {"done", "raise"} =>
              exec'[x].call = c /\ exec'[x].answer = exec[x].answer
         /\ \A y \in Executors : y # x => exec'[y] = exec[y]
         => CallKnows(c)' /\ ExecutionKnows(x)'
  PROVE  ExecInv'
<1>1. CASE ~ MayWrite(x)
  BY <1>1, CarelessKeeps DEF Saves, Careless
<1>2. CASE MayWrite(x)
  <2>1. calls' = [calls EXCEPT ![c] = r] /\ GoTo(x, pc)
    BY <1>2 DEF Saves
  <2>2. c \in DOMAIN calls /\ run[x].pc = "calling"
    BY DEF ExecInv, ExecTypeOK
  <2>3. DOMAIN calls' = DOMAIN calls /\ calls'[c] = r
    BY <2>1, <2>2, CallWritten DEF ExecInv, ExecTypeOK
  <2>4. /\ exec' \in [Executors -> Exec] /\ exec'[x].pc = pc
        /\ pc \notin {"done", "raise"} =>
             exec'[x].call = c /\ exec'[x].answer = exec[x].answer
        /\ \A y \in Executors : y # x => exec'[y] = exec[y]
    BY <2>1, GoesTo DEF ExecInv, ExecTypeOK, Trying, Failing
  <2>5. StillCalling'
    BY <2>2, <2>3, <2>4 DEF ExecInv, ExecTypeOK, StillCalling, Trying, Failing
  <2>6. Starting(x)' => exec'[x].call = c /\ calls[c].provider_state = "empty"
    BY <2>4 DEF Starting
  <2>7. CallKnows(c)' /\ ExecutionKnows(x)'
    BY <1>2, <2>3, <2>4
  <2> QED BY <1>2, <2>1, <2>4, <2>5, <2>6, <2>7, WriteKeeps
<1> QED BY <1>1, <1>2

\* Nothing has been started for the call of which SUBMITTING is saved, and nobody
\* else is about to.
LEMMA SaveSubmittingKeeps ==
  ASSUME ExecInv, NEW x \in Executors, SaveSubmitting(x) PROVE ExecInv'
<1>1. /\ exec[x].pc = "save" /\ UNCHANGED <<actors, run>>
      /\ exec[x].pc \in Trying \cup Failing
  BY DEF SaveSubmitting, At, InsideJob, vars, Trying
<1>2. PICK c : c = exec[x].call
  OBVIOUS
<1>3. PICK r : r = [calls[c] EXCEPT !.provider_state = "SUBMITTING"]
  OBVIOUS
<1>4. CASE ~ MayWrite(x)
  BY <1>1, <1>4, CarelessKeeps DEF SaveSubmitting, Saves, Careless
<1>5. CASE MayWrite(x)
  <2>1. /\ c \in DOMAIN calls /\ calls[c] \in ProviderCall /\ CallKnows(c)
        /\ ExecutionKnows(x) /\ calls[c].provider_state = "empty" /\ exec[x].answer = 0
        /\ calls[c].status = "REQUESTED"
    BY <1>1, <1>2, <1>5, CallOf DEF ExecutionKnows, At, MayWrite, Requested
  <2>2. /\ r \in ProviderCall /\ r.provider_state = "SUBMITTING"
        /\ r.blocks = calls[c].blocks /\ r.execution_token = calls[c].execution_token
        /\ r.status = "REQUESTED"
    BY <1>3, <2>1 DEF ProviderCall
  <2>3. ASSUME calls'[c] = r, exec'[x].pc = "post", exec'[x].call = c,
               exec'[x].answer = exec[x].answer,
               \A y \in Executors : y # x => exec'[y] = exec[y]
        PROVE  CallKnows(c)' /\ ExecutionKnows(x)'
    <3>1. CallKnows(c)'
      BY <2>2, <2>3 DEF CallKnows, Requested
    <3>2. ActorsOf(c)' = {}
      BY <1>1, <2>1 DEF CallKnows, ActorsOf
    <3>3. ASSUME NEW y \in Executors, y # x, Starting(y)', exec'[y].call = c PROVE FALSE
      BY <2>1, <2>3, <3>3 DEF ExecInv, ExecutionKnows, Starting
    <3> QED BY <2>1, <2>2, <2>3, <3>1, <3>2, <3>3 DEF ExecutionKnows, Starting, At
  <2> QED
    BY <1>1, <1>2, <1>3, <1>5, <2>1, <2>2, <2>3, SavesKeeps DEF SaveSubmitting
<1> QED BY <1>4, <1>5

\* One run is started for a call, by the one execution that posts for it.
LEMMA PostRunKeeps ==
  ASSUME ExecInv, NEW x \in Executors, PostRun(x) PROVE ExecInv'
<1>1. /\ exec[x].pc = "post" /\ UNCHANGED <<calls, run>>
      /\ exec[x].pc \in Trying \cup Failing
  BY DEF PostRun, At, InsideJob, vars, Trying
<1>2. PICK c : c = exec[x].call
  OBVIOUS
<1>3. /\ c \in DOMAIN calls /\ ActorsOf(c) = {} /\ exec[x].answer = 0
      /\ calls[c].provider_state = "SUBMITTING"
      /\ \A y \in Executors : Starting(y) /\ exec[y].call = c => y = x
      /\ CallKnows(c)
  BY <1>1, <1>2, CallOf DEF ExecutionKnows, At, Starting
<1>4. CASE GoTo(x, "answered") /\ UNCHANGED actors
  <2>1. /\ exec' \in [Executors -> Exec] /\ exec'[x].pc = "answered"
        /\ exec'[x].call = exec[x].call /\ exec'[x].answer = exec[x].answer
        /\ \A y \in Executors : y # x => exec'[y] = exec[y]
    BY <1>4, GoesTo DEF ExecInv, ExecTypeOK, Trying
  <2>2. StillCalling'
    BY <1>1, <2>1 DEF ExecInv, ExecTypeOK, StillCalling, Trying
  <2>3. ExecutionKnows(x)'
    BY <1>1, <1>2, <1>3, <2>1 DEF ExecutionKnows, Starting, At
  <2> QED BY <1>1, <1>4, <2>1, <2>2, <2>3, MoveKeeps DEF Starting
<1>5. ASSUME NEW n \in {0, Len(actors) + 1},
             actors' = Append(actors, [call |-> c, over |-> FALSE]),
             exec' = [exec EXCEPT ![x].pc = "answered", ![x].answer = n]
      PROVE  ExecInv'
  <2>1. c \in Nat \ {0}
    BY <1>3, LenProperties DEF ExecInv, ExecTypeOK
  <2>2. [call |-> c, over |-> FALSE] \in Actor
    BY <2>1 DEF Actor
  <2>3. PICK m : m = Len(actors) + 1
    OBVIOUS
  <2>4. /\ actors' \in Seq(Actor)
        /\ m \in Nat \ {0} /\ m \notin DOMAIN actors
        /\ DOMAIN actors' = DOMAIN actors \cup {m}
        /\ actors'[m] = [call |-> c, over |-> FALSE]
        /\ \A a \in DOMAIN actors : actors'[a] = actors[a]
    BY <1>5, <2>2, <2>3, ActorAdded DEF ExecInv, ExecTypeOK
  <2>5. /\ exec' \in [Executors -> Exec] /\ exec'[x].pc = "answered"
        /\ exec'[x].call = c /\ exec'[x].answer = n
        /\ \A y \in Executors : y # x => exec'[y] = exec[y]
    <3>1. [exec[x] EXCEPT !.pc = "answered", !.answer = n] \in Exec
      <4>1. n \in Nat /\ exec[x] \in Exec
        BY <1>5, <2>3, <2>4 DEF ExecInv, ExecTypeOK
      <4> QED BY <4>1 DEF Exec, Trying
    <3> QED BY <1>2, <1>5, <3>1 DEF ExecInv, ExecTypeOK
  <2>6. /\ ActorsOf(c)' = {m}
        /\ \A d : d # c => ActorsOf(d)' = ActorsOf(d)
    BY <1>3, <2>4 DEF ActorsOf
  <2>7. ExecTypeOK'
    BY <1>1, <1>2, <1>3, <2>4, <2>5 DEF ExecInv, ExecTypeOK, Trying, Failing
  <2>8. OneOpen'
    BY <1>1 DEF ExecInv, OneOpen, Open, Requested, Uncertain, Completed
  <2>9. ASSUME NEW d \in DOMAIN calls' PROVE CallKnows(d)'
    <3>1. CallKnows(d)
      BY <1>1 DEF ExecInv
    <3>2. CASE d = c
      BY <1>1, <1>3, <3>1, <3>2 DEF CallKnows, Requested, Uncertain, Cut
    <3>3. CASE d # c
      <4>1. ActorsOf(d)' = ActorsOf(d) /\ \A a \in ActorsOf(d) : actors'[a] = actors[a]
        BY <2>4, <2>6, <3>3 DEF ActorsOf
      <4>2. calls[d].run_id \in DOMAIN actors => calls[d].run_id \in DOMAIN actors'
        BY <2>4
      <4> QED BY <1>1, <3>1, <4>1, <4>2 DEF CallKnows, Requested, Uncertain, Cut
    <3> QED BY <3>2, <3>3
  <2>10. ASSUME NEW y \in Executors PROVE ExecutionKnows(y)'
    <3>1. CASE y = x
      <4>1. \A z \in Executors : Starting(z)' /\ exec'[z].call = c => z = x
        BY <1>3, <2>5 DEF Starting
      <4>2. n # 0 => n = m
        BY <1>5, <2>3
      <4> QED
        BY <1>1, <1>3, <2>4, <2>5, <2>6, <3>1, <4>1, <4>2
           DEF ExecutionKnows, Starting, At
    <3>2. CASE y # x
      <4>1. ExecutionKnows(y) /\ exec'[y] = exec[y]
        BY <2>5, <3>2 DEF ExecInv
      <4>2. ASSUME exec[y].call = c
            PROVE  /\ exec[y].pc \notin {"post", "answered", "poll", "result"}
                   /\ ~ (At(y, "failed") /\ MayWrite(y))
        BY <1>3, <3>2, <4>1, <4>2 DEF ExecutionKnows, Starting, At
      <4>3. CASE exec[y].call = c
        BY <1>1, <4>1, <4>2, <4>3
           DEF ExecutionKnows, Starting, At, MayWrite, Requested
      <4>4. CASE exec[y].call # c
        <5>1. /\ ActorsOf(exec[y].call)' = ActorsOf(exec[y].call)
              /\ \A a \in ActorsOf(exec[y].call) : actors'[a] = actors[a]
          BY <2>4, <2>6, <4>1, <4>4 DEF ActorsOf
        <5>2. ASSUME NEW z \in Executors, Starting(z)', exec'[z].call = exec[y].call
              PROVE  Starting(z) /\ exec[z].call = exec[y].call
          BY <2>5, <4>4, <5>2 DEF Starting
        <5>3. exec[y].answer \in DOMAIN actors => exec[y].answer \in DOMAIN actors'
          BY <2>4
        <5> QED
          BY <1>1, <4>1, <5>1, <5>2, <5>3
             DEF ExecutionKnows, Starting, At, MayWrite, Requested
      <4> QED BY <4>3, <4>4
    <3> QED BY <3>1, <3>2
  <2> QED BY <2>7, <2>8, <2>9, <2>10 DEF ExecInv
<1> QED BY <1>2, <1>4, <1>5 DEF PostRun

\* Who posted saves the run that has been started, or that one may have been.
LEMMA SaveRunKeeps ==
  ASSUME ExecInv, NEW x \in Executors, SaveRun(x) PROVE ExecInv'
<1>1. /\ exec[x].pc = "answered" /\ UNCHANGED <<actors, run>>
      /\ exec[x].pc \in Trying \cup Failing /\ Starting(x)
  BY DEF SaveRun, At, InsideJob, vars, Trying, Starting
<1>2. PICK c : c = exec[x].call
  OBVIOUS
<1>3. /\ c \in DOMAIN calls /\ calls[c] \in ProviderCall /\ CallKnows(c)
      /\ exec[x].answer # 0 =>
           exec[x].answer \in DOMAIN actors /\ ActorsOf(c) = {exec[x].answer}
      /\ calls[c].provider_state = "SUBMITTING"
      /\ exec[x].answer \in Nat
  BY <1>1, <1>2, CallOf DEF ExecutionKnows, At, ExecInv, ExecTypeOK, Exec
<1>4. CASE exec[x].answer = 0
  <2>1. PICK r : r = [calls[c] EXCEPT !.held = TRUE]
    OBVIOUS
  <2>2. /\ r \in ProviderCall /\ r.provider_state = calls[c].provider_state
        /\ r.blocks = calls[c].blocks /\ r.execution_token = calls[c].execution_token
        /\ r.status = calls[c].status
    BY <1>3, <2>1 DEF ProviderCall
  <2>3. ASSUME MayWrite(x), calls'[c] = r, exec'[x].pc = "uncertain"
        PROVE  CallKnows(c)' /\ ExecutionKnows(x)'
    BY <1>2, <1>3, <2>2, <2>3
       DEF CallKnows, ExecutionKnows, Starting, At, Requested, MayWrite
  <2> QED BY <1>1, <1>2, <1>4, <2>1, <2>2, <2>3, SavesKeeps DEF SaveRun
<1>5. CASE exec[x].answer # 0
  <2>1. PICK r : r = [calls[c] EXCEPT !.provider_state = "run", !.run_id = exec[x].answer]
    OBVIOUS
  <2>2. /\ r \in ProviderCall /\ r.provider_state = "run" /\ r.run_id = exec[x].answer
        /\ r.blocks = calls[c].blocks /\ r.execution_token = calls[c].execution_token
        /\ r.status = calls[c].status
    BY <1>3, <2>1 DEF ProviderCall
  <2>3. ASSUME MayWrite(x), calls'[c] = r, exec'[x].pc = "poll", exec'[x].call = c
        PROVE  CallKnows(c)' /\ ExecutionKnows(x)'
    <3>1. CallKnows(c)'
      BY <1>1, <1>2, <1>3, <1>5, <2>2, <2>3
         DEF CallKnows, ActorsOf, Requested, MayWrite
    <3> QED BY <2>2, <2>3, <3>1 DEF ExecutionKnows, Starting, At
  <2> QED BY <1>1, <1>2, <1>5, <2>1, <2>2, <2>3, SavesKeeps DEF SaveRun
<1> QED BY <1>4, <1>5

\* The run that is asked for is the only one of the call.
LEMMA AdvanceKeeps ==
  ASSUME ExecInv, NEW x \in Executors, _advance(x) PROVE ExecInv'
<1>1. /\ exec[x].pc = "poll" /\ UNCHANGED <<actors, run>>
      /\ exec[x].pc \in Trying \cup Failing
  BY DEF _advance, At, InsideJob, vars, Trying
<1>2. PICK c : c = exec[x].call
  OBVIOUS
<1>3. /\ c \in DOMAIN calls /\ calls[c] \in ProviderCall /\ CallKnows(c)
      /\ calls[c].provider_state = "run"
      /\ ActorsOf(c) = {calls[c].run_id}
  BY <1>1, <1>2, CallOf DEF ExecutionKnows, CallKnows
<1>4. ASSUME Waits(x) PROVE ExecInv'
  <2>1. PICK r : r = [calls[c] EXCEPT !.held = TRUE]
    OBVIOUS
  <2>2. /\ r \in ProviderCall /\ r.provider_state = calls[c].provider_state
        /\ r.blocks = calls[c].blocks /\ r.execution_token = calls[c].execution_token
        /\ r.status = calls[c].status /\ r.run_id = calls[c].run_id
    BY <1>3, <2>1 DEF ProviderCall
  <2>3. ASSUME MayWrite(x), calls'[c] = r, exec'[x].pc = "raise"
        PROVE  CallKnows(c)' /\ ExecutionKnows(x)'
    BY <1>1, <1>2, <1>3, <2>2, <2>3
       DEF CallKnows, ActorsOf, ExecutionKnows, Starting, At, Requested, MayWrite
  <2> QED BY <1>1, <1>2, <1>4, <2>1, <2>2, <2>3, SavesKeeps DEF Waits
<1>5. ASSUME NEW pc \in {"result", "failed"}, Saves(x, calls[c], pc),
             actors[calls[c].run_id].over
      PROVE  ExecInv'
  <2>1. ASSUME MayWrite(x), calls'[c] = calls[c], exec'[x].pc = pc, exec'[x].call = c
        PROVE  CallKnows(c)' /\ ExecutionKnows(x)'
    <3>1. CallKnows(c)'
      BY <1>1, <1>3, <2>1 DEF CallKnows, ActorsOf, Requested, Uncertain, Cut
    <3>2. \A a \in ActorsOf(c)' : actors'[a].over
      BY <1>1, <1>3, <1>5 DEF ActorsOf
    <3> QED BY <1>3, <2>1, <3>1, <3>2 DEF ExecutionKnows, Starting, At
  <2> QED BY <1>1, <1>2, <1>3, <1>5, <2>1, SavesKeeps
<1> QED BY <1>2, <1>4, <1>5 DEF _advance

\* A call ends SUCCEEDED or ABSENT when its run is over; otherwise it says why.
LEMMA FinalizeKeeps ==
  ASSUME ExecInv, NEW x \in Executors, Finalize(x) PROVE ExecInv'
<1>1. /\ exec[x].pc = "result" /\ UNCHANGED <<actors, run>>
      /\ exec[x].pc \in Trying \cup Failing
  BY DEF Finalize, At, InsideJob, vars, Trying
<1>2. PICK c : c = exec[x].call
  OBVIOUS
<1>3. /\ c \in DOMAIN calls /\ calls[c] \in ProviderCall /\ CallKnows(c)
      /\ ExecutionKnows(x) /\ calls[c].provider_state = "run"
      /\ \A a \in ActorsOf(c) : actors[a].over
  BY <1>1, <1>2, CallOf DEF ExecutionKnows, At
<1>4. ASSUME NEW status \in {"SUCCEEDED", "ABSENT"},
             Saves(x, Ended(calls[c], status, ""), "done")
      PROVE  ExecInv'
  <2>1. PICK r : r = Ended(calls[c], status, "")
    OBVIOUS
  <2>2. /\ r \in ProviderCall /\ r.provider_state = calls[c].provider_state
        /\ r.blocks = calls[c].blocks /\ r.execution_token = calls[c].execution_token
        /\ r.run_id = calls[c].run_id
    BY <1>3, <2>1 DEF Ended, ProviderCall
  <2>3. ASSUME calls'[c] = r, exec'[x].pc = "done"
        PROVE  CallKnows(c)' /\ ExecutionKnows(x)'
    BY <1>1, <1>3, <2>2, <2>3 DEF CallKnows, ActorsOf, ExecutionKnows, Starting, At
  <2> QED BY <1>1, <1>2, <1>4, <2>1, <2>2, <2>3, SavesKeeps
<1>5. ASSUME GoTo(x, "failed"), UNCHANGED calls PROVE ExecInv'
  <2>1. /\ exec' \in [Executors -> Exec] /\ exec'[x].pc = "failed"
        /\ exec'[x].call = exec[x].call
        /\ \A y \in Executors : y # x => exec'[y] = exec[y]
    BY <1>5, GoesTo DEF ExecInv, ExecTypeOK, Failing
  <2>2. StillCalling'
    BY <1>1, <1>5, <2>1 DEF ExecInv, ExecTypeOK, StillCalling, Trying
  <2>3. ~ Starting(x)' /\ ExecutionKnows(x)'
    BY <1>1, <1>2, <1>3, <1>5, <2>1 DEF ExecutionKnows, ActorsOf, Starting, At
  <2> QED BY <1>1, <1>5, <2>1, <2>2, <2>3, MoveKeeps
<1> QED BY <1>2, <1>4, <1>5 DEF Finalize

LEMMA FailsKeeps ==
  ASSUME ExecInv, NEW x \in Executors, Fails(x) PROVE ExecInv'
<1>1. /\ exec[x].pc \in Failing /\ UNCHANGED <<actors, run>>
      /\ exec[x].pc \in Trying \cup Failing
  BY DEF Fails, InsideJob, vars
<1>2. PICK c : c = exec[x].call
  OBVIOUS
<1>3. PICK pc \in {"done", "raise"} : GoTo(x, pc)
  BY DEF Fails
<1>4. CASE ~ MayWrite(x)
  BY <1>1, <1>3, <1>4, CarelessKeeps DEF Fails, Careless
<1>5. CASE MayWrite(x)
  <2>1. PICK error : error = Error(x)
    OBVIOUS
  <2>2. /\ c \in DOMAIN calls /\ calls[c] \in ProviderCall /\ CallKnows(c)
        /\ ExecutionKnows(x)
    BY <1>1, <1>2, CallOf
  <2>3. /\ error \in {"ProviderSubmissionUncertain", "interrupted", "other"}
        /\ error = "other" => exec[x].pc = "failed"
    BY <1>1, <2>1 DEF Error, At, Failing
  <2>4. PICK r : r = Ended(calls[c], "FAILED", error)
    OBVIOUS
  <2>5. /\ r \in ProviderCall /\ r.provider_state = calls[c].provider_state
        /\ r.blocks = calls[c].blocks /\ r.execution_token = calls[c].execution_token
        /\ r.run_id = calls[c].run_id /\ r.error_code = error
    BY <2>2, <2>3, <2>4 DEF Ended, ProviderCall
  <2>6. Saves(x, r, pc)
    BY <1>2, <1>3, <1>5, <2>1, <2>4 DEF Fails, Saves
  <2>7. ASSUME calls'[c] = r, exec'[x].pc = pc
        PROVE  CallKnows(c)' /\ ExecutionKnows(x)'
    <3>1. error # "other" => Uncertain(c)' \/ Cut(c)'
      BY <2>3, <2>5, <2>7 DEF Uncertain, Cut
    <3>2. error = "other" =>
            /\ calls[c].provider_state # "SUBMITTING"
            /\ \A a \in ActorsOf(c) : actors[a].over
      BY <1>2, <1>5, <2>2, <2>3 DEF ExecutionKnows, At
    <3> QED
      BY <1>1, <1>3, <2>2, <2>5, <2>7, <3>1, <3>2
         DEF CallKnows, ActorsOf, ExecutionKnows, Starting, At
  <2> QED BY <1>1, <1>2, <2>5, <2>6, <2>7, SavesKeeps
<1> QED BY <1>4, <1>5

\* Time only lets a call be asked for again, or a run end.
LEMMA CallIsDueKeeps ==
  ASSUME ExecInv, NEW c \in DOMAIN calls, CallIsDue(c) PROVE ExecInv'
<1>1. UNCHANGED <<exec, actors, run>>
  BY DEF CallIsDue, InsideJob, vars
<1>2. PICK r : r = [calls[c] EXCEPT !.held = FALSE]
  OBVIOUS
<1>3. /\ r \in ProviderCall /\ r.provider_state = calls[c].provider_state
      /\ r.blocks = calls[c].blocks /\ r.execution_token = calls[c].execution_token
      /\ r.run_id = calls[c].run_id /\ r.error_code = calls[c].error_code
      /\ r.status = calls[c].status
  BY <1>2, CallType DEF ProviderCall
<1>4. /\ calls' \in Seq(ProviderCall) /\ DOMAIN calls' = DOMAIN calls
      /\ calls'[c] = r
      /\ \A d \in DOMAIN calls : d # c => calls'[d] = calls[d]
  <2>1. calls' = [calls EXCEPT ![c] = r]
    BY <1>2 DEF CallIsDue
  <2> QED BY <1>3, <2>1, CallWritten DEF ExecInv, ExecTypeOK
<1>5. \A d \in DOMAIN calls :
        /\ calls'[d].provider_state = calls[d].provider_state
        /\ calls'[d].blocks = calls[d].blocks
        /\ calls'[d].execution_token = calls[d].execution_token
        /\ calls'[d].run_id = calls[d].run_id
        /\ calls'[d].error_code = calls[d].error_code
        /\ calls'[d].status = calls[d].status
  BY <1>3, <1>4
<1>6. ExecTypeOK' /\ OneOpen'
  BY <1>1, <1>4, <1>5
     DEF ExecInv, ExecTypeOK, OneOpen, Open, Requested, Uncertain, Completed
<1>7. ASSUME NEW d \in DOMAIN calls' PROVE CallKnows(d)'
  BY <1>1, <1>4, <1>5, <1>7
     DEF ExecInv, CallKnows, ActorsOf, Requested, Uncertain, Cut
<1>8. ASSUME NEW y \in Executors PROVE ExecutionKnows(y)'
  <2>1. CASE exec[y].pc \in Careless
    BY <1>1, <2>1 DEF Careless, ExecutionKnows, Starting, At
  <2>2. CASE exec[y].pc \notin Careless
    <3>1. exec[y].call \in DOMAIN calls /\ ExecutionKnows(y)
      BY <2>2 DEF ExecInv, ExecTypeOK, Careless, Exec, Trying, Failing
    <3> QED
      BY <1>1, <1>5, <3>1 DEF ExecutionKnows, ActorsOf, Starting, At, MayWrite, Requested
  <2> QED BY <2>1, <2>2
<1> QED BY <1>6, <1>7, <1>8 DEF ExecInv

LEMMA ActorEndsKeeps ==
  ASSUME ExecInv, NEW a \in DOMAIN actors, ActorEnds(a) PROVE ExecInv'
<1>1. UNCHANGED <<exec, calls, run>> /\ actors' = [actors EXCEPT ![a].over = TRUE]
  BY DEF ActorEnds, InsideJob, vars
<1>2. /\ actors' \in Seq(Actor) /\ DOMAIN actors' = DOMAIN actors
      /\ \A b \in DOMAIN actors :
           /\ actors'[b].call = actors[b].call
           /\ actors[b].over => actors'[b].over
  BY <1>1, ActorOver DEF ExecInv, ExecTypeOK
<1>3. \A d : /\ ActorsOf(d)' = ActorsOf(d)
             /\ \A b \in ActorsOf(d) : actors[b].over => actors'[b].over
  BY <1>2 DEF ActorsOf
<1>4. ExecTypeOK' /\ OneOpen'
  BY <1>1, <1>2 DEF ExecInv, ExecTypeOK, OneOpen, Open, Requested, Uncertain, Completed
<1>5. ASSUME NEW d \in DOMAIN calls' PROVE CallKnows(d)'
  <2>1. CallKnows(d)
    BY <1>1 DEF ExecInv
  <2> QED BY <1>1, <1>2, <1>3, <2>1 DEF CallKnows, Requested, Uncertain, Cut
<1>6. ASSUME NEW y \in Executors PROVE ExecutionKnows(y)'
  <2>1. ExecutionKnows(y)
    BY DEF ExecInv
  <2> QED
    BY <1>1, <1>2, <1>3, <2>1 DEF ExecutionKnows, Starting, At, MayWrite, Requested
<1> QED BY <1>4, <1>5, <1>6 DEF ExecInv

\* An execution that ends leaves its call as it is.
LEMMA LeavesKeeps ==
  ASSUME ExecInv, NEW x \in Executors, Leaves(x),
         \A y \in Executors : y # x /\ run[y].pc = "calling" => run'[y].pc = "calling"
  PROVE  ExecInv'
<1>1. Idle \in Exec /\ Idle.pc = "out"
  BY DEF Idle, Exec
<1>2. /\ exec' \in [Executors -> Exec] /\ exec'[x].pc = "out"
      /\ \A y \in Executors : y # x => exec'[y] = exec[y]
      /\ UNCHANGED <<calls, actors>>
  BY <1>1 DEF Leaves, ExecInv, ExecTypeOK
<1>3. StillCalling'
  BY <1>2 DEF ExecInv, ExecTypeOK, StillCalling, Trying, Failing
<1>4. ~ Starting(x)' /\ ExecutionKnows(x)'
  BY <1>2 DEF Starting, ExecutionKnows, At
<1> QED BY <1>2, <1>3, <1>4, MoveKeeps

LEMMA OutsideKeeps ==
  ASSUME ExecInv, Outside,
         \A y \in Executors : run[y].pc = "calling" => run'[y].pc = "calling"
  PROVE  ExecInv'
<1>1. ExecTypeOK' /\ OneOpen'
  BY DEF Outside, ExecInv, ExecTypeOK, OneOpen, Open, Requested, Uncertain, Completed
<1>2. ASSUME NEW d \in DOMAIN calls' PROVE CallKnows(d)'
  BY <1>2 DEF Outside, ExecInv, CallKnows, ActorsOf, Requested, Uncertain, Cut
<1>3. ASSUME NEW y \in Executors PROVE ExecutionKnows(y)'
  <2>1. ExecutionKnows(y)
    BY DEF ExecInv
  <2> QED
    BY <2>1 DEF Outside, ExecutionKnows, ActorsOf, Starting, At, MayWrite, Requested
<1> QED BY <1>1, <1>2, <1>3 DEF ExecInv

\* The job keeps its executors' calls alone.
LEMMA JobStepKeeps == ASSUME TypeOK, ExecInv, JobStep PROVE ExecInv'
<1>0. /\ run \in [Executors -> Run]
      /\ WebRequests \subseteq Executors /\ Workers \subseteq Executors
  BY DEF TypeOK, Executors
<1>1. ASSUME Outside, UNCHANGED run PROVE ExecInv'
  BY <1>1, OutsideKeeps
<1>2. ASSUME NEW w \in Workers, WorkerStep(w), Outside PROVE ExecInv'
  <2>1. \A y \in Executors : run[y].pc = "calling" => run'[y].pc = "calling"
    BY <1>0, <1>2 DEF WorkerStep, process_enrichment_job_task, Claim
  <2> QED BY <1>2, <2>1, OutsideKeeps
<1>3. ASSUME NEW x \in Executors, run' = [run EXCEPT ![x] = FreeRun], Leaves(x)
      PROVE  ExecInv'
  BY <1>0, <1>3, LeavesKeeps
<1>4. ASSUME NEW x \in WebRequests, WebStep(x), Outside PROVE ExecInv'
  <2>1. \A y \in Executors : run[y].pc = "calling" => run'[y].pc = "calling"
    BY <1>0, <1>4 DEF WebStep, EnrichmentJobDetailView, OtherAsks, WebClaims, Claim
  <2> QED BY <1>4, <2>1, OutsideKeeps
<1>5. ASSUME NEW x \in WebRequests, RequestDies(x), Leaves(x) PROVE ExecInv'
  BY <1>0, <1>3, <1>5 DEF RequestDies
<1> QED
  BY <1>0, <1>1, <1>2, <1>3, <1>4, <1>5
     DEF JobStep, WorkerLost, Returns, Finish, Raise, MessageLost, LeaseExpires,
         recover_stalled_enrichment_jobs, submitIndividual, Ask, AnswerLost

LEMMA InterruptedKeeps ==
  ASSUME ExecInv, NEW x \in Executors, Interrupted(x) PROVE ExecInv'
BY CarelessKeeps DEF Interrupted, Writing, Trying, InsideJob, vars, Careless

\* Every step keeps the invariant.
LEMMA ExecStep == TypeOK /\ ExecInv /\ [ExecNext]_execVars => ExecInv'
<1> SUFFICES ASSUME TypeOK, ExecInv, [ExecNext]_execVars PROVE ExecInv'
  OBVIOUS
<1>1. CASE UNCHANGED execVars
  BY <1>1, OutsideKeeps DEF execVars, Outside
<1>2. ASSUME NEW x \in Executors, CallStep(x) PROVE ExecInv'
  BY <1>2, ReserveKeeps, EnrichKeeps, SaveSubmittingKeeps, PostRunKeeps, SaveRunKeeps,
     AdvanceKeeps, FinalizeKeeps, FailsKeeps DEF CallStep
<1>3. CASE Time
  BY <1>3, CallIsDueKeeps, ActorEndsKeeps DEF Time
<1> QED BY <1>1, <1>2, <1>3, JobStepKeeps, InterruptedKeeps DEF ExecNext

LEMMA ExecInitEstablishes == ExecInit => ExecInv
<1> SUFFICES ASSUME ExecInit PROVE ExecInv
  OBVIOUS
<1>1. calls = <<>> /\ actors = <<>> /\ DOMAIN calls = {} /\ DOMAIN actors = {}
  BY DEF ExecInit
<1>2. Idle \in Exec /\ Idle.pc = "out" /\ exec = [x \in Executors |-> Idle]
  BY DEF ExecInit, Idle, Exec
<1>3. calls \in Seq(ProviderCall) /\ actors \in Seq(Actor)
  BY <1>1, EmptySeq
<1>4. ExecTypeOK
  BY <1>1, <1>2, <1>3 DEF ExecTypeOK, Trying, Failing
<1>5. \A x \in Executors : ExecutionKnows(x)
  BY <1>2, CarelessKnows DEF Careless
<1> QED BY <1>1, <1>4, <1>5 DEF ExecInv, OneOpen

LEMMA ExecInductive == ExecSpec => []ExecInv
BY ExecInitEstablishes, ExecStep, ImplementsJobs, TypeCorrect, PTL DEF ExecSpec

-------------------------------------------------------------------------------
(* Theorems *)

\* Calls, executions and runs at the provider are well typed, and an execution
\* that calls has a call of the table.
THEOREM ExecTypeCorrect == ExecSpec => []ExecTypeOK
<1>1. ExecInv => ExecTypeOK
  BY DEF ExecInv
<1> QED BY <1>1, ExecInductive, PTL

\* However executions stall, die, are interrupted and are resumed by others, a run
\* that has not ended has a call that will be asked again, or that says that its
\* start must be reconciled, or that the execution was interrupted.
THEOREM RunsKeepTheirCalls == ExecSpec => []RunsAreOnRecord
<1>1. ASSUME ExecInv PROVE RunsAreOnRecord
  <2> SUFFICES ASSUME NEW a \in DOMAIN actors
               PROVE  LET c == actors[a].call IN
                      actors[a].over \/ Requested(c) \/ Uncertain(c) \/ Cut(c)
    BY DEF RunsAreOnRecord
  <2>1. actors[a].call \in DOMAIN calls /\ a \in ActorsOf(actors[a].call)
    BY <1>1 DEF ExecInv, ExecTypeOK, ActorsOf
  <2> QED BY <1>1, <2>1 DEF ExecInv, CallKnows
<1> QED BY <1>1, ExecInductive, PTL

\* A run is started for a call that has none, and no other call for the same
\* blocks is open: each start is alone.
THEOREM StartsStayAlone == ExecSpec => StartsAreAlone
<1> DEFINE AloneTo(a) ==
      LET c == actors[a].call
          d == actors'[Len(actors')].call IN
      calls[c].blocks = calls[d].blocks /\ ~ Cut(c) /\ ~ Cut(d)
        => ~ Requested(c) /\ ~ Uncertain(c)
<1>1. ASSUME ExecInv, NEW x \in Executors, PostRun(x), Len(actors') > Len(actors),
             NEW a \in DOMAIN actors
      PROVE  AloneTo(a)
  <2>1. exec[x].pc = "post" /\ exec[x].pc \in Trying \cup Failing
    BY <1>1 DEF PostRun, At, Trying
  <2>2. PICK d : d = exec[x].call
    OBVIOUS
  <2>3. /\ d \in DOMAIN calls /\ calls[d].provider_state = "SUBMITTING"
        /\ ActorsOf(d) = {} /\ CallKnows(d)
    BY <1>1, <2>1, <2>2, CallOf DEF ExecutionKnows, At, Starting
  <2>4. actors' = Append(actors, [call |-> d, over |-> FALSE])
    <3>1. Len(actors) \in Nat
      BY <1>1, LenProperties DEF ExecInv, ExecTypeOK
    <3> QED BY <1>1, <2>2, <3>1 DEF PostRun
  <2>5. actors'[Len(actors')].call = d
    <3>1. [call |-> d, over |-> FALSE] \in Actor
      BY <1>1, <2>3, LenProperties DEF ExecInv, ExecTypeOK, Actor
    <3> QED BY <1>1, <2>4, <3>1, ActorAdded DEF ExecInv, ExecTypeOK
  <2>6. actors[a].call \in DOMAIN calls /\ actors[a].call # d
    BY <1>1, <2>3 DEF ExecInv, ExecTypeOK, ActorsOf
  <2>7. ~ Cut(d) => Open(d)
    BY <2>3 DEF CallKnows, Open
  <2> QED BY <1>1, <2>3, <2>5, <2>6, <2>7 DEF ExecInv, OneOpen, Open
<1>2. ASSUME ExecInv, NEW a \in DOMAIN actors, ActorEnds(a)
      PROVE  ~ Len(actors') > Len(actors)
  <2>1. Len(actors') = Len(actors) /\ Len(actors) \in Nat
    BY <1>2, ActorOver, LenProperties DEF ActorEnds, ExecInv, ExecTypeOK
  <2> QED BY <2>1
<1>3. ASSUME ExecInv, UNCHANGED actors PROVE ~ Len(actors') > Len(actors)
  <2>1. Len(actors') = Len(actors) /\ Len(actors) \in Nat
    BY <1>3, LenProperties DEF ExecInv, ExecTypeOK
  <2> QED BY <2>1
<1>4. ASSUME ExecInv, [ExecNext]_execVars, Len(actors') > Len(actors),
             NEW a \in DOMAIN actors
      PROVE  AloneTo(a)
  <2>1. ASSUME NEW x \in Executors, CallStep(x) PROVE PostRun(x) \/ UNCHANGED actors
    BY <2>1 DEF CallStep, run_enrichment_cascade, enrich, SaveSubmitting, SaveRun,
                _advance, Finalize, Fails
  <2>2. CASE UNCHANGED execVars \/ JobStep
    BY <1>3, <1>4, <2>2 DEF execVars, JobStep, Returns, Leaves, Outside
  <2>3. CASE Time
    BY <1>2, <1>3, <1>4, <2>3 DEF Time, CallIsDue
  <2>4. ASSUME NEW x \in Executors, Interrupted(x) PROVE AloneTo(a)
    BY <1>3, <1>4, <2>4 DEF Interrupted
  <2> QED BY <1>1, <1>3, <1>4, <2>1, <2>2, <2>3, <2>4 DEF ExecNext
<1>5. ExecInv /\ [ExecNext]_execVars
        => [Len(actors') > Len(actors) => \A a \in DOMAIN actors : AloneTo(a)]_execVars
  BY <1>4
<1> QED BY <1>5, ExecInductive, PTL DEF ExecSpec, StartsAreAlone

\* A call that is written to is open, and beside a completed one for the same
\* blocks none is: what the provider has delivered is not paid again.
THEOREM OutcomesStayFinal == ExecSpec => OutcomeIsFinal
<1> DEFINE Final(c) ==
      \A d \in DOMAIN calls' :
        calls'[d].blocks = calls[c].blocks =>
          d \in DOMAIN calls /\ calls'[d].status = calls[d].status
      Writes(x) ==
        /\ exec[x].pc \in Trying \cup Failing /\ MayWrite(x)
        /\ \E r : /\ r.blocks = calls[exec[x].call].blocks
                 /\ calls' = [calls EXCEPT ![exec[x].call] = r]
<1>1. ASSUME ExecInv, NEW c \in DOMAIN calls, Completed(c), NEW x \in Executors, Writes(x)
      PROVE  Final(c)
  <2>1. PICK d, r : /\ d = exec[x].call /\ r.blocks = calls[d].blocks
                    /\ calls' = [calls EXCEPT ![d] = r]
    BY <1>1
  <2>2. calls \in [1..Len(calls) -> ProviderCall] /\ DOMAIN calls = 1..Len(calls)
    BY <1>1, LenProperties DEF ExecInv, ExecTypeOK
  <2>3. /\ d \in DOMAIN calls /\ DOMAIN calls' = DOMAIN calls /\ calls'[d] = r
        /\ \A e \in DOMAIN calls : e # d => calls'[e] = calls[e]
    BY <1>1, <2>1, <2>2, CallOf
  <2>4. d # c /\ Requested(d)
    BY <1>1, <2>1 DEF MayWrite, Completed, Requested
  <2>5. calls[d].blocks # calls[c].blocks
    BY <1>1, <2>3, <2>4 DEF ExecInv, OneOpen, Open
  <2> QED BY <2>1, <2>3, <2>5
<1>2. ASSUME ExecInv, NEW c \in DOMAIN calls, UNCHANGED calls PROVE Final(c)
  BY <1>2
<1>3. ASSUME ExecInv, NEW c \in DOMAIN calls, NEW d \in DOMAIN calls,
             NEW r, calls' = [calls EXCEPT ![d] = r], r.status = calls[d].status
      PROVE  Final(c)
  <2>1. calls \in [1..Len(calls) -> ProviderCall] /\ DOMAIN calls = 1..Len(calls)
    BY <1>3, LenProperties DEF ExecInv, ExecTypeOK
  <2> QED BY <1>3, <2>1
<1>4. ASSUME ExecInv, NEW c \in DOMAIN calls, Completed(c), NEW x \in Executors,
             run_enrichment_cascade(x)
      PROVE  Final(c)
  <2>1. ASSUME NEW blocks \in BlockSets, NEW d \in CallsFor(blocks), ResumeCall(x, d)
        PROVE  Final(c)
    <3>1. d \in DOMAIN calls
      BY DEF CallsFor
    <3>2. PICK r : r = Reserved(calls[d], x)
      OBVIOUS
    <3>3. r.status = calls[d].status
      BY <1>4, <3>1, <3>2, CallType DEF Reserved, ProviderCall
    <3> QED BY <1>2, <1>3, <1>4, <2>1, <3>1, <3>2, <3>3 DEF ResumeCall
  <2>2. ASSUME NEW blocks \in BlockSets, ~ Refused(blocks), StartCall(x, blocks)
        PROVE  Final(c)
    <3>1. CASE UNCHANGED calls
      BY <1>2, <1>4, <3>1
    <3>2. CASE calls' = Append(calls, NewCall(blocks, x))
      <4>1. NewCall(blocks, x) \in ProviderCall /\ NewCall(blocks, x).blocks = blocks
        BY DEF NewCall, ProviderCall
      <4>2. /\ DOMAIN calls' = DOMAIN calls \cup {Len(calls) + 1}
            /\ calls'[Len(calls) + 1] = NewCall(blocks, x)
            /\ \A d \in DOMAIN calls : calls'[d] = calls[d]
        BY <1>4, <3>2, <4>1, CallAdded DEF ExecInv, ExecTypeOK
      <4>3. calls[c].blocks # blocks
        BY <1>4, <2>2 DEF Refused, CallsFor
      <4> QED BY <4>1, <4>2, <4>3
    <3> QED BY <2>2, <3>1, <3>2 DEF StartCall
  <2> QED BY <1>2, <1>4, <2>1, <2>2 DEF run_enrichment_cascade, _reserve
<1>5. ASSUME ExecInv, NEW x \in Executors, CallStep(x)
      PROVE  run_enrichment_cascade(x) \/ UNCHANGED calls \/ Writes(x)
  <2>1. ASSUME NEW pc, NEW r, Saves(x, r, pc), exec[x].pc \in Trying \cup Failing,
               r.blocks = calls[exec[x].call].blocks
        PROVE  UNCHANGED calls \/ Writes(x)
    BY <2>1 DEF Saves
  <2>2. CASE enrich(x) \/ PostRun(x)
    BY <2>2 DEF enrich, PostRun
  <2>3. CASE SaveSubmitting(x)
    <3>1. calls[exec[x].call] \in ProviderCall /\ exec[x].pc \in Trying
      BY <1>5, <2>3, CallOf DEF SaveSubmitting, At, Trying
    <3> QED BY <2>1, <2>3, <3>1 DEF SaveSubmitting, ProviderCall
  <2>4. CASE SaveRun(x)
    <3>1. calls[exec[x].call] \in ProviderCall /\ exec[x].pc \in Trying
      BY <1>5, <2>4, CallOf DEF SaveRun, At, Trying
    <3> QED BY <2>1, <2>4, <3>1 DEF SaveRun, ProviderCall
  <2>5. CASE _advance(x)
    <3>1. calls[exec[x].call] \in ProviderCall /\ exec[x].pc \in Trying
      BY <1>5, <2>5, CallOf DEF _advance, At, Trying
    <3> QED BY <2>1, <2>5, <3>1 DEF _advance, Waits, ProviderCall
  <2>6. CASE Finalize(x)
    <3>1. calls[exec[x].call] \in ProviderCall /\ exec[x].pc \in Trying
      BY <1>5, <2>6, CallOf DEF Finalize, At, Trying
    <3> QED BY <2>1, <2>6, <3>1 DEF Finalize, Ended, ProviderCall
  <2>7. CASE Fails(x)
    <3>1. calls[exec[x].call] \in ProviderCall /\ exec[x].pc \in Failing
      BY <1>5, <2>7, CallOf DEF Fails
    <3> QED BY <2>7, <3>1 DEF Fails, Ended, ProviderCall
  <2> QED BY <1>5, <2>2, <2>3, <2>4, <2>5, <2>6, <2>7 DEF CallStep
<1>6. ASSUME ExecInv, [ExecNext]_execVars, NEW c \in DOMAIN calls, Completed(c)
      PROVE  Final(c)
  <2>1. CASE UNCHANGED calls
    BY <1>2, <1>6, <2>1
  <2>2. ASSUME NEW d \in DOMAIN calls, CallIsDue(d) PROVE Final(c)
    <3>1. PICK r : r = [calls[d] EXCEPT !.held = FALSE]
      OBVIOUS
    <3>2. r.status = calls[d].status /\ calls' = [calls EXCEPT ![d] = r]
      BY <1>6, <2>2, <3>1, CallType DEF ProviderCall, CallIsDue
    <3> QED BY <1>3, <1>6, <3>2
  <2> QED
    BY <1>1, <1>4, <1>5, <1>6, <2>1, <2>2
       DEF ExecNext, execVars, JobStep, Returns, Leaves, Outside, Time, ActorEnds,
           Interrupted
<1>7. ExecInv /\ [ExecNext]_execVars
        => [\A c \in DOMAIN calls : Completed(c) => Final(c)]_execVars
  BY <1>6
<1> QED BY <1>7, ExecInductive, PTL DEF ExecSpec, OutcomeIsFinal

\* What EnrichmentJobs proves of the job, with the calls inside and on the same
\* provisions: one executor at a time calls the providers, and a job that has ended
\* stays so.
THEOREM CompositionKeepsJobs == ExecSpec => []OneCallerAtATime /\ EndedStaysEnded
BY ImplementsJobs, CallersAreAlone, EndIsFinal, PTL
===============================================================================
