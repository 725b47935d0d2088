------------------------- MODULE AssessmentPipeline -------------------------
(***************************************************************************)
(* The asynchronous assessment pipeline of TrustLayer: the submit handlers *)
(* of the API (backend/routers/assessment.py and channel.py), the Celery   *)
(* task that runs a job (backend/tasks/assessment_pipeline.py), the Redis  *)
(* keys they share (backend/storage/redis_client.py), the Celery broker    *)
(* and result backend, and the viewers of the progress stream.             *)
(*                                                                         *)
(* Every Redis or broker call is a step of its own, so the handler of a    *)
(* job interleaves with the worker that already runs it.  A worker process *)
(* can die between any two steps; with task_acks_late its message is then  *)
(* redelivered.                                                            *)
(***************************************************************************)
EXTENDS Integers

CONSTANTS
  Jobs,        \* job ids
  Workers,     \* Celery worker slots
  Users,       \* authenticated users
  Oversight,   \* users whose role is admin or auditor
  Verdicts,    \* the results a run can return
  None,        \* Python's None, and a missing Redis key
  MaxCrashes   \* how many worker deaths a behaviour contains

Channel == "channel"     \* the submitter of a job sent through /channel/assess

ASSUME UsersAssumption ==
  /\ Oversight \subseteq Users
  /\ None \notin Users \cup Jobs \cup Verdicts \cup {"FAILURE"}
  /\ Channel \notin Users \cup {None}

ASSUME VerdictsAssumption ==
  Verdicts \cap {"PENDING", "STARTED", "FAILURE", "unknown", "pending"} = {}

ASSUME CrashAssumption == MaxCrashes \in Nat

VARIABLES
  handler,     \* where the HTTP handler that creates job j stands
  submitter,   \* who sent job j: a user, or Channel
  status,      \* Redis key job:{j}, the pct last written, NoStatus if absent
  owner,       \* Redis key job_owner:{j}
  msg,         \* the Celery message of j: none, ready, held, orphaned, acked
  redelivered, \* the jobs whose message was put back on the queue
  result,      \* the Celery result of j
  job,         \* the job each worker runs
  at,          \* the stage each worker has reached
  step,        \* what each worker does next at that stage
  outcome,     \* what the run of each worker has come to
  announced,   \* the jobs whose event "complete" has been published
  stream,      \* the SSE stream each user has open
  crashes      \* worker deaths so far

worker == <<job, at, step, outcome>>
vars == <<handler, submitter, status, owner, msg, redelivered, result,
          worker, announced, stream, crashes>>

-----------------------------------------------------------------------------
(* The stages of a run and the pct each publishes.                         *)

Document == 1
Biometric == 2
IdentityGraph == 5
Fusion == 6
Complete == 7
Stages == Document .. Complete

Pct == <<5, 25, 45, 60, 75, 88, 100>>
Queued == 0
NoStatus == -1

\* Stages whose body catches every exception and falls back to a default score.
Guarded == {Document, Biometric}

Settled(r) == r \in Verdicts \cup {"FAILURE"}

Init ==
  /\ handler = [j \in Jobs |-> "idle"]
  /\ submitter = [j \in Jobs |-> None]
  /\ status = [j \in Jobs |-> NoStatus]
  /\ owner = [j \in Jobs |-> None]
  /\ msg = [j \in Jobs |-> "none"]
  /\ redelivered = {}
  /\ result = [j \in Jobs |-> "PENDING"]
  /\ job = [w \in Workers |-> None]
  /\ at = [w \in Workers |-> Document]
  /\ step = [w \in Workers |-> "idle"]
  /\ outcome = [w \in Workers |-> None]
  /\ announced = {}
  /\ stream = [u \in Users |-> [job |-> None, phase |-> "off"]]
  /\ crashes = 0

-----------------------------------------------------------------------------
(* The submit handlers.                                                    *)

jobVars == <<status, owner, msg, redelivered, result, announced>>

\* submit_assessment, channel_assess: past the checks and the media uploads.
Begin(j) ==
  /\ handler[j] = "idle"
  /\ \E s \in Users \cup {Channel} : submitter' = [submitter EXCEPT ![j] = s]
  /\ handler' = [handler EXCEPT ![j] = "accepted"]
  /\ UNCHANGED <<jobVars, worker, stream, crashes>>

\* run_assessment_pipeline.apply_async
Enqueue(j) ==
  /\ handler[j] = "accepted"
  /\ handler' = [handler EXCEPT ![j] = "enqueued"]
  /\ msg' = [msg EXCEPT ![j] = "ready"]
  /\ UNCHANGED <<submitter, status, owner, redelivered, result, worker,
                 announced, stream, crashes>>

\* set_job_status(QUEUED, 0); the channel handler returns its 202 after it.
WriteQueued(j) ==
  /\ handler[j] = "enqueued"
  /\ status' = [status EXCEPT ![j] = Queued]
  /\ handler' = [handler EXCEPT ![j] = IF submitter[j] = Channel
                                       THEN "replied" ELSE "queued"]
  /\ UNCHANGED <<submitter, owner, msg, redelivered, result, worker,
                 announced, stream, crashes>>

\* set_job_owner, and the 202 that tells the client its job id.
WriteOwner(j) ==
  /\ handler[j] = "queued"
  /\ owner' = [owner EXCEPT ![j] = submitter[j]]
  /\ handler' = [handler EXCEPT ![j] = "replied"]
  /\ UNCHANGED <<submitter, status, msg, redelivered, result, worker,
                 announced, stream, crashes>>

\* Any call of the handler raises, or its API process dies: the client gets an
\* error and no job id, and what was already done stays done.
HandlerFails(j) ==
  /\ handler[j] \in {"accepted", "enqueued", "queued"}
  /\ handler' = [handler EXCEPT ![j] = "failed"]
  /\ UNCHANGED <<submitter, jobVars, worker, stream, crashes>>

-----------------------------------------------------------------------------
(* The Celery worker.                                                      *)

\* Worker w is given job j, at its first stage; or is idle.
Assign(w, j, s) ==
  /\ job' = [job EXCEPT ![w] = j]
  /\ at' = [at EXCEPT ![w] = Document]
  /\ step' = [step EXCEPT ![w] = s]
  /\ outcome' = [outcome EXCEPT ![w] = None]

\* The result backend stores a new state of a task, but never over a SUCCESS.
StoredAlways(old, new) == new                              \* faulty variant
Stored(old, new) == IF old \in Verdicts THEN old ELSE new

\* task_acks_late: a message is held, not acknowledged, while its task runs.
AckedOnReceipt == "acked"                                  \* faulty variant
OnReceipt == "held"

\* A worker takes the message of a job and records STARTED (task_track_started).
Receive(w, j) ==
  /\ step[w] = "idle"
  /\ msg[j] = "ready"
  /\ msg' = [msg EXCEPT ![j] = OnReceipt]
  /\ Assign(w, j, "set")
  /\ result' = [result EXCEPT ![j] = Stored(result[j], "STARTED")]
  /\ UNCHANGED <<handler, submitter, status, owner, redelivered, announced,
                 stream, crashes>>

\* Worker w goes on with step s of the same stage.
Goto(w, s) ==
  /\ step' = [step EXCEPT ![w] = s]
  /\ UNCHANGED <<job, at, outcome>>

\* _pub, first call: SET job:{job_id}
SetStatus(w) ==
  LET j == job[w] IN
  /\ step[w] = "set"
  /\ status' = [status EXCEPT ![j] = Pct[at[w]]]
  /\ Goto(w, "publish")
  /\ UNCHANGED <<handler, submitter, owner, msg, redelivered, result,
                 announced, stream, crashes>>

\* A run publishes every stage before it goes on to the next, "complete" before it
\* returns.
ReturnsAtFusion(s) == IF s = Fusion THEN "store" ELSE "set"     \* faulty variant
AfterBody(s) == "set"

\* stream_progress: a listener forwards the event, and returns at pct >= 100.
EndsStreamNever(pct) == pct > 100                           \* faulty variant
EndsStream(pct) == pct >= 100

\* _pub, second call: PUBLISH progress:{job_id}.  The event reaches who listens.
Publish(w) ==
  LET j == job[w]
      s == at[w]
  IN
  /\ step[w] = "publish"
  /\ announced' = announced \cup (IF s = Complete THEN {j} ELSE {})
  /\ stream' = [u \in Users |->
                  IF stream[u] = [job |-> j, phase |-> "open"] /\ EndsStream(Pct[s])
                  THEN [job |-> j, phase |-> "ended"] ELSE stream[u]]
  /\ Goto(w, IF s = Complete THEN "store" ELSE "run")
  /\ UNCHANGED <<handler, submitter, status, owner, msg, redelivered, result,
                 crashes>>

\* The stage after s.
SkipsOne(s) == s + 2                                            \* faulty variant
Backwards(s) == IF s = IdentityGraph THEN Document ELSE s + 1   \* faulty variant
NextStage(s) == s + 1

\* The body of a stage.  Fusion reads the runtime configuration and the scores of
\* the stages before it, so its verdict is any verdict.
RunStage(w) ==
  /\ step[w] = "run"
  /\ at' = [at EXCEPT ![w] = NextStage(at[w])]
  /\ step' = [step EXCEPT ![w] = AfterBody(at[w])]
  /\ \E v \in IF at[w] = Fusion THEN Verdicts ELSE {None} :
       outcome' = [outcome EXCEPT ![w] = v]
  /\ UNCHANGED <<job, handler, submitter, jobVars, stream, crashes>>

\* An exception nothing catches: a _pub that cannot reach Redis, a payload the
\* device or behavioural engine cannot read, Neo4j, the fusion.
Raise(w) ==
  /\ \/ step[w] \in {"set", "publish"}
     \/ step[w] = "run" /\ at[w] \notin Guarded
  /\ step' = [step EXCEPT ![w] = "store"]
  /\ outcome' = [outcome EXCEPT ![w] = "FAILURE"]
  /\ UNCHANGED <<job, at, handler, submitter, jobVars, stream, crashes>>

\* The forked process that runs the task dies.  Its worker lives on and stores FAILURE
\* for it; task_reject_on_worker_lost is not set, so the message is acknowledged.
\* Celery acknowledges before it stores this FAILURE.  The steps here have the order of
\* a task that returns: the worker's own death between the two is left out.
LoseProcess(w) ==
  /\ step[w] \in {"set", "publish", "run", "store"}
  /\ step' = [step EXCEPT ![w] = "store"]
  /\ outcome' = [outcome EXCEPT ![w] = "FAILURE"]
  /\ UNCHANGED <<job, at, handler, submitter, jobVars, stream, crashes>>

\* The task returns, or has raised: its outcome goes to the result backend.
StoreResult(w) ==
  LET j == job[w] IN
  /\ step[w] = "store"
  /\ result' = [result EXCEPT ![j] = Stored(result[j], outcome[w])]
  /\ Goto(w, "ack")
  /\ UNCHANGED <<handler, submitter, status, owner, msg, redelivered,
                 announced, stream, crashes>>

\* The message is acknowledged only after the result is stored.
Ack(w) ==
  /\ step[w] = "ack"
  /\ msg' = [msg EXCEPT ![job[w]] = "acked"]
  /\ Assign(w, None, "idle")
  /\ UNCHANGED <<handler, submitter, status, owner, redelivered, result,
                 announced, stream, crashes>>

\* The whole worker dies, and is restarted.  A message it had not acknowledged is
\* left to the broker.
Crash(w) ==
  /\ step[w] # "idle"
  /\ crashes < MaxCrashes
  /\ crashes' = crashes + 1
  /\ msg' = [msg EXCEPT ![job[w]] = IF @ = "held" THEN "orphaned" ELSE @]
  /\ Assign(w, None, "idle")
  /\ UNCHANGED <<handler, submitter, status, owner, redelivered, result,
                 announced, stream>>

\* The messages the broker puts back on the queue: those whose worker is gone, as
\* its visibility timeout is far longer than a run.
AlsoHeld == {"orphaned", "held"}                           \* faulty variant
Restorable == {"orphaned"}

\* The broker's visibility timeout.
Redeliver(j) ==
  /\ msg[j] \in Restorable
  /\ msg' = [msg EXCEPT ![j] = "ready"]
  /\ redelivered' = redelivered \cup {j}
  /\ UNCHANGED <<handler, submitter, status, owner, result, worker,
                 announced, stream, crashes>>

-----------------------------------------------------------------------------
(* Readers of a job.                                                       *)

\* Faulty variant: an unknown owner does not close the job.
AuthorizedOpen(u, j) ==
  \/ u \in Oversight
  \/ owner[j] \in {None, u}

\* _assert_job_owner, which guards /status, /stream and /result.
Authorized(u, j) ==
  \/ u \in Oversight
  \/ owner[j] # None /\ owner[j] = u

\* GET /stream: the reply has told the client the job id; subscribe, then listen.
OpenStream(u, j) ==
  /\ stream[u].phase # "open"
  /\ handler[j] = "replied"
  /\ Authorized(u, j)
  /\ stream' = [stream EXCEPT ![u] = [job |-> j, phase |-> "open"]]
  /\ UNCHANGED <<handler, submitter, jobVars, worker, crashes>>

\* The client disconnects, and the generator unsubscribes.
LeaveStream(u) ==
  /\ stream[u].phase = "open"
  /\ stream' = [stream EXCEPT ![u] = [job |-> None, phase |-> "off"]]
  /\ UNCHANGED <<handler, submitter, jobVars, worker, crashes>>

-----------------------------------------------------------------------------
Work(w) == SetStatus(w) \/ Publish(w) \/ RunStage(w) \/ StoreResult(w) \/ Ack(w)

\* What happens to jobs, whoever reads them.
JobStep ==
  \/ \E j \in Jobs : \/ Begin(j) \/ Enqueue(j) \/ WriteQueued(j) \/ WriteOwner(j)
                     \/ HandlerFails(j) \/ Redeliver(j)
  \/ \E w \in Workers : Work(w) \/ Raise(w) \/ LoseProcess(w) \/ Crash(w)
  \/ \E w \in Workers, j \in Jobs : Receive(w, j)

Next ==
  \/ JobStep
  \/ \E u \in Users : LeaveStream(u) \/ \E j \in Jobs : OpenStream(u, j)

(* A live worker goes on with its task (every call of a stage has a timeout *)
(* or ends), an idle worker polls the queue, and the broker restores what a *)
(* dead worker held.  Clients, failures and crashes are not fair.           *)
Fairness ==
  /\ \A w \in Workers : WF_vars(Work(w))
  /\ \A j \in Jobs : /\ WF_vars(\E w \in Workers : Receive(w, j))
                     /\ WF_vars(Redeliver(j))

SafeSpec == Init /\ [][Next]_vars
Spec     == SafeSpec /\ Fairness

-----------------------------------------------------------------------------
(* Properties.                                                             *)

\* Every variable holds a value of its kind.
TypeOK ==
  /\ handler \in [Jobs -> {"idle", "accepted", "enqueued", "queued", "replied", "failed"}]
  /\ submitter \in [Jobs -> Users \cup {Channel, None}]
  /\ status \in [Jobs -> {NoStatus, Queued} \cup {Pct[s] : s \in Stages}]
  /\ owner \in [Jobs -> Users \cup {Channel, None}]
  /\ msg \in [Jobs -> {"none", "ready", "held", "orphaned", "acked"}]
  /\ redelivered \subseteq Jobs
  /\ result \in [Jobs -> {"PENDING", "STARTED", "FAILURE"} \cup Verdicts]
  /\ job \in [Workers -> Jobs \cup {None}]
  /\ at \in [Workers -> Stages]
  /\ step \in [Workers -> {"idle", "set", "publish", "run", "store", "ack"}]
  /\ outcome \in [Workers -> Verdicts \cup {None, "FAILURE"}]
  /\ announced \subseteq Jobs
  /\ stream \in [Users -> [job : Jobs \cup {None}, phase : {"off", "open", "ended"}]]
  /\ crashes \in 0 .. MaxCrashes

\* A job that was enqueued is never lost: as long as no outcome is stored its
\* message is with the broker or with a worker that has not acknowledged it.
NoLostJob ==
  \A j \in Jobs : msg[j] = "acked" => Settled(result[j])

\* Two workers never run the same job at the same time, whatever dies: a message
\* comes back only after the worker that held it is gone.
OneRunAtATime ==
  \A v, w \in Workers : v # w /\ job[v] = job[w] => job[v] = None

\* A stored verdict never changes, although a worker that dies between storing it
\* and acknowledging the message makes the whole run happen again, perhaps under
\* another configuration and so with another verdict.
VerdictIsFinal ==
  [][\A j \in Jobs : result[j] \in Verdicts => result'[j] = result[j]]_vars

\* When a verdict can be read its "complete" event has been published: a client
\* that reads a result before the event is one that came late, never early.
CompleteBeforeVerdict ==
  \A j \in Jobs : result[j] \in Verdicts => j \in announced

\* A job is readable by analysts other than its submitter at no time, and by its
\* submitter from the moment the reply has given the job id: then the status key
\* exists too, so the client's first poll finds neither 403 nor 404.
ReadableBySubmitterOnly ==
  \A j \in Jobs :
    /\ \A u \in Users \ Oversight : Authorized(u, j) => submitter[j] = u
    /\ handler[j] = "replied" /\ submitter[j] # Channel =>
         Authorized(submitter[j], j) /\ status[j] # NoStatus

\* Once the submit handler is through, the pct a poller reads never goes back,
\* except for a job whose message had to be delivered again.
ProgressForward ==
  [][\A j \in Jobs :
       handler[j] \in {"replied", "failed"} /\ j \notin redelivered
         => status'[j] >= status[j]]_vars

\* Every job whose message reached the broker gets an outcome, in spite of crashes,
\* also when the submit handler failed right after apply_async.
EnqueuedJobSettles ==
  \A j \in Jobs : msg[j] # "none" ~> Settled(result[j])

\* A stream opened before "complete" is published does not stay open on a job that
\* gets a verdict; one that the server ends is followed by an outcome, which is
\* what the client's result loop waits for.
StreamEnds ==
  \A u \in Users, j \in Jobs :
    /\ stream[u] = [job |-> j, phase |-> "open"] /\ j \notin announced
         ~> stream[u] # [job |-> j, phase |-> "open"] \/ result[j] = "FAILURE"
    /\ stream[u] = [job |-> j, phase |-> "ended"] ~> Settled(result[j])

\* What assessment_pipeline.py:3 says of the poller: the progress it reads is that of
\* the stages, so a job with a verdict whose submit handler is through reads 100.
PollerSeesComplete ==
  \A j \in Jobs :
    msg[j] = "acked" /\ result[j] \in Verdicts /\ handler[j] = "replied"
      => status[j] = Pct[Complete]

\* The job as its clients may see it: its outcome counts from the moment it can no
\* longer change, a verdict when it is stored, a FAILURE when its message is acked.
LifeOf(r, m) == IF r \in Verdicts THEN r
                ELSE IF m = "acked" THEN "FAILURE"
                ELSE IF m = "none" THEN "unknown" ELSE "pending"

life == [j \in Jobs |-> LifeOf(result[j], msg[j])]

Lifecycle == INSTANCE JobLifecycle WITH Outcomes <- Verdicts \cup {"FAILURE"}

\* The pipeline implements the life cycle of a job, its liveness included.
ImplementsLifecycle == Lifecycle!Spec
=============================================================================
