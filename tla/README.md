# TrustLayer: a verification development in TLA+

TrustLayer decides identity checks. A client submits an applicant; a Celery
worker runs five analyses one after the other (document, biometric, device,
behaviour, identity graph), fuses their scores and flags into a decision, and the
client follows the run through Redis and reads the result. The modules here model
that service from its source; TLC checks them on small instances and TLAPS proves
what matters most for every instance.

## 1. Inventory

| Component | State | Operations | Talks to |
|---|---|---|---|
| Assessment API (`backend/routers/assessment.py`) | none of its own | submit, status, stream, result, owner check | Redis keys and pub/sub, broker, result backend |
| Pipeline task (`backend/tasks/assessment_pipeline.py`) | local to a run | one run: 5 stages, fusion, explanation, `_pub` before each | Redis, ML service, Neo4j, Gemini |
| Job state (`backend/storage/redis_client.py`) | `job:{id}`, `job_owner:{id}`, channel `progress:{id}`, `rl:{id}` | set, get, publish, rate limit | written by the API and the workers |
| Celery broker and result backend | messages, results | deliver, redeliver, store | external |
| Identity graph (`backend/graph/neo4j_client.py`, `backend/engines/identity_graph.py`) | nodes and relationships | upsert, three queries, ego graph, clear | one graph shared by every run |
| Fusion (`backend/engines/fusion.py`) | none | `fuse` | called by the task |
| Runtime configuration (`backend/routers/admin.py`) | `runtime_config` | load, update | written by administrators, read by each run |
| Scoring engines | none | score and flags of a stage | called by the task |
| ML service (`ml-service/`) | the models in memory, the weight files on disk | start, `analyse_document`, `analyse_biometric` | called by the task |
| Channel API (`backend/routers/channel.py`) | background webhook pollers | submit, webhook | broker, result backend, the partner |
| Media store (`backend/storage/minio_client.py`) | client, bucket and its rule, objects | upload, get, delete, purge | called by submit, from executor threads |
| Audit log (`backend/routers/audit.py`) | table `auditentry` | list, verify | nothing in the repository appends to it |
| Sessions (`backend/routers/auth.py`, `backend/security/auth.py`, `frontend/src/api/client.ts`) | tokens | login, refresh | every request |
| Web client (`frontend/src/api/client.ts`) | the result loop | stream, poll, time out | the assessment API |

What is hard: the submit handler keeps writing to Redis after the worker has
started; a worker may die at any point and the run is then repeated; "complete" is
announced before the result is stored; runs write to and query one graph at the same
time while it may be cleared; administrators change the configuration with an
await between load and save while runs read it; event streams end only on an event;
the web client races a stream, polls that overlap, the loops they start and a timeout for
one answer, and its session may end meanwhile; upload
threads share a client that is set before its bucket exists; the ML service keeps what
it could load at some moment, a failure too.
`PROJECT.json` lists each hazard at its line with the properties that cover it.

What makes each part correct: an enqueued job is run, one worker at a time, until it
has an outcome that never changes; only its submitter and oversight can read it; the
progress shown does not go back; of two runs with the same recorded email, phone,
address or device at least one says so, and nobody is called a duplicate who is not; hard
fails prevail over scores and a worse case never comes out better; the verdict a page
shows is the stored one, and its wait ends with nothing left running; no user gets past
the rate limit and images do not outlive their retention; a mistyped number and a still
video are noticed. Where the code does not keep such a promise, a run shows it (section 4).

## 2. Modules

| Module | What it is |
|---|---|
| `JobLifecycle` | abstract: a job is accepted, and settled once and for good |
| `AssessmentPipeline` | submit handlers, broker, workers, Redis, streams; implements `JobLifecycle` |
| `IdentityGraph` | the graph under concurrent, failing and repeated runs and resets |
| `Fusion` | `fuse` and what it calls, as operators |
| `StageScores` | the results each stage can hand to `fuse`, as operators |
| `Scoring` | configuration updates and decisions under them; extends `Fusion` |
| `ResultClients` | who waits for a job: the web client and the webhook poller; composed with `AssessmentPipeline` |
| `RateLimiter` | the counter with its time to live |
| `MediaStore` | upload threads, MinIO's bucket and its purge rule |
| `Submission` | requests that pass the limiter and upload their images; composes the two |
| `DocumentChecks`, `BiometricChecks` | what the ML service computes, as operators |
| `MLService` | its models, weight files and requests; extends the two, and `StageScores` |
| `MCAssessmentPipeline`, `MCIdentityGraph`, `MCScoring`, `MCSubmission`, `MCMLService` | instances for TLC |
| `...Proofs`, one for each of the six specifications that TLC runs | theorems and proofs |
| `ChecksProofs`, `IdentityGraphRingProofs` | lemmas about the ML service's operators; the theorem about rings |

`Submission` ends where `AssessmentPipeline` begins (the job is enqueued), and
`ResultClients` extends `AssessmentPipeline` with the clients of its results. Operators
named *faulty variant* are used by no specification: they are the bugs each property was
tried against, listed in `PROJECT.json` under `mutants`.

### AssessmentPipeline

One step per Redis or broker call. `Begin`, `Enqueue`, `WriteQueued`, `WriteOwner`
are `submit_assessment` (59-100) in its order; `channel_assess` is the same without
an owner. `HandlerFails` is an exception at any of them: what was done stays. A
worker alternates `SetStatus` and `Publish` (the two calls of `_pub`) with `RunStage`
(the body of the stage), then `StoreResult` and `Ack`. `Raise` is an exception that
the code does not catch; the document and biometric stages catch theirs (`Guarded`).
`LoseProcess` is the death of the forked process that runs a task, for which its
worker stores FAILURE; `Crash` is the death of the whole worker, which leaves an
unacknowledged message to `Redeliver`. `OpenStream` and
`LeaveStream` are `stream_progress`, which ends inside `Publish` because the event
and its delivery to the listeners are one command. `Authorized` is
`_assert_job_owner`.

The verdict of a run is any verdict: it depends on the scores and on the
configuration read at the fusion stage, which differ when the run is repeated. Scores
are the business of `Scoring`.

Celery and the broker are external, and modelled from the settings in the task module:
`task_acks_late` (a message is acknowledged after its task), `task_track_started`,
and the defaults for the rest: no `task_reject_on_worker_lost`; a visibility timeout
(one hour) far longer than a run, so that a message returns only when its worker is
gone; a result backend that never replaces a SUCCESS. One step of Celery is simplified: when
the forked process is lost, the worker acknowledges the message first and stores FAILURE
then, while `LoseProcess` leads to `StoreResult` and `Ack` in the order of a task that
returns. If the worker itself died between these two calls, the job would have no outcome
and no message; `NoLostJob` and `EnqueuedJobSettles` do not speak of that moment. Keys do not expire within a
behaviour (they live one hour and one day, a run takes seconds).

What a client may count on is `life`, the job as `JobLifecycle` sees it: a verdict
counts when it is stored; a FAILURE counts when the message is acknowledged, because
a worker that dies in between makes the run happen again, and it may then succeed.

### IdentityGraph

A run is `Start`, a `MergeEdge` for each recorded value in the order of
`upsert_applicant`, `CheckDuplicate`, `FindShared`, `DetectRings` and `Report`. Every
query commits on its own. `init_schema` makes every identifying value unique before
the API serves requests, so MERGE finds or creates one node; Applicant nodes without
relationships are matched by no query and left out. `Fail` is a query that raises.
`Rerun` is a redelivered job: the applicant id is part of the message, so the run finds
its own earlier writes. `ClearGraph` is the reset of the admin page. `wiped` only
records which runs lost relationships to a reset, and `forgotten` which had ended before
one, for the properties.

`Recorded` says what a run writes. Empty fields and private addresses are left out, as
the code does it, and the device of an applicant in `Web`: the web client calls it
`device_fingerprint`, the run asks for `fingerprint`. `NoMutualMiss` is about recorded
values and so promises nothing about the devices of web applicants; `SharedDeviceIsSeen`,
which does, is violated. Every email is recorded: two comments (`neo4j_client.py:32`
"don't link on these", 124 "non-public-domain only") say that addresses at public
providers are not linked, but the function that knows the providers has no caller, and at
that point the code only has the hash of an address. Since the hash is of the whole
address, `NoFalseDuplicate` is not affected.

### Fusion, StageScores, Scoring

Numbers are exact integers: scores in hundredths, weights in hundredths, trust
scores in ten-thousandths. Floating-point error and the rounding of the reported score
are not modelled, with one exception: at a sum of exactly 0.99 or 1.01 the error decides
whether the weights of an update pass, and the model allows both. An update names known
weights and thresholds, with numbers. Measurements of the ML service are per cent, in whole numbers.
`StageScores` gives scores and flags as a function of the conditions
a stage finds to hold; TLC feeds `fuse` only with results built by it. `Scoring` has
the two steps of `update_config` around its await, with the check of the weights as the
code makes it, and `Fuse`, which reads the configuration once, or falls back on the
defaults when Redis does not answer.

### ResultClients

`StartWait` is `waitForResult` (`client.ts:203`), with the stream open and the interval
set. `Connect`, `StreamDone` and `Disconnect` are the `EventSource`; `StreamDone` may
happen at any moment, because `onerror` and the last event take the same path. `Ask`,
`PollAnswered` and `PollFails` are a run of the interval's callback, with its await in the
middle. The interval fires every two seconds whether or not its last poll has been
answered, so several runs of the callback may be under way; the constant `InFlight` bounds
how many, for TLC and for nothing else. Each that reads a pct of 100, also after the
interval was cleared, starts a loop of its own that fetches the result, and `onDone` of the
stream (`OnDone`) starts another: `tries` has what each has left. The loops go on after the
promise is settled; `Finish` is the function `finish`.

`SignOut` is a token that expires or is refused: `_authedFetch` drops it and throws, and no
code renews it, so that from then on each poll and each loop fails until the user logs in
again (`SignIn`). `App.tsx:44` only swaps what is shown, nothing is reloaded, so the interval
and the loops outlive the login. A stream that is open already does not
need the token. `HookPoll`, `HookPost` and `HookDies` are `_fire_webhook_when_done`, a task
of the API process that dies with it.

### RateLimiter, MediaStore, Submission

The counter is `INCR` and `EXPIRE` in one transaction; time passes by `Tick`. An upload
thread is a program counter (`call`) over the test and the assignment of `_client`, the
calls of `_get_client` and `put_object`; the client is shared by the threads of a process,
the bucket by all of them. `CallFails` is a call without an answer, with or without its
effect, and `Restart` a process that dies with its requests. Two variables only serve
properties: `early` records the requests that began to upload before there was a bucket,
and `ruleLost` that a failure hit the very thread which had made the bucket, before it set
the rule.

That failure is one the code does not survive. `README.md:28`, `minio_client.py:1`,
`assessment.py:72` and `OnboardingForm.tsx:253` promise that images are purged after a day;
if the process dies, or MinIO does not answer, between `make_bucket` and
`set_bucket_lifecycle`, every later process finds the bucket and none sets the rule, and
images stay for good. `RuleOrCreator` and `MediaPurged` say that this is the only way to
lose the rule: no other failure, of whatever call, process or moment, does it.

### DocumentChecks, BiometricChecks, MLService

An image is a record of what the libraries find in it (lines of text and the patterns
they match, EXIF conditions, error level, keypoints, noise), media are a record of what
the detectors and networks answer; everything the service's own code computes from that
is modelled: the extraction of the fields, the Verhoeff checksum and the formats, the
comparison with the form, the scores, the choice and weighting of frames, and every
fallback. `MLService` is the process: `Start` loads what it can, each request loads what
it misses, each load may fail, `Download` may bring a weight file at any moment, and
`Stop` forgets it all. The deepfake network may have random weights, some or all of them,
because its file is missing or, since the file is loaded with `strict=False`, does not fit;
its answers are arbitrary then, and `NoFakeFromRealFrames` leaves the case out. Handlers never await, so a request is one step. `lru_cache`
keeps one value by the arguments of the call, which is why the OCR engine made at start
is not the one `run_ocr` uses, and a failed face model stays failed (`FaceApps`).

## 3. Runs

| Run | Instance | Shows |
|---|---|---|
| `Pipeline` | 1 job, 2 workers, 3 users (one of oversight), 2 crashes | no lost job, one run at a time, one verdict, order of event and result, access, progress, liveness, `ImplementsLifecycle` |
| `PipelineStatus` | 1 job, 1 worker, no crash | violated: QUEUED overwrites "complete" |
| `ResultClients` | 1 job, 1 worker, 1 crash, 2 callbacks in flight, 2 tries, 3 polls of the webhook | the page shows the stored verdict; nothing left open, nothing that waits for its timeout alone; waits, loops and webhooks end |
| `ClientFallback` | 1 job, no crash, 2 tries | violated: a broken stream gives a running job up |
| `Submission` | 4 requests of 1 user, 2 with images, 2 processes, limit 2, window 2, 1 fault | the limit in every window, who is refused, the race of the first uploads, the purge |
| `GraphSafety` | 3 applicants, one of them from the web client, ring size 3, 1 reset, 1 repeated run | `NoMutualMiss`, `NoFalseDuplicate`, `RingHasFlaggedMember`, `ForgetsFinishedRuns` |
| `GraphDevice` | 3 web applicants, no reset, no repeated run | violated: a device two applicants share is not noticed |
| `ScoringSafety` | 2 runs, 1 update, 3 x 3 x 2 x 2 x 4 stage results | `HardFailDecides`, `WorseNeverFavoured` |
| `ScoringWeights` | 2 updates | violated: stored weights need not sum to 1 |
| `MLService` | an Aadhaar number with every slip, cards of 3 kinds, 15 pictures, 7 videos, forgeries; 1 network of MiniFASNet | `TypoIsCaught`, `StillVideoFails`, `NoFakeFromRealFrames`, `WorseImageNeverScoresHigher` |
| `MLMismatch` | genuine cards | violated: a card that carries the form's data raises a mismatch |
| `MLRandom` | the media of `MLService` | violated: without weights more than the artifact score calls a selfie a deepfake |

Bounds. One job on two workers gives every way in which two runs of a job can overlap, and
the second crash lets a repeated run be repeated; jobs share nothing but workers, and the
theorems cover any number of them. Three applicants are the smallest ring
(`ring_min_size` is 3) and give every pairwise interleaving; their profiles share one
value per pair, so that a link missed in one place is not made up for in another. One
reset and one repeated run suffice to fall between any two queries. Two runs are what
`WorseNeverFavoured` compares. In `ResultClients` one job is enough, since clients of
different jobs share nothing but the session; two callbacks in flight and the stream's
`onDone` make three loops that can race, with two tries a loop has one that is not its
last, and one crash lets a job be run again while its client waits. The safety properties
are proved for any number of callbacks and tries. In `Submission` four
requests pass a limit of two twice over, and their last call can fall on either side of
a window that begins at any moment; two requests in two processes (or in one) are the
smallest race for the bucket, one of them has two images, and one fault can fall on any call. In
`MLService` the slips take two other digits at each place and every swap of neighbours;
seven videos stand on both sides of each threshold, and one is long enough to lose its
end to the sampling. `MaxCrashes`, `MaxClears`, `MaxReruns`, `MaxTime` and `MaxFaults`
are the counters that only bound behaviours (`Tries`, `MaxPolls`, `Limit` and `Window` are
the code's own, made smaller); the number of jobs, applicants and updates bounds the rest. Every run has
finitely many jobs, so a state in which all of them are done is no deadlock, and the
configurations say `CHECK_DEADLOCK FALSE`.

Fairness (`Pipeline`). A live worker goes on: every external call of a stage has a
timeout or ends, which the code sees to with `ml_timeout_seconds` and the drivers'
defaults. Some idle worker takes a ready message, because workers poll. The broker
restores the message of a dead worker when its visibility timeout is over. Nothing is
assumed of clients, of failures or of crashes.

Fairness (`ResultClients`). The interval of a user who is signed in fires; of infinitely many
polls that were sent with a token not every one fails (strong fairness of `PollAnswered`: a
poll is sent only with a token, and one that is already on its way may be answered after
the session has ended); a request of a loop ends one way or the other; the API process goes
on with its background tasks. Nothing is assumed of the pipeline, of the stream, of the
timeout or of sessions, so `NoticesTheEnd` holds without them, and says what it must of
sessions: when one ends before a poll has found the job complete, only a new login or the
timeout ends the wait.

Fairness (`Submission`). A thread goes on with its upload, and MinIO applies a rule that a
bucket has.

`StreamEnds` says less than one would like, and exactly what the code gives: a stream
opened before "complete" ends when its job gets a verdict. One opened later, or on a
job that failed, stays open until the client leaves.

## 4. What the violated runs say

- `assessment.py:91` writes QUEUED after the message is on the queue. A fast worker's
  progress, even "complete", is overwritten, and a poller of `/status` reads 0 for
  good. `ProgressForward`, which holds, says that this window ends with the handler.
- `admin.py:62` checks the sum of the weights in the request, not of those in force.
  `ConsoleKeepsTheSum` proves that this suffices while every update names all the weights
  or none, as those of the admin page do.
- `client.ts:181`: `onerror` takes the path of the last event, which clears the poll
  interval. The comment at `client.ts:257` calls polling the fallback for a broken stream;
  instead the client asks for the result twenty times, a second apart, and gives up.
- `OnboardingForm.tsx:201` sends the date of birth as YYYY-MM-DD, `ocr.py` reads DD/MM/YYYY
  from the card, and the comparison only strips the separators: the same date is a mismatch.
  Every passport raises FIELD_MISMATCH:name as well: `ocr.py:135` returns the name of the
  machine readable zone, surname first and joined with a slash.
- `assessment_pipeline.py:195` reads the device as `fingerprint`, `client.ts:107` sends it as
  `device_fingerprint`: no web applicant has a device in the graph, and SHARED_DEVICE and
  the rings by device that `DemoControl.tsx:40` shows off never come from the web client.
- `deepfake.py:74`: without its weight file the deepfake network answers from random weights,
  and a reply based on them has no error; `download_models.sh:56` says that the service
  then goes by artifacts only. The answer may reject an applicant.

Met while modelling, and not the subject of a run:

- `document_forensics.py:156` matches the descriptors with themselves, so that each is its
  own nearest neighbour (of equal ones the first is everybody's) and is dropped as a
  self-match, against the docstring at 135. `CopiesGoUnseen` and `NoCopyIsReported` prove
  that no image has a suspicious match and no reply the flag.
- The comments of `neo4j_client.py` on public email domains (section 2), and the window
  in which the purge rule is lost (section 2).
- A client that calls at least once a minute and has passed the limit is never let in
  again, however slowly it calls: refused calls renew the counter's time to live
  (`redis_client.py:36`). `LetInAfterPause` says what is left.
- FACE_MISMATCH and ID_CHECKSUM_FAIL are CRITICAL and in neither hard-fail set
  (`fusion.py:12`), so a case with one of them can be approved on its score, with the text
  of `gemini.py:40` that no risk signal was found.
- A run in flight during `clear_graph` writes the rest of its applicant back, and later
  submissions match it. `ForgetsFinishedRuns` says what is forgotten.
- The ring query follows three shared entities at most (`neo4j_client.py:197`);
  its docstring speaks of the connected component. With `ring_min_size` 5 or more a chain
  of five applicants, each sharing a value with the next, can leave nobody flagged.
- `main.py:1` says that all models are loaded at startup: MiniFASNet is loaded at first
  use, and the OCR engine is made a second time.
- `deepfake.py:12-14` asks that its probability be treated as a signal for human review;
  `fusion.py` rejects on it.
- `channel_assess` returns a `poll_url` that answers 403 to the channel, because no owner
  is recorded; `ReadableBySubmitterOnly` has the case.
- A job that ends with FAILURE stops at the pct it had: the page learns of it by its
  timeout or a broken stream, and a webhook is not called.

## 5. Proofs

Each theorem holds for all values of the constants under the named assumptions of its
module (which TLC evaluates in every run). The proofs follow one pattern: an inductive
invariant, checked by TLC while it was found, one step per action, and the temporal
step by PTL.

- `AssessmentPipelineProofs`. `IInv` joins the type invariant with `RunInv` (a message
  is held exactly while a worker has its job; what step, stage and outcome of a worker
  say of each other; a verdict in hand means "complete" was announced; before `Ack` an
  outcome is stored) and `AccessInv` (how far the handler is bounds what the keys
  hold). Without the first, `OneRunAtATime` and `NoLostJob` are not inductive: nothing
  else relates messages to workers. `ProgressGoesForward` adds `ProgressInv`: a job
  delivered once has a status no greater than the stage its worker is about to
  publish. `Implementation` maps each step to a step of `JobLifecycle` or a stutter.
- `IdentityGraphProofs`. The invariant says that relationships only come from profiles,
  that a run which has passed a kind has written it (unless wiped), and that a run past
  a query has seen whoever wrote before it. `MutualDetection` follows because, of two
  runs, the one that looked later looked after the other's write. `ResetForgets` rests on
  `ForgottenInv`: who had ended before a reset has no relationship until it is run again.
- `IdentityGraphRingProofs`. `RingSeen`: of a connected component whose runs have all
  passed the ring query, untouched by resets, one was flagged by it. The last run to look
  looked when every relationship of the component was written. From any member, three hops
  either cover the component or find three others (`SeesEnough`); hence the hypothesis
  `MinSize <= 4` (the code has 3). A component is handled as the least set closed under
  sharing, so that no induction over paths is needed.
- `ScoringProofs`. The lemmas show that the weighted sum, the penalty, the clipping and
  the thresholds are each monotone; `FuseMonotone` combines them, and
  `VerdictsAreMonotone` carries that over to all decisions taken. `ConsoleKeepsTheSum` is
  the property that `ScoringWeights` violates, under the hypothesis that updates are
  `Whole`: the configuration an administrator loaded, however old, sums to one too.
- `ResultClientsProofs`. `ClientsLeaveThePipeline` shows that each step of the composition is
  a step of the pipeline or a stutter, which brings the pipeline's theorems along.
  `ClientIInv` joins types with: before a wait nothing of it is open, after it nothing is,
  each loop, of however many, excludes the interval, a poller that posts has seen a verdict,
  and a wait has its stream and its interval or one of the loops (`WaitsGoOn`). The number
  of callbacks in flight is a constant of the theorems.
  `ShownVerdictsAreFinal` needs `VerdictsAreFinal` of the pipeline for every step.
- `SubmissionProofs`. `LimiterInv` relates the counter to the calls: while a counter lives,
  it is at least the number of requests let in during the last window, because each of
  them renewed it; so whoever is let in makes no window exceed the limit. The bare count
  is not inductive without the times of the calls. The upload part says that a request
  which found the bucket never tries to make it, and that who made it sets the rule next or
  was lost (`RuleIsOnItsWay`, for any number of failures).
- `ChecksProofs`. The loops of the checks are recursive functions; a loop's run is shown to
  exist and to be unique by the least pass at which it fails, because induction over a
  predicate is out of the prover's reach. Then: the first term of the Verhoeff sum is a group
  operation and the second a permutation, so that one wrong digit (`WrongDigitDetected`) or
  two neighbours swapped (`SwappedDigitsDetected`) in a number that passes make one that
  fails, whatever its length. `TotalAtMost` bounds the sum of a list by the bound on its terms.
- `MLServiceProofs`. Case by case over the requests, with the lemmas of
  `ChecksProofs`. `TyposAreCaught` holds for every form, `StillVideosFail`
  with MediaPipe or without (the sum of differences of equal frames is 0), and
  `RealFramesAreReal` bounds a weighted mean for any number of frames. For
  `WorseImagesScoreNoHigher` each measurement, the set of flags and hence what is taken off
  the score only grow with the image's defects. `CopiesGoUnseen` is
  a statement about all keypoints, and `NoCopyIsReported` that no reply ever has the flag.

Only model-checked: the liveness properties (`EnqueuedJobSettles`, `StreamEnds`,
`MediaPurged`, `NoticesTheEnd`, `ComesToRest`, `WebhookEnds`) and the liveness part of
`ImplementsLifecycle`, because fairness and `ENABLED` are outside the prover's reach, and
the violated runs. Every safety property of a passing run is proved;
`RingHasFlaggedMember` for ring sizes up to four.

## 6. Not modelled

- Image processing, neural networks and text generation: the libraries' work. What the
  code does with their answers is modelled, except for the explanations, which decide nothing.
- The server's side of sessions: tokens are signed and expire by themselves; the server
  keeps nothing. What their end means for a waiting client is in `ResultClients`.
- The audit log: nothing appends to it, and verification checks each record by itself.
- `get_media`, `delete_media`, `purge_expired_media`: they have no caller.
- The measurements of the device and behaviour engines; `StageScores` has what they are
  made into.
- The expiry of job keys, Celery's prefetch, a restart of Redis.
- Pages, cryptography, the registry of reason codes that no code uses, the database
  schema that no handler writes, metrics, the graph router, simulators, seed data and
  deployment files.
- Two administrators who update at once: the steps are modelled in `Scoring`, but nothing
  in the repository says what the outcome should be.
