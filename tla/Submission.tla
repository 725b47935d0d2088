----------------------------- MODULE Submission -----------------------------
(***************************************************************************)
(* The first half of submit_assessment (backend/routers/assessment.py): a  *)
(* request is counted by the rate limiter, then its document and its       *)
(* selfie are uploaded one after the other; only then is the job enqueued, *)
(* which is where AssessmentPipeline begins.                               *)
(*                                                                         *)
(* Requests run at the same time, in several API processes.  A call to     *)
(* Redis or MinIO may fail, with or without having had its effect, and a   *)
(* process may die.                                                        *)
(***************************************************************************)
EXTENDS RateLimiter, MediaStore, FiniteSets

CONSTANTS
  From,       \* the user who sends each request
  Carried,    \* the images it carries
  MaxFaults   \* how many calls fail or processes die in a behaviour

ASSUME RequestsAssumption ==
  /\ From \in [Requests -> Users]
  /\ Carried \in [Requests -> SUBSET Media]
  /\ IsFiniteSet(Requests)
  /\ MaxFaults \in Nat

VARIABLES
  phase,      \* new, refused, uploading the document or the selfie, accepted, failed
  called,     \* when the limiter was asked
  letIn,      \* the requests that it allowed
  early,      \* the requests that began to upload before there was a bucket
  faults,     \* failures so far
  ruleLost    \* whether one of them hit the thread that had made the bucket before the
              \* rule was set

failureVars == <<faults, ruleLost>>
requestVars == <<phase, called, letIn, early>>
vars == <<limiterVars, storeVars, requestVars, failureVars>>

Init ==
  /\ LimiterInit
  /\ StoreInit
  /\ phase = [r \in Requests |-> "new"]
  /\ called = [r \in Requests |-> 0]
  /\ letIn = {}
  /\ early = {}
  /\ faults = 0
  /\ ruleLost = FALSE

\* What r does when it has done what stands before the images in rest.
Proceed(r, rest) ==
  LET next == IF rest = {} THEN "accepted"
              ELSE IF "document" \in rest THEN "document" ELSE "selfie"
  IN /\ phase' = [phase EXCEPT ![r] = next]
     /\ Goes(r, IF next = "accepted" THEN "none" ELSE "client")

\* A request that carries images is served by any of the processes.
Placed(r) ==
  \E p \in IF Carried[r] = {} THEN {place[r]} ELSE Processes :
    place' = [place EXCEPT ![r] = p]

\* rate_limit_check answers; a refused request gets a 429.
Ask(r) ==
  LET u == From[r] IN
  /\ phase[r] = "new"
  /\ Count(u)
  /\ called' = [called EXCEPT ![r] = now]
  /\ IF Allowed(u)
     THEN /\ letIn' = letIn \cup {r}
          /\ Proceed(r, Carried[r])
          /\ Placed(r)
          /\ early' = IF bucket \/ Carried[r] = {} THEN early ELSE early \cup {r}
     ELSE /\ phase' = [phase EXCEPT ![r] = "refused"]
          /\ UNCHANGED <<letIn, early, call, place>>
  /\ UNCHANGED <<client, bucket, lifecycle, stored, failureVars>>

\* A call of the upload that does not end it.
Uploading(r) ==
  /\ Prepare(r)
  /\ UNCHANGED <<limiterVars, requestVars, failureVars>>

\* put_object returns, and with it the upload of an image.
Uploaded(r) ==
  /\ PutObject(r, phase[r])
  /\ Proceed(r, IF phase[r] = "document" THEN Carried[r] \ {"document"} ELSE {})
  /\ UNCHANGED <<limiterVars, called, letIn, early, failureVars>>

Fail(r) ==
  /\ phase' = [phase EXCEPT ![r] = "failed"]
  /\ Goes(r, "none")
  /\ UNCHANGED <<letIn, early, client, place>>

\* MinIO refuses a call: the exception leaves the handler, which answers 500.
UploadFails(r) ==
  /\ Rejected(r)
  /\ Fail(r)
  /\ UNCHANGED <<limiterVars, called, bucket, lifecycle, stored, failureVars>>

\* A call of r gets no answer, whether it had its effect or not.
CallFails(r) ==
  /\ faults < MaxFaults
  /\ faults' = faults + 1
  /\ Fail(r)
  /\ \/ /\ phase[r] = "new"
        /\ Count(From[r]) \/ UNCHANGED limiterVars
        /\ called' = [called EXCEPT ![r] = now]
        /\ UNCHANGED <<bucket, lifecycle, stored, ruleLost>>
     \/ /\ phase[r] \in Media /\ call[r] \in MinioCalls
        /\ bucket' \in {bucket, bucket \/ call[r] = "make"}
        /\ lifecycle' \in {lifecycle, lifecycle \/ call[r] = "rule"}
        /\ stored' \in {stored, IF call[r] = "put" /\ bucket
                                THEN stored \cup {<<r, phase[r]>>} ELSE stored}
        /\ ruleLost' = \/ ruleLost
                       \/ bucket # bucket'
                       \/ call[r] = "rule" /\ ~lifecycle'
        /\ UNCHANGED <<limiterVars, called>>

\* A process dies, with the requests it serves, and is started again.
Restart(p) ==
  /\ faults < MaxFaults
  /\ faults' = faults + 1
  /\ client' = client \ {p}
  /\ phase' = [r \in Requests |-> IF place[r] = p /\ phase[r] \in Media THEN "failed"
                                  ELSE phase[r]]
  /\ call' = [r \in Requests |-> IF place[r] = p THEN "none" ELSE call[r]]
  /\ ruleLost' = (ruleLost \/ \E r \in Requests : place[r] = p /\ call[r] = "rule")
  /\ UNCHANGED <<limiterVars, bucket, lifecycle, stored, place, called, letIn, early>>

PurgeObject ==
  /\ \E o \in stored : Purge(o)
  /\ UNCHANGED <<limiterVars, requestVars, failureVars>>

Next ==
  \/ Tick /\ UNCHANGED <<storeVars, requestVars, failureVars>>
  \/ \E r \in Requests : \/ Ask(r) \/ Uploading(r) \/ Uploaded(r) \/ UploadFails(r)
                         \/ CallFails(r)
  \/ \E p \in Processes : Restart(p)
  \/ PurgeObject

\* A thread goes on with its upload, and MinIO applies a rule it has.
Fairness ==
  /\ \A r \in Requests : WF_vars(Uploading(r) \/ Uploaded(r) \/ UploadFails(r))
  /\ WF_vars(PurgeObject)

SafeSpec == Init /\ [][Next]_vars
Spec == SafeSpec /\ Fairness

-----------------------------------------------------------------------------
(* Properties.                                                             *)

\* Every variable holds a value of its kind; a thread uploads while its request is at
\* an image and at no other time.
SubmissionTypeOK ==
  /\ now \in 0 .. MaxTime
  /\ hits \in [Users -> Nat]
  /\ expires \in [Users -> 0 .. MaxTime + Window]
  /\ client \subseteq Processes
  /\ bucket \in BOOLEAN /\ lifecycle \in BOOLEAN
  /\ stored \subseteq Requests \X Media
  /\ place \in [Requests -> Processes]
  /\ call \in [Requests -> {"none", "client", "connect"} \cup MinioCalls]
  /\ phase \in [Requests -> Media \cup {"new", "refused", "accepted", "failed"}]
  /\ called \in [Requests -> 0 .. MaxTime]
  /\ letIn \subseteq Requests /\ early \subseteq Requests
  /\ faults \in 0 .. MaxFaults
  /\ ruleLost \in BOOLEAN
  /\ \A r \in Requests : call[r] = "none" <=> phase[r] \notin Media

\* The calls that user u made from time s on, before time t.
Calls(u, s, t) ==
  {r \in Requests : /\ From[r] = u /\ phase[r] # "new"
                    /\ s <= called[r] /\ called[r] < t}

\* Whenever one starts to count, no user is let in more often than the limit within
\* a minute; there is no boundary between two minutes at which to start afresh.
LimitPerWindow ==
  \A u \in Users, t \in 0 .. MaxTime :
    Cardinality(Calls(u, t, t + Window) \cap letIn) <= Limit

\* Who has not called for a minute is let in: only a user who called less than a
\* minute before is refused ("try again in a minute", auth.py:31).
LetInAfterPause ==
  \A r \in Requests :
    phase[r] = "refused" =>
      Calls(From[r], called[r] - Window + 1, called[r] + 1) # {r}

\* As long as every call is answered and no process dies, an upload only fails if it
\* began before there was a bucket: the race of the first uses is over for good then.
FirstUseOnly ==
  faults = 0 => \A r \in Requests : phase[r] = "failed" => r \in early

\* A bucket without the rule that purges it has a thread that is about to set the rule,
\* however many raced: unless that very thread was lost between the two calls.  No other
\* failure, of whatever request or process, costs the rule.
RuleOrCreator ==
  bucket /\ ~lifecycle => ruleLost \/ \E r \in Requests : call[r] = "rule"

\* What is uploaded is purged (assessment.py:72), also the image of a request that failed
\* later and never became a job, with the same exception: no code sets the rule on a
\* bucket that exists, so one failure at that point keeps every image there ever will be.
MediaPurged ==
  \A r \in Requests : \A m \in Carried[r] :
    <<r, m>> \in stored ~> <<r, m>> \notin stored \/ ruleLost
=============================================================================
