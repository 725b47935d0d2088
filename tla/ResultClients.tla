---------------------------- MODULE ResultClients ----------------------------
(***************************************************************************)
(* Those who wait for the outcome of a job: the web client's               *)
(* waitForResult (frontend/src/api/client.ts), which races an event        *)
(* stream, a poll and a timeout; and the webhook poller of the channel API *)
(* (_fire_webhook_when_done in backend/routers/channel.py).  They are      *)
(* composed with the pipeline of AssessmentPipeline.                       *)
(*                                                                         *)
(* Any request may fail, any stream may break, a session may expire and    *)
(* time may run out at any moment.  The interval fires whether or not its  *)
(* last poll has been answered, so several polls, and several loops that   *)
(* fetch the result, can be under way at once; what runs in the browser    *)
(* after the promise is settled is part of the model.                      *)
(***************************************************************************)
EXTENDS AssessmentPipeline

CONSTANTS
  Tries,      \* how often a loop of waitForResult asks for the result: 20
  InFlight,   \* how many runs of its interval callback are under way at once
  MaxPolls    \* how often the webhook poller does: 120

ASSUME TriesAssumption ==
  Tries \in Nat \ {0} /\ MaxPolls \in Nat \ {0} /\ InFlight \in Nat \ {0}

\* The runs of the interval callback, each of which can end in a loop that fetches the
\* result, and the run of onDone, which does.
Callbacks == 1 .. InFlight
OnDone == 0
Loops == Callbacks \cup {OnDone}

Errors == {"not available", "failed", "timed out"}
Idle == {"off", "polling", "done", "gone"}     \* a webhook poller with nothing to send

ASSUME AnswersAssumption == Verdicts \cap ({"none", "waiting"} \cup Errors \cup Idle) = {}

VARIABLES
  answer,     \* what waitForResult has come to, for each job
  source,     \* the jobs whose EventSource is open
  polling,    \* the jobs whose poll interval is set
  asked,      \* the callbacks, <<job, callback>>, that await the answer of a poll
  tries,      \* how often each loop will still ask; 0 when it does not run
  signedIn,   \* the users whose browser holds a token that is valid
  hook,       \* the webhook poller of each job: off, polling, done, gone, or the
              \* verdict it is about to send
  polls,      \* how often it will still ask
  posted      \* the verdict it sent

waitVars == <<answer, source, polling, asked, tries>>
clientVars == <<waitVars, signedIn>>
hookVars == <<hook, polls, posted>>
allVars == <<vars, clientVars, hookVars>>

ClientInit ==
  /\ answer = [j \in Jobs |-> "none"]
  /\ source = {}
  /\ polling = {}
  /\ asked = {}
  /\ tries = [t \in Jobs \X Loops |-> 0]
  /\ signedIn = Users
  /\ hook = [j \in Jobs |-> "off"]
  /\ polls = [j \in Jobs |-> 0]
  /\ posted = [j \in Jobs |-> None]

-----------------------------------------------------------------------------
(* waitForResult.                                                          *)

\* A token expires, or some request gets a 401: _authedFetch drops the token, and
\* nothing renews it but the user, who logs in again.
SignOut(u) ==
  /\ signedIn' = signedIn \ {u}
  /\ u \in signedIn
  /\ UNCHANGED <<waitVars, hookVars, vars>>

SignIn(u) ==
  /\ u \notin signedIn
  /\ signedIn' = signedIn \cup {u}
  /\ UNCHANGED <<waitVars, hookVars, vars>>

\* The submitter has its job id, opens the stream and sets the interval.
StartWait(j) ==
  /\ handler[j] = "replied"
  /\ submitter[j] \in Users
  /\ answer[j] = "none"
  /\ answer' = [answer EXCEPT ![j] = "waiting"]
  /\ source' = source \cup {j}
  /\ polling' = polling \cup {j}
  /\ UNCHANGED <<asked, tries, signedIn, hookVars, vars>>

\* The request of the EventSource reaches the server.
Connect(j) ==
  /\ j \in source
  /\ submitter[j] \in signedIn
  /\ \E u \in Users : submitter[j] = u /\ stream[u].job # j /\ OpenStream(u, j)
  /\ UNCHANGED <<clientVars, hookVars>>

\* The server notices that an EventSource is gone.
Disconnect(u) ==
  /\ stream[u].job \notin source
  /\ LeaveStream(u)
  /\ UNCHANGED <<clientVars, hookVars>>

\* A loop that fetches the result begins: the interval is cleared first.
LeavesItToThePoll(j, l) ==                                 \* faulty variant
  /\ polling' = polling \ {j}
  /\ tries' = [tries EXCEPT ![<<j, l>>] =
       IF l = OnDone /\ \E c \in Callbacks : <<j, c>> \in asked THEN @ ELSE Tries]
StartLoop(j, l) ==
  /\ polling' = polling \ {j}
  /\ tries' = [tries EXCEPT ![<<j, l>>] = Tries]

\* onmessage with pct >= 100, or onerror: the stream is closed and onDone runs.
StreamDone(j) ==
  /\ j \in source
  /\ source' = source \ {j}
  /\ StartLoop(j, OnDone)
  /\ UNCHANGED <<answer, asked, signedIn, hookVars, vars>>

\* The interval fires, whatever became of the polls before; c is its first callback that
\* is not under way.  Without a token the poll fails at once and nothing changes.
UnderWay(j, c) == <<j, c>> \in asked \/ tries[<<j, c>>] # 0
Ask(j, c) ==
  /\ j \in polling
  /\ submitter[j] \in signedIn
  /\ ~UnderWay(j, c)
  /\ \A d \in 1 .. c - 1 : UnderWay(j, d)
  /\ asked' = asked \cup {<<j, c>>}
  /\ UNCHANGED <<answer, source, polling, tries, signedIn, hookVars, vars>>

\* A poll is answered, perhaps after the interval was cleared; or it fails.
EndAtFull(pct) == pct > 100                                \* faulty variant
EndAt(pct) == pct >= 100

PollAnswered(j, c) ==
  /\ <<j, c>> \in asked
  /\ Authorized(submitter[j], j)
  /\ asked' = asked \ {<<j, c>>}
  /\ IF EndAt(status[j]) THEN StartLoop(j, c) ELSE UNCHANGED <<polling, tries>>
  /\ UNCHANGED <<answer, source, signedIn, hookVars, vars>>

PollFails(j, c) ==
  /\ <<j, c>> \in asked
  /\ asked' = asked \ {<<j, c>>}
  /\ UNCHANGED <<answer, source, polling, tries, signedIn, hookVars, vars>>

\* finish: the first outcome settles the promise, closes the stream and clears the
\* interval; what comes later changes nothing.
LeftOpen(set, j) == set                                    \* faulty variant
FirstOutcome(old, new) == IF old = "waiting" THEN new ELSE old
Closed(set, j) == set \ {j}

Finish(j, how) ==
  /\ answer' = [answer EXCEPT ![j] = FirstOutcome(answer[j], how)]
  /\ source' = Closed(source, j)
  /\ polling' = Closed(polling, j)

\* The tries a loop has left after one that found no result.
TwoLess(n) == n - 2                                        \* faulty variants
NoneLess(n) == n
Left(n) == n - 1

\* getAssessmentResult, in loop l: the loop ends with a verdict or an error, and it
\* gives up when the result stays PENDING or STARTED.
Fetch(j, l) ==
  LET left == Left(tries[<<j, l>>]) IN
  /\ tries[<<j, l>>] # 0
  /\ submitter[j] \in signedIn /\ Authorized(submitter[j], j)
  /\ \/ /\ result[j] \in Verdicts
        /\ Finish(j, result[j])
        /\ tries' = [tries EXCEPT ![<<j, l>>] = 0]
     \/ /\ ~Settled(result[j])
        /\ IF left = 0 THEN Finish(j, "not available")
           ELSE UNCHANGED <<answer, source, polling>>
        /\ tries' = [tries EXCEPT ![<<j, l>>] = left]
  /\ UNCHANGED <<asked, signedIn, hookVars, vars>>

\* There is no token, the request fails, or it reports FAILURE with a 500: an error other
\* than PENDING ends the loop.
KeepsAsking(n) == n                                        \* faulty variant
AfterError(n) == 0

FetchFails(j, l) ==
  /\ tries[<<j, l>>] # 0
  /\ Finish(j, "failed")
  /\ tries' = [tries EXCEPT ![<<j, l>>] = AfterError(@)]
  /\ UNCHANGED <<asked, signedIn, hookVars, vars>>

\* Two minutes are over.
TimeOut(j) ==
  /\ answer[j] = "waiting"
  /\ Finish(j, "timed out")
  /\ UNCHANGED <<tries, asked, signedIn, hookVars, vars>>

-----------------------------------------------------------------------------
(* _fire_webhook_when_done, a background task of the API process.          *)

\* The 202 is sent, and the request named a callback.
StartHook(j) ==
  /\ handler[j] = "replied"
  /\ submitter[j] = Channel
  /\ hook[j] = "off"
  /\ hook' = [hook EXCEPT ![j] = "polling"]
  /\ polls' = [polls EXCEPT ![j] = MaxPolls]
  /\ UNCHANGED <<posted, clientVars, vars>>

\* It reads the state of the task once a second, and with a SUCCESS the verdict.  A
\* FAILURE ends it silently.
HookPoll(j) ==
  LET left == Left(polls[j]) IN
  /\ hook[j] = "polling"
  /\ hook' = [hook EXCEPT ![j] = IF result[j] \in Verdicts THEN result[j]
                                 ELSE IF result[j] = "FAILURE" \/ left = 0 THEN "done" ELSE @]
  /\ polls' = [polls EXCEPT ![j] = IF Settled(result[j]) THEN 0 ELSE left]
  /\ UNCHANGED <<posted, clientVars, vars>>

\* The callback is called once; that it fails is only logged.
HookPost(j) ==
  /\ hook[j] \in Verdicts
  /\ hook' = [hook EXCEPT ![j] = "done"]
  /\ posted' \in {posted, [posted EXCEPT ![j] = hook[j]]}
  /\ UNCHANGED <<polls, clientVars, vars>>

\* The API process dies, and the background task with it.
HookDies(j) ==
  /\ hook[j] \in Verdicts \cup {"polling"}
  /\ hook' = [hook EXCEPT ![j] = "gone"]
  /\ polls' = [polls EXCEPT ![j] = 0]
  /\ UNCHANGED <<posted, clientVars, vars>>

-----------------------------------------------------------------------------
Hook(j) == HookPoll(j) \/ HookPost(j)

ClientStep(j) ==
  \/ StartWait(j) \/ Connect(j) \/ StreamDone(j)
  \/ \E c \in Callbacks : Ask(j, c) \/ PollAnswered(j, c) \/ PollFails(j, c)
  \/ \E l \in Loops : Fetch(j, l) \/ FetchFails(j, l)
  \/ TimeOut(j)
  \/ StartHook(j) \/ Hook(j) \/ HookDies(j)

ClientNext ==
  \/ JobStep /\ UNCHANGED <<clientVars, hookVars>>
  \/ \E u \in Users : Disconnect(u) \/ SignOut(u) \/ SignIn(u)
  \/ \E j \in Jobs : ClientStep(j)

(* The interval of a user who is signed in fires, of infinitely many polls  *)
(* that are sent with a token not every one fails, a request of a loop ends *)
(* one way or the other, and the API process goes on with a background      *)
(* task.  Nothing is assumed of the pipeline, the stream, the timeout, or   *)
(* of sessions.                                                             *)
ClientFairness ==
  \A j \in Jobs :
    /\ WF_allVars(\E c \in Callbacks : Ask(j, c))
    /\ SF_allVars(\E c \in Callbacks : PollAnswered(j, c))
    /\ \A l \in Loops : WF_allVars(Fetch(j, l) \/ FetchFails(j, l))
    /\ WF_allVars(Hook(j))

SafeClients == Init /\ ClientInit /\ [][ClientNext]_allVars
Clients == SafeClients /\ ClientFairness

-----------------------------------------------------------------------------
(* Properties.                                                             *)

Answered(j) == answer[j] \in Verdicts \cup Errors

\* Every variable holds a value of its kind.
ClientTypeOK ==
  /\ answer \in [Jobs -> {"none", "waiting"} \cup Verdicts \cup Errors]
  /\ source \subseteq Jobs
  /\ polling \subseteq Jobs
  /\ asked \subseteq Jobs \X Callbacks
  /\ tries \in [Jobs \X Loops -> 0 .. Tries]
  /\ signedIn \subseteq Users
  /\ hook \in [Jobs -> Idle \cup Verdicts]
  /\ polls \in [Jobs -> 0 .. MaxPolls]
  /\ posted \in [Jobs -> Verdicts \cup {None}]

\* A verdict that the page shows or the webhook has sent is the stored one, now and
\* ever after, also when the job is run again.
ShownVerdictIsFinal ==
  \A j \in Jobs :
    /\ answer[j] \in Verdicts => result[j] = answer[j]
    /\ posted[j] # None => result[j] = posted[j]

\* Once the wait is over neither the stream nor the interval of the job is left open,
\* however the stream, the poll, the loops and the timeout raced; and a loop never
\* runs beside the interval.
NothingLeftOpen ==
  \A j \in Jobs :
    /\ Answered(j) => j \notin source \cup polling
    /\ \A l \in Loops : tries[<<j, l>>] # 0 => j \notin polling

\* A wait never hangs on its timeout alone: until it is answered both the stream and the
\* interval are there to notice the end, or a loop that asks for the result is under way.
\* No order of stream, poll and loops clears one without starting the other.
WaitGoesOn ==
  \A j \in Jobs :
    answer[j] = "waiting" => \/ j \in source \cap polling
                             \/ \E l \in Loops : tries[<<j, l>>] # 0

\* A wait does not need its timeout to end once its stream is done or broken, nor once
\* the job has settled with its status at 100, though no event was received: unless the
\* session ends before a poll finds out, for then every poll fails and goes unheard.
NoticesTheEnd ==
  \A j \in Jobs :
    /\ answer[j] = "waiting" /\ j \notin source ~> Answered(j)
    /\ answer[j] = "waiting" /\ msg[j] = "acked" /\ status[j] = Pct[Complete]
         ~> Answered(j) \/ submitter[j] \notin signedIn

\* A loop that fetches the result ends though its job never does, as many as there may be,
\* also when the promise was settled long before: the page comes to rest.
ComesToRest ==
  \A j \in Jobs : Answered(j) ~> \A l \in Loops : tries[<<j, l>>] = 0

\* The webhook poller ends, whatever becomes of the job: it does not run for ever
\* for a job that no worker takes.
WebhookEnds ==
  \A j \in Jobs : hook[j] = "polling" ~> hook[j] \in {"done", "gone"}

\* What client.ts:257 says of the stream, that polling is the fallback when it fails:
\* nobody is told that the result is not available while the job is still running.
FallbackKeepsPolling ==
  \A j \in Jobs :
    answer[j] = "not available" => j \in announced \/ status[j] = Pct[Complete]
=============================================================================
