------------------------- MODULE ResultClientsProofs -------------------------
(***************************************************************************)
(* Proofs about ResultClients.  The clients only read the pipeline: every  *)
(* step of the composition is a step of the pipeline or leaves it alone,   *)
(* so what AssessmentPipelineProofs proves holds in the composition too,   *)
(* and that a stored verdict is final carries over to those who read it.   *)
(***************************************************************************)
EXTENDS ResultClients, AssessmentPipelineProofs

\* The steps that are the clients' alone.
LEMMA ClientsOnlyRead ==
  ASSUME NEW j \in Jobs, ClientStep(j)
  PROVE  Connect(j) \/ UNCHANGED vars
  BY DEF ClientStep, StartWait, StreamDone, Ask, PollAnswered, PollFails, Fetch,
         FetchFails, TimeOut, StartHook, Hook, HookPoll, HookPost, HookDies

LEMMA PipelineStep == [ClientNext]_allVars => [Next]_vars
<1> SUFFICES ASSUME [ClientNext]_allVars PROVE [Next]_vars
  OBVIOUS
<1>1. CASE JobStep
  BY <1>1 DEF Next
<1>2. ASSUME NEW u \in Users, Disconnect(u) PROVE Next
  BY <1>2 DEF Disconnect, Next
<1>3. ASSUME NEW j \in Jobs, Connect(j) PROVE Next
  BY <1>3 DEF Connect, Next
<1>4. ASSUME NEW j \in Jobs, ClientStep(j) PROVE [Next]_vars
  BY <1>3, <1>4, ClientsOnlyRead
<1>5. CASE UNCHANGED allVars
  BY <1>5 DEF allVars
<1>6. ASSUME NEW u \in Users, SignOut(u) \/ SignIn(u) PROVE UNCHANGED vars
  BY <1>6 DEF SignOut, SignIn
<1> QED
  BY <1>1, <1>2, <1>4, <1>5, <1>6 DEF ClientNext

\* The composition is still the pipeline: its clients cannot make it do anything.
THEOREM ClientsLeaveThePipeline == SafeClients => SafeSpec
<1>1. ClientInit /\ Init => Init
  OBVIOUS
<1> QED
  BY <1>1, PipelineStep, PTL DEF SafeClients, SafeSpec

-----------------------------------------------------------------------------
\* The webhook poller sends the stored verdict only, and has polls left while it polls.
HookInv ==
  \A j \in Jobs :
    /\ hook[j] \in Verdicts => result[j] = hook[j]
    /\ hook[j] = "polling" => polls[j] # 0

\* Before a wait starts nothing of it is open or runs.
NotBegun(j) ==
  answer[j] = "none" => /\ j \notin source \cup polling
                        /\ \A c \in Callbacks : <<j, c>> \notin asked
                        /\ \A l \in Loops : tries[<<j, l>>] = 0
NotBegunInv == \A j \in Jobs : NotBegun(j)

ClientIInv == ClientTypeOK /\ HookInv /\ NotBegunInv /\ ShownVerdictIsFinal /\ NothingLeftOpen

\* What VerdictIsFinal says of one step.
KeepsVerdicts == \A j \in Jobs : result[j] \in Verdicts => result'[j] = result[j]

LEMMA Fewer ==
  ASSUME NEW n \in Nat, NEW m \in 0 .. n, m # 0
  PROVE  Left(m) \in 0 .. n
  BY DEF Left

\* The first outcome is final, and what closes is closed.
LEMMA Finished ==
  ASSUME NEW j \in Jobs, NEW how \in Verdicts \cup Errors, Finish(j, how), ClientTypeOK
  PROVE  /\ answer' \in [Jobs -> {"none", "waiting"} \cup Verdicts \cup Errors]
         /\ source' \subseteq Jobs
         /\ polling' \subseteq Jobs
  BY DEF Finish, FirstOutcome, Closed, ClientTypeOK

LEMMA ClientTypeNext ==
  ClientTypeOK /\ HookInv /\ [ClientNext]_allVars => ClientTypeOK'
<1> SUFFICES ASSUME ClientTypeOK, HookInv, [ClientNext]_allVars PROVE ClientTypeOK'
  OBVIOUS
<1> USE TriesAssumption
<1>1. CASE UNCHANGED <<clientVars, hookVars>>
  BY <1>1 DEF ClientTypeOK, clientVars, waitVars, hookVars
<1>2. ASSUME NEW j \in Jobs, StartWait(j) PROVE ClientTypeOK'
  BY <1>2 DEF StartWait, ClientTypeOK, hookVars
<1>3. ASSUME NEW j \in Jobs, StreamDone(j) PROVE ClientTypeOK'
  BY <1>3 DEF StreamDone, StartLoop, Loops, ClientTypeOK, hookVars
<1>4. ASSUME NEW j \in Jobs, NEW c \in Callbacks, Ask(j, c) PROVE ClientTypeOK'
  BY <1>4 DEF Ask, ClientTypeOK, hookVars
<1>5. ASSUME NEW j \in Jobs, NEW c \in Callbacks, PollAnswered(j, c) PROVE ClientTypeOK'
  BY <1>5 DEF PollAnswered, StartLoop, Loops, ClientTypeOK, hookVars
<1>6. ASSUME NEW j \in Jobs, NEW c \in Callbacks, PollFails(j, c) PROVE ClientTypeOK'
  BY <1>6 DEF PollFails, ClientTypeOK, hookVars
<1>7. ASSUME NEW j \in Jobs, NEW l \in Loops, Fetch(j, l) PROVE ClientTypeOK'
  <2> DEFINE left == Left(tries[<<j, l>>])
  <2>1. UNCHANGED <<asked, signedIn, hook, polls, posted>> /\ left \in 0 .. Tries
    BY <1>7, Fewer DEF Fetch, ClientTypeOK, hookVars
  <2>2. CASE result[j] \in Verdicts /\ Finish(j, result[j])
             /\ tries' = [tries EXCEPT ![<<j, l>>] = 0]
    BY <2>1, <2>2, Finished DEF ClientTypeOK
  <2>3. CASE /\ IF left = 0 THEN Finish(j, "not available")
                ELSE UNCHANGED <<answer, source, polling>>
             /\ tries' = [tries EXCEPT ![<<j, l>>] = left]
    <3>1. "not available" \in Verdicts \cup Errors
      BY DEF Errors
    <3>2. tries' \in [Jobs \X Loops -> 0 .. Tries]
      BY <2>1, <2>3 DEF ClientTypeOK
    <3>3. CASE left = 0
      BY <2>1, <2>3, <3>1, <3>2, <3>3, Finished DEF ClientTypeOK
    <3>4. CASE left # 0
      BY <2>1, <2>3, <3>2, <3>4 DEF ClientTypeOK
    <3> QED
      BY <3>3, <3>4
  <2> QED
    BY <1>7, <2>2, <2>3 DEF Fetch
<1>8. ASSUME NEW j \in Jobs, NEW l \in Loops, FetchFails(j, l) PROVE ClientTypeOK'
  <2>1. "failed" \in Verdicts \cup Errors
    BY DEF Errors
  <2> QED
    BY <1>8, <2>1, Finished DEF FetchFails, AfterError, ClientTypeOK, hookVars
<1>9. ASSUME NEW j \in Jobs, TimeOut(j) PROVE ClientTypeOK'
  <2>1. "timed out" \in Verdicts \cup Errors
    BY DEF Errors
  <2> QED
    BY <1>9, <2>1, Finished DEF TimeOut, ClientTypeOK, hookVars, vars
<1>10. ASSUME NEW j \in Jobs, StartHook(j) PROVE ClientTypeOK'
  BY <1>10 DEF StartHook, Idle, ClientTypeOK, clientVars, waitVars
<1>11. ASSUME NEW j \in Jobs, HookPoll(j) PROVE ClientTypeOK'
  <2>1. CASE hook[j] = "polling"
    <3>1. Left(polls[j]) \in 0 .. MaxPolls
      BY <2>1, Fewer DEF ClientTypeOK, HookInv
    <3> QED
      BY <1>11, <3>1 DEF HookPoll, Idle, ClientTypeOK, clientVars, waitVars
  <2> QED
    BY <1>11, <2>1 DEF HookPoll
<1>12. ASSUME NEW j \in Jobs, HookPost(j) PROVE ClientTypeOK'
  <2>1. hook[j] \in Verdicts
    BY <1>12 DEF HookPost
  <2>2. posted' \in [Jobs -> Verdicts \cup {None}]
    BY <1>12, <2>1 DEF HookPost, ClientTypeOK
  <2>3. hook' \in [Jobs -> Idle \cup Verdicts]
    BY <1>12 DEF HookPost, ClientTypeOK, Idle
  <2> QED
    BY <1>12, <2>2, <2>3 DEF HookPost, ClientTypeOK, clientVars, waitVars
<1>13. ASSUME NEW j \in Jobs, HookDies(j) PROVE ClientTypeOK'
  BY <1>13 DEF HookDies, Idle, ClientTypeOK, clientVars, waitVars
<1>14. ASSUME NEW u \in Users, SignOut(u) \/ SignIn(u) PROVE ClientTypeOK'
  BY <1>14 DEF SignOut, SignIn, ClientTypeOK, waitVars, hookVars
<1> QED
  BY <1>1, <1>2, <1>3, <1>4, <1>5, <1>6, <1>7, <1>8, <1>9, <1>10, <1>11, <1>12, <1>13,
     <1>14 DEF ClientNext, ClientStep, Hook, Connect, Disconnect, allVars

LEMMA HookNext ==
  ClientTypeOK /\ HookInv /\ KeepsVerdicts /\ [ClientNext]_allVars => HookInv'
<1> SUFFICES ASSUME ClientTypeOK, HookInv, KeepsVerdicts, [ClientNext]_allVars PROVE HookInv'
  OBVIOUS
<1> USE TriesAssumption
<1>0. Verdicts \cap {"polling", "done", "gone", "FAILURE"} = {}
  BY AnswersAssumption, VerdictsAssumption DEF Idle
<1>1. CASE UNCHANGED hookVars
  BY <1>1 DEF HookInv, KeepsVerdicts, hookVars
<1>2. ASSUME NEW j \in Jobs, StartHook(j) PROVE HookInv'
  BY <1>0, <1>2 DEF StartHook, HookInv, ClientTypeOK, KeepsVerdicts
<1>3. ASSUME NEW j \in Jobs, HookPoll(j) PROVE HookInv'
  BY <1>0, <1>3 DEF HookPoll, HookInv, ClientTypeOK, KeepsVerdicts, Settled
<1>4. ASSUME NEW j \in Jobs, HookPost(j) PROVE HookInv'
  BY <1>0, <1>4 DEF HookPost, HookInv, ClientTypeOK, KeepsVerdicts
<1>5. ASSUME NEW j \in Jobs, HookDies(j) PROVE HookInv'
  BY <1>0, <1>5 DEF HookDies, HookInv, ClientTypeOK, KeepsVerdicts
<1> QED
  BY <1>1, <1>2, <1>3, <1>4, <1>5
     DEF ClientNext, ClientStep, Hook, Connect, Disconnect, SignOut, SignIn,
         StartWait, StreamDone, Ask,
         PollAnswered, PollFails, Fetch, FetchFails, TimeOut, allVars

LEMMA ShownNext ==
  ClientTypeOK /\ HookInv /\ ShownVerdictIsFinal /\ KeepsVerdicts /\ [ClientNext]_allVars
    => ShownVerdictIsFinal'
<1> SUFFICES ASSUME ClientTypeOK, HookInv, ShownVerdictIsFinal, KeepsVerdicts,
                    [ClientNext]_allVars
             PROVE  ShownVerdictIsFinal'
  OBVIOUS
<1> USE UsersAssumption, AnswersAssumption
<1>1. CASE UNCHANGED <<answer, posted>>
  BY <1>1 DEF ShownVerdictIsFinal, KeepsVerdicts, ClientTypeOK
<1>2. ASSUME NEW j \in Jobs, NEW how \in Errors, Finish(j, how), UNCHANGED posted
      PROVE  ShownVerdictIsFinal'
  BY <1>2 DEF Finish, FirstOutcome, ShownVerdictIsFinal, KeepsVerdicts, ClientTypeOK
<1>3. ASSUME NEW j \in Jobs, result[j] \in Verdicts, Finish(j, result[j]), UNCHANGED posted
      PROVE  ShownVerdictIsFinal'
  BY <1>3 DEF Finish, FirstOutcome, ShownVerdictIsFinal, KeepsVerdicts, ClientTypeOK
<1>4. ASSUME NEW j \in Jobs, StartWait(j) PROVE ShownVerdictIsFinal'
  BY <1>4 DEF StartWait, hookVars, ShownVerdictIsFinal, KeepsVerdicts, ClientTypeOK
<1>5. ASSUME NEW j \in Jobs, HookPost(j) PROVE ShownVerdictIsFinal'
  <2>1. /\ hook[j] \in Verdicts /\ result[j] = hook[j]
        /\ UNCHANGED <<answer, result>>
    BY <1>5 DEF HookPost, HookInv, clientVars, waitVars, vars
  <2>2. CASE posted' = posted
    BY <1>1, <2>1, <2>2
  <2>3. CASE posted' = [posted EXCEPT ![j] = hook[j]]
    BY <2>1, <2>3 DEF ShownVerdictIsFinal, ClientTypeOK
  <2> QED
    BY <1>5, <2>2, <2>3 DEF HookPost
<1>6. ASSUME NEW j \in Jobs, NEW l \in Loops, Fetch(j, l) PROVE ShownVerdictIsFinal'
  BY <1>1, <1>2, <1>3, <1>6 DEF Fetch, hookVars, Errors
<1>7. ASSUME NEW j \in Jobs, NEW l \in Loops, FetchFails(j, l) PROVE ShownVerdictIsFinal'
  BY <1>2, <1>7 DEF FetchFails, hookVars, Errors
<1>8. ASSUME NEW j \in Jobs, TimeOut(j) PROVE ShownVerdictIsFinal'
  BY <1>2, <1>8 DEF TimeOut, hookVars, Errors
<1> QED
  BY <1>1, <1>4, <1>5, <1>6, <1>7, <1>8
     DEF ClientNext, ClientStep, Hook, Connect, Disconnect, SignOut, SignIn,
         StreamDone, Ask, PollAnswered,
         PollFails, StartHook, HookPoll, HookDies, clientVars, waitVars, hookVars, allVars

LEMMA NotBegunNext == ClientTypeOK /\ NotBegunInv /\ [ClientNext]_allVars => NotBegunInv'
<1> SUFFICES ASSUME ClientTypeOK, NotBegunInv, [ClientNext]_allVars, NEW i \in Jobs
             PROVE  NotBegun(i)'
  BY DEF NotBegunInv
<1> USE AnswersAssumption
<1>1. NotBegun(i)
  BY DEF NotBegunInv
<1>2. CASE UNCHANGED waitVars
  BY <1>1, <1>2 DEF NotBegun, waitVars
<1>3. ASSUME NEW j \in Jobs, StartWait(j) PROVE NotBegun(i)'
  BY <1>1, <1>3 DEF StartWait, NotBegun, ClientTypeOK
<1>4. ASSUME NEW j \in Jobs, NotBegun(j), StreamDone(j) PROVE NotBegun(i)'
  BY <1>1, <1>4 DEF StreamDone, StartLoop, NotBegun, Loops, ClientTypeOK
<1>5. ASSUME NEW j \in Jobs, NEW c \in Callbacks, NotBegun(j), Ask(j, c) PROVE NotBegun(i)'
  BY <1>1, <1>5 DEF Ask, NotBegun, ClientTypeOK
<1>6. ASSUME NEW j \in Jobs, NEW c \in Callbacks, NotBegun(j), PollAnswered(j, c) PROVE NotBegun(i)'
  BY <1>1, <1>6 DEF PollAnswered, StartLoop, NotBegun, Loops, ClientTypeOK
<1>7. ASSUME NEW j \in Jobs, NEW c \in Callbacks, PollFails(j, c) PROVE NotBegun(i)'
  BY <1>1, <1>7 DEF PollFails, NotBegun, ClientTypeOK
<1>8. ASSUME NEW j \in Jobs, NEW how \in Verdicts \cup Errors, Finish(j, how)
      PROVE  /\ answer'[i] = "none" => answer[i] = "none"
             /\ source' \subseteq source /\ polling' \subseteq polling
  BY <1>8 DEF Finish, FirstOutcome, Closed, ClientTypeOK, Errors
<1>9. ASSUME NEW j \in Jobs, NotBegun(j), NEW l \in Loops, tries[<<j, l>>] # 0, asked' = asked,
             answer'[i] = "none" => answer[i] = "none",
             source' \subseteq source, polling' \subseteq polling,
             NEW n, tries' = [tries EXCEPT ![<<j, l>>] = n]
      PROVE  NotBegun(i)'
  BY <1>1, <1>9 DEF NotBegun, ClientTypeOK
<1>10. ASSUME NEW j \in Jobs, NotBegun(j), NEW l \in Loops, Fetch(j, l) PROVE NotBegun(i)'
  <2>1. /\ answer'[i] = "none" => answer[i] = "none"
        /\ source' \subseteq source /\ polling' \subseteq polling
    BY <1>8, <1>10 DEF Fetch, Errors
  <2> QED
    BY <1>9, <1>10, <2>1 DEF Fetch
<1>11. ASSUME NEW j \in Jobs, NotBegun(j), NEW l \in Loops, FetchFails(j, l) PROVE NotBegun(i)'
  <2>1. /\ answer'[i] = "none" => answer[i] = "none"
        /\ source' \subseteq source /\ polling' \subseteq polling
    BY <1>8, <1>11 DEF FetchFails, Errors
  <2> QED
    BY <1>9, <1>11, <2>1 DEF FetchFails
<1>12. ASSUME NEW j \in Jobs, TimeOut(j) PROVE NotBegun(i)'
  <2>1. /\ answer'[i] = "none" => answer[i] = "none"
        /\ source' \subseteq source /\ polling' \subseteq polling
    BY <1>8, <1>12 DEF TimeOut, Errors
  <2> QED
    BY <1>1, <1>12, <2>1 DEF TimeOut, NotBegun
<1>13. \A j \in Jobs : NotBegun(j)
  BY DEF NotBegunInv
<1> QED
  BY <1>2, <1>3, <1>4, <1>5, <1>6, <1>7, <1>10, <1>11, <1>12, <1>13
     DEF ClientNext, ClientStep, Hook, Connect, Disconnect, SignOut, SignIn,
         StartHook, HookPoll, HookPost,
         HookDies, clientVars, allVars

LEMMA OpenNext ==
  ClientTypeOK /\ NotBegunInv /\ NothingLeftOpen /\ [ClientNext]_allVars => NothingLeftOpen'
<1> SUFFICES ASSUME ClientTypeOK, NotBegunInv, NothingLeftOpen, [ClientNext]_allVars
             PROVE  NothingLeftOpen'
  OBVIOUS
<1> USE AnswersAssumption, TriesAssumption
<1>1. CASE UNCHANGED <<answer, source, polling, tries>>
  BY <1>1 DEF NothingLeftOpen, Answered
<1>2. ASSUME NEW j \in Jobs, StartWait(j) PROVE NothingLeftOpen'
  BY <1>2 DEF StartWait, NotBegunInv, NotBegun, NothingLeftOpen, Answered, Errors, ClientTypeOK
<1>3. ASSUME NEW j \in Jobs, NEW l \in Loops, StartLoop(j, l), source' \in {source, source \ {j}},
             UNCHANGED answer
      PROVE  NothingLeftOpen'
  BY <1>3 DEF StartLoop, NothingLeftOpen, Answered, ClientTypeOK
<1>4. ASSUME NEW j \in Jobs, NEW l \in Loops, NEW how, Finish(j, how), tries[<<j, l>>] # 0,
             NEW n \in 0 .. Tries, tries' = [tries EXCEPT ![<<j, l>>] = n]
      PROVE  NothingLeftOpen'
  BY <1>4 DEF Finish, FirstOutcome, Closed, NothingLeftOpen, Answered, ClientTypeOK
<1>5. ASSUME NEW j \in Jobs, Finish(j, "timed out"), UNCHANGED tries
      PROVE  NothingLeftOpen'
  BY <1>5 DEF Finish, FirstOutcome, Closed, NothingLeftOpen, Answered, ClientTypeOK
<1>6. ASSUME NEW j \in Jobs, NEW l \in Loops, tries[<<j, l>>] # 0, NEW n \in 0 .. Tries,
             UNCHANGED <<answer, source, polling>>, tries' = [tries EXCEPT ![<<j, l>>] = n]
      PROVE  NothingLeftOpen'
  BY <1>6 DEF NothingLeftOpen, Answered, ClientTypeOK
<1>7. ASSUME NEW j \in Jobs, NEW l \in Loops, Fetch(j, l) PROVE NothingLeftOpen'
  <2>1. tries[<<j, l>>] # 0 /\ tries[<<j, l>>] \in 0 .. Tries
    BY <1>7 DEF Fetch, ClientTypeOK
  <2>3. 0 \in 0 .. Tries
    OBVIOUS
  <2>2. Left(tries[<<j, l>>]) \in 0 .. Tries
    BY <2>1, Fewer
  <2> QED
    BY <1>4, <1>6, <1>7, <2>1, <2>2, <2>3 DEF Fetch
<1>8. ASSUME NEW j \in Jobs, NEW l \in Loops, FetchFails(j, l) PROVE NothingLeftOpen'
  <2>1. 0 \in 0 .. Tries
    OBVIOUS
  <2> QED
    BY <1>4, <1>8, <2>1 DEF FetchFails, AfterError
<1>9. ASSUME NEW j \in Jobs, NEW c \in Callbacks, PollAnswered(j, c) PROVE NothingLeftOpen'
  BY <1>1, <1>3, <1>9 DEF PollAnswered, Loops
<1>10. ASSUME NEW j \in Jobs, StreamDone(j) PROVE NothingLeftOpen'
  BY <1>3, <1>10 DEF StreamDone, Loops
<1> QED
  BY <1>1, <1>2, <1>5, <1>7, <1>8, <1>9, <1>10
     DEF ClientNext, ClientStep, Hook, Connect, Disconnect, SignOut, SignIn,
         Ask, PollFails, TimeOut,
         StartHook, HookPoll, HookPost, HookDies, clientVars, waitVars, hookVars, allVars

\* Every step that closes the stream or clears the interval of a wait starts a loop, and
\* a loop ends with an answer.
LEMMA WaitNext == ClientTypeOK /\ WaitGoesOn /\ [ClientNext]_allVars => WaitGoesOn'
<1> SUFFICES ASSUME ClientTypeOK, WaitGoesOn, [ClientNext]_allVars PROVE WaitGoesOn'
  OBVIOUS
<1> USE AnswersAssumption, TriesAssumption
<1>1. CASE UNCHANGED <<answer, source, polling, tries>>
  BY <1>1 DEF WaitGoesOn
<1>2. ASSUME NEW j \in Jobs, StartWait(j) PROVE WaitGoesOn'
  BY <1>2 DEF StartWait, WaitGoesOn, ClientTypeOK
<1>3. ASSUME NEW j \in Jobs, NEW l \in Loops, StartLoop(j, l), source' \in {source, source \ {j}},
             UNCHANGED answer
      PROVE  WaitGoesOn'
  <2>1. tries'[<<j, l>>] # 0
    BY <1>3 DEF StartLoop, ClientTypeOK
  <2>2. ASSUME NEW i \in Jobs \ {j}
        PROVE  /\ i \in source' \cap polling' <=> i \in source \cap polling
               /\ \A k \in Loops : tries'[<<i, k>>] = tries[<<i, k>>]
    BY <1>3 DEF StartLoop, ClientTypeOK
  <2> QED
    BY <1>3, <2>1, <2>2 DEF WaitGoesOn
<1>4. ASSUME NEW j \in Jobs, NEW how \in Verdicts \cup Errors, Finish(j, how),
             \A i \in Jobs \ {j}, l \in Loops : tries'[<<i, l>>] = tries[<<i, l>>]
      PROVE  WaitGoesOn'
  <2>1. answer'[j] # "waiting"
    BY <1>4 DEF Finish, FirstOutcome, ClientTypeOK, Errors
  <2>2. \A i \in Jobs \ {j} : /\ answer'[i] = answer[i]
                              /\ i \in source' <=> i \in source
                              /\ i \in polling' <=> i \in polling
    BY <1>4 DEF Finish, Closed, ClientTypeOK
  <2> QED
    BY <1>4, <2>1, <2>2 DEF WaitGoesOn
<1>5. ASSUME NEW j \in Jobs, NEW l \in Loops, NEW n, n # 0,
             UNCHANGED <<answer, source, polling>>, tries' = [tries EXCEPT ![<<j, l>>] = n]
      PROVE  WaitGoesOn'
  BY <1>5 DEF WaitGoesOn, ClientTypeOK
<1>6. ASSUME NEW j \in Jobs, NEW l \in Loops, Fetch(j, l) PROVE WaitGoesOn'
  BY <1>4, <1>5, <1>6 DEF Fetch, Errors, ClientTypeOK
<1>7. ASSUME NEW j \in Jobs, NEW l \in Loops, FetchFails(j, l) PROVE WaitGoesOn'
  BY <1>4, <1>7 DEF FetchFails, Errors, ClientTypeOK
<1>8. ASSUME NEW j \in Jobs, TimeOut(j) PROVE WaitGoesOn'
  BY <1>4, <1>8 DEF TimeOut, Errors
<1>9. ASSUME NEW j \in Jobs, NEW c \in Callbacks, PollAnswered(j, c) PROVE WaitGoesOn'
  BY <1>1, <1>3, <1>9 DEF PollAnswered, Loops
<1>10. ASSUME NEW j \in Jobs, StreamDone(j) PROVE WaitGoesOn'
  BY <1>3, <1>10 DEF StreamDone, Loops
<1> QED
  BY <1>1, <1>2, <1>6, <1>7, <1>8, <1>9, <1>10
     DEF ClientNext, ClientStep, Hook, Connect, Disconnect, SignOut, SignIn, Ask, PollFails,
         StartHook, HookPoll, HookPost, HookDies, clientVars, waitVars, hookVars, allVars

THEOREM ClientsInductive == SafeClients => []ClientIInv
<1>1. ClientInit /\ Init => ClientIInv
  <2> SUFFICES ASSUME ClientInit PROVE ClientIInv
    OBVIOUS
  <2>1. ClientTypeOK
    BY TriesAssumption DEF ClientInit, Idle, ClientTypeOK
  <2>2. HookInv
    BY AnswersAssumption DEF ClientInit, HookInv, Idle
  <2>3. \A j \in Jobs, l \in Loops : tries[<<j, l>>] = 0
    BY DEF ClientInit
  <2>4. NotBegunInv
    BY <2>3 DEF ClientInit, NotBegunInv, NotBegun
  <2>5. ShownVerdictIsFinal
    BY AnswersAssumption DEF ClientInit, ShownVerdictIsFinal
  <2>6. NothingLeftOpen
    BY <2>3, AnswersAssumption DEF ClientInit, NothingLeftOpen, Answered, Errors
  <2> QED
    BY <2>1, <2>2, <2>4, <2>5, <2>6 DEF ClientIInv
<1>2. ClientIInv /\ [KeepsVerdicts]_vars /\ [ClientNext]_allVars => ClientIInv'
  <2>1. UNCHANGED vars => KeepsVerdicts
    BY DEF vars, KeepsVerdicts
  <2> QED
    BY <2>1, ClientTypeNext, HookNext, NotBegunNext, ShownNext, OpenNext DEF ClientIInv
<1>3. SafeClients => [][KeepsVerdicts]_vars
  BY ClientsLeaveThePipeline, VerdictsAreFinal DEF VerdictIsFinal, KeepsVerdicts
<1> QED
  BY <1>1, <1>2, <1>3, PTL DEF SafeClients

\* The clients' variables hold values of their kinds: no loop asks too often.
THEOREM ClientTypeCorrect == SafeClients => []ClientTypeOK
  BY ClientsInductive, PTL DEF ClientIInv

\* A verdict that was shown or posted stays the stored one.
THEOREM ShownVerdictsAreFinal == SafeClients => []ShownVerdictIsFinal
  BY ClientsInductive, PTL DEF ClientIInv

\* A wait that is over has closed its stream and cleared its interval.
THEOREM NothingIsLeftOpen == SafeClients => []NothingLeftOpen
  BY ClientsInductive, PTL DEF ClientIInv

\* A wait has its stream and its interval, or a loop, until it is answered (waitForResult).
THEOREM WaitsGoOn == SafeClients => []WaitGoesOn
<1>1. ClientInit => WaitGoesOn
  BY AnswersAssumption DEF ClientInit, WaitGoesOn
<1>2. ClientIInv /\ WaitGoesOn /\ [ClientNext]_allVars => WaitGoesOn'
  BY WaitNext DEF ClientIInv
<1> QED
  BY <1>1, <1>2, ClientsInductive, PTL DEF SafeClients

=============================================================================
