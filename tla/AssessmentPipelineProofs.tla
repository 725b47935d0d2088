---------------------- MODULE AssessmentPipelineProofs ----------------------
(***************************************************************************)
(* Proofs about AssessmentPipeline, for any number of jobs, workers, users *)
(* and crashes.  The safety properties rest on one inductive invariant,    *)
(* IInv: RunInv ties each worker to the message it holds and to what it    *)
(* has stored and published so far, AccessInv ties the owner key to how    *)
(* far the submit handler has got.                                         *)
(***************************************************************************)
EXTENDS AssessmentPipeline, TLAPS

\* A busy worker holds the message of its job; a run that stores a verdict has
\* published "complete"; a run that acknowledges has stored an outcome.
RunOK(w) ==
  /\ step[w] = "idle" <=> job[w] = None
  /\ step[w] # "idle" => msg[job[w]] = "held"
  /\ step[w] = "run" => at[w] # Complete
  /\ step[w] \in {"set", "publish"} /\ at[w] = Complete => outcome[w] \in Verdicts
  /\ step[w] = "store" => /\ outcome[w] \in Verdicts \cup {"FAILURE"}
                          /\ outcome[w] \in Verdicts => job[w] \in announced
  /\ step[w] = "ack" => Settled(result[job[w]])

RunInv == \A w \in Workers : RunOK(w)

\* How far the submit handler of j has got says what it has written.
AccessOK(j) ==
  /\ handler[j] \in {"idle", "accepted"} => msg[j] = "none" /\ owner[j] = None
  /\ handler[j] # "idle" => submitter[j] # None
  /\ handler[j] = "queued" => submitter[j] # Channel
  /\ handler[j] \in {"queued", "replied"} => status[j] # NoStatus
  /\ handler[j] = "replied" /\ submitter[j] # Channel => owner[j] = submitter[j]
  /\ owner[j] \in {None, submitter[j]}

AccessInv == \A j \in Jobs : AccessOK(j)

IInv == TypeOK /\ RunInv /\ OneRunAtATime /\ NoLostJob /\ CompleteBeforeVerdict /\ AccessInv

-----------------------------------------------------------------------------
\* The pct table: increasing along the stages.
LEMMA PctTable ==
  /\ \A s \in Stages : Pct[s] \in 5 .. 100
  /\ \A s \in Stages : s # Complete => s + 1 \in Stages /\ Pct[s] <= Pct[s + 1]
<1>1. Stages = {1, 2, 3, 4, 5, 6, 7} /\ Complete = 7
  BY DEF Stages, Document, Complete
<1>2. /\ Pct[1] = 5 /\ Pct[2] = 25 /\ Pct[3] = 45 /\ Pct[4] = 60
      /\ Pct[5] = 75 /\ Pct[6] = 88 /\ Pct[7] = 100
  BY DEF Pct
<1> QED
  BY <1>1, <1>2

\* A worker that is not idle has a job, and holds the message of that job.
LEMMA BusyWorkerHasJob ==
  ASSUME TypeOK, RunInv, NEW w \in Workers, step[w] # "idle"
  PROVE  job[w] \in Jobs /\ msg[job[w]] = "held"
  BY DEF TypeOK, RunInv, RunOK

\* A worker that dies leaves the message of its job to the broker.
LEMMA CrashOrphans ==
  ASSUME TypeOK, RunInv, NEW w \in Workers, Crash(w)
  PROVE  /\ job[w] \in Jobs
         /\ msg[job[w]] = "held"
         /\ msg' = [msg EXCEPT ![job[w]] = "orphaned"]
<1>1. job[w] \in Jobs /\ msg[job[w]] = "held"
  BY BusyWorkerHasJob DEF Crash
<1> QED
  BY <1>1 DEF Crash, TypeOK

\* TypeOK is preserved.
LEMMA TypeNext == TypeOK /\ RunInv /\ [Next]_vars => TypeOK'
<1> SUFFICES ASSUME TypeOK, RunInv, [Next]_vars PROVE TypeOK'
  OBVIOUS
<1>1. CASE UNCHANGED vars
  BY <1>1 DEF vars, worker, TypeOK
<1>2. ASSUME NEW j \in Jobs, Begin(j) PROVE TypeOK'
  BY <1>2 DEF Begin, jobVars, worker, TypeOK
<1>3. ASSUME NEW j \in Jobs, Enqueue(j) PROVE TypeOK'
  BY <1>3 DEF Enqueue, worker, TypeOK
<1>4. ASSUME NEW j \in Jobs, WriteQueued(j) PROVE TypeOK'
  BY <1>4 DEF WriteQueued, worker, TypeOK
<1>5. ASSUME NEW j \in Jobs, WriteOwner(j) PROVE TypeOK'
  BY <1>5 DEF WriteOwner, worker, TypeOK
<1>6. ASSUME NEW j \in Jobs, HandlerFails(j) PROVE TypeOK'
  BY <1>6 DEF HandlerFails, jobVars, worker, TypeOK
<1>7. ASSUME NEW j \in Jobs, Redeliver(j) PROVE TypeOK'
  BY <1>7 DEF Redeliver, worker, TypeOK
<1>8. ASSUME NEW w \in Workers, SetStatus(w) PROVE TypeOK'
  BY <1>8, BusyWorkerHasJob DEF SetStatus, Goto, TypeOK
<1>9. ASSUME NEW w \in Workers, Publish(w) PROVE TypeOK'
  BY <1>9, BusyWorkerHasJob DEF Publish, Goto, TypeOK
<1>10. ASSUME NEW w \in Workers, RunStage(w) PROVE TypeOK'
  <2>1. at[w] \in Stages /\ at[w] # Complete
    BY <1>10 DEF RunStage, RunInv, RunOK, TypeOK
  <2>2. at[w] + 1 \in Stages
    BY <2>1, PctTable
  <2> QED
    BY <1>10, <2>2 DEF RunStage, NextStage, AfterBody, jobVars, TypeOK
<1>11. ASSUME NEW w \in Workers, Raise(w) PROVE TypeOK'
  BY <1>11 DEF Raise, jobVars, TypeOK
<1>18. ASSUME NEW w \in Workers, LoseProcess(w) PROVE TypeOK'
  BY <1>18 DEF LoseProcess, jobVars, TypeOK
<1>12. ASSUME NEW w \in Workers, StoreResult(w) PROVE TypeOK'
  <2>1. job[w] \in Jobs
    BY <1>12, BusyWorkerHasJob DEF StoreResult
  <2>2. outcome[w] \in Verdicts \cup {"FAILURE"}
    BY <1>12 DEF StoreResult, RunInv, RunOK
  <2> QED
    BY <1>12, <2>1, <2>2 DEF StoreResult, Goto, Stored, TypeOK
<1>13. ASSUME NEW w \in Workers, Ack(w) PROVE TypeOK'
  BY <1>13, BusyWorkerHasJob DEF Ack, Assign, TypeOK, Stages, Document, Complete
<1>14. ASSUME NEW w \in Workers, Crash(w) PROVE TypeOK'
  BY <1>14, BusyWorkerHasJob, CrashAssumption
     DEF Crash, Assign, TypeOK, Stages, Document, Complete
<1>15. ASSUME NEW w \in Workers, NEW j \in Jobs, Receive(w, j) PROVE TypeOK'
  BY <1>15 DEF Receive, Assign, OnReceipt, Stored, TypeOK, Stages, Document, Complete
<1>16. ASSUME NEW u \in Users, LeaveStream(u) PROVE TypeOK'
  BY <1>16 DEF LeaveStream, jobVars, worker, TypeOK
<1>17. ASSUME NEW u \in Users, NEW j \in Jobs, OpenStream(u, j) PROVE TypeOK'
  BY <1>17 DEF OpenStream, jobVars, worker, TypeOK
<1> QED
  BY <1>1, <1>2, <1>3, <1>4, <1>5, <1>6, <1>7, <1>8, <1>9, <1>10, <1>11, <1>12,
     <1>13, <1>14, <1>15, <1>16, <1>17, <1>18 DEF Next, JobStep, Work

-----------------------------------------------------------------------------
\* What the run properties say of the workers and the messages.
RunGoal == RunInv /\ OneRunAtATime /\ NoLostJob /\ CompleteBeforeVerdict

\* Every step preserves the part of IInv that is about messages, runs and results.
LEMMA RunNext == IInv /\ [Next]_vars => RunGoal'
<1> SUFFICES ASSUME IInv, [Next]_vars PROVE RunGoal'
  OBVIOUS
<1> USE DEF IInv, RunGoal
<1>1. CASE UNCHANGED vars
  BY <1>1 DEF vars, worker, RunInv, RunOK, OneRunAtATime, NoLostJob, CompleteBeforeVerdict
<1>2. ASSUME NEW j \in Jobs, Begin(j) PROVE RunGoal'
  BY <1>2 DEF Begin, jobVars, worker, RunInv, RunOK, OneRunAtATime, NoLostJob,
              CompleteBeforeVerdict
<1>3. ASSUME NEW j \in Jobs, Enqueue(j) PROVE RunGoal'
  <2>1. msg[j] = "none"
    BY <1>3 DEF Enqueue, AccessInv, AccessOK
  <2> QED
    BY <1>3, <2>1, BusyWorkerHasJob
       DEF Enqueue, worker, TypeOK, RunInv, RunOK, OneRunAtATime, NoLostJob,
           CompleteBeforeVerdict
<1>4. ASSUME NEW j \in Jobs, WriteQueued(j) PROVE RunGoal'
  BY <1>4 DEF WriteQueued, worker, RunInv, RunOK, OneRunAtATime, NoLostJob,
              CompleteBeforeVerdict
<1>5. ASSUME NEW j \in Jobs, WriteOwner(j) PROVE RunGoal'
  BY <1>5 DEF WriteOwner, worker, RunInv, RunOK, OneRunAtATime, NoLostJob,
              CompleteBeforeVerdict
<1>6. ASSUME NEW j \in Jobs, HandlerFails(j) PROVE RunGoal'
  BY <1>6 DEF HandlerFails, jobVars, worker, RunInv, RunOK, OneRunAtATime, NoLostJob,
              CompleteBeforeVerdict
<1>7. ASSUME NEW j \in Jobs, Redeliver(j) PROVE RunGoal'
  BY <1>7 DEF Redeliver, Restorable, worker, TypeOK, RunInv, RunOK, OneRunAtATime,
              NoLostJob, CompleteBeforeVerdict
<1>8. ASSUME NEW w \in Workers, SetStatus(w) PROVE RunGoal'
  BY <1>8 DEF SetStatus, Goto, TypeOK, RunInv, RunOK, OneRunAtATime, NoLostJob,
              CompleteBeforeVerdict
<1>9. ASSUME NEW w \in Workers, Publish(w) PROVE RunGoal'
  <2>1. job[w] \in Jobs
    BY <1>9, BusyWorkerHasJob DEF Publish
  <2> QED
    BY <1>9, <2>1 DEF Publish, Goto, TypeOK, RunInv, RunOK, OneRunAtATime, NoLostJob,
                      CompleteBeforeVerdict
<1>10. ASSUME NEW w \in Workers, RunStage(w) PROVE RunGoal'
  BY <1>10 DEF RunStage, NextStage, AfterBody, jobVars, TypeOK, RunInv, RunOK,
               Stages, Document, Fusion, Complete, OneRunAtATime, NoLostJob,
               CompleteBeforeVerdict
<1>11. ASSUME NEW w \in Workers, Raise(w) PROVE RunGoal'
  BY <1>11, VerdictsAssumption
     DEF Raise, jobVars, TypeOK, RunInv, RunOK, OneRunAtATime, NoLostJob,
         CompleteBeforeVerdict
<1>18. ASSUME NEW w \in Workers, LoseProcess(w) PROVE RunGoal'
  BY <1>18, VerdictsAssumption
     DEF LoseProcess, jobVars, TypeOK, RunInv, RunOK, OneRunAtATime, NoLostJob,
         CompleteBeforeVerdict
<1>12. ASSUME NEW w \in Workers, StoreResult(w) PROVE RunGoal'
  <2>1. job[w] \in Jobs
    BY <1>12, BusyWorkerHasJob DEF StoreResult
  <2>2. outcome[w] \in Verdicts \cup {"FAILURE"}
        /\ (outcome[w] \in Verdicts => job[w] \in announced)
    BY <1>12 DEF StoreResult, RunInv, RunOK
  <2> QED
    BY <1>12, <2>1, <2>2
       DEF StoreResult, Goto, Stored, Settled, TypeOK, RunInv, RunOK, OneRunAtATime,
           NoLostJob, CompleteBeforeVerdict
<1>13. ASSUME NEW w \in Workers, Ack(w) PROVE RunGoal'
  <2>1. job[w] \in Jobs /\ Settled(result[job[w]])
    BY <1>13, BusyWorkerHasJob DEF Ack, RunInv, RunOK
  <2> QED
    BY <1>13, <2>1, UsersAssumption
       DEF Ack, Assign, Settled, TypeOK, RunInv, RunOK, OneRunAtATime, NoLostJob,
           CompleteBeforeVerdict
<1>14. ASSUME NEW w \in Workers, Crash(w) PROVE RunGoal'
  <2>1. job[w] \in Jobs
    BY <1>14, CrashOrphans
  <2> QED
    BY <1>14, <2>1, UsersAssumption
       DEF Crash, Assign, TypeOK, RunInv, RunOK, OneRunAtATime, NoLostJob,
           CompleteBeforeVerdict
<1>15. ASSUME NEW w \in Workers, NEW j \in Jobs, Receive(w, j) PROVE RunGoal'
  <2>1. \A v \in Workers : job[v] # j
    BY <1>15, UsersAssumption DEF Receive, RunInv, RunOK
  <2> QED
    BY <1>15, <2>1, UsersAssumption, VerdictsAssumption
       DEF Receive, Assign, OnReceipt, Stored, Settled, TypeOK, RunInv, RunOK,
           OneRunAtATime, NoLostJob, CompleteBeforeVerdict, Document, Complete
<1>16. ASSUME NEW u \in Users, LeaveStream(u) PROVE RunGoal'
  BY <1>16 DEF LeaveStream, jobVars, worker, RunInv, RunOK, OneRunAtATime, NoLostJob,
               CompleteBeforeVerdict
<1>17. ASSUME NEW u \in Users, NEW j \in Jobs, OpenStream(u, j) PROVE RunGoal'
  BY <1>17 DEF OpenStream, jobVars, worker, RunInv, RunOK, OneRunAtATime, NoLostJob,
               CompleteBeforeVerdict
<1> QED
  BY <1>1, <1>2, <1>3, <1>4, <1>5, <1>6, <1>7, <1>8, <1>9, <1>10, <1>11, <1>12,
     <1>13, <1>14, <1>15, <1>16, <1>17, <1>18 DEF Next, JobStep, Work

-----------------------------------------------------------------------------
\* Every step preserves the part of IInv that is about the submit handler.
LEMMA AccessNext == IInv /\ [Next]_vars => AccessInv'
<1> SUFFICES ASSUME IInv, [Next]_vars, NEW i \in Jobs PROVE AccessOK(i)'
  BY DEF AccessInv
<1>0. TypeOK /\ AccessOK(i)
  BY DEF IInv, AccessInv
<1>1. CASE UNCHANGED <<handler, submitter, status, owner, msg>>
  BY <1>0, <1>1 DEF AccessOK
<1>2. ASSUME NEW j \in Jobs, Begin(j) PROVE AccessOK(i)'
  BY <1>0, <1>2, UsersAssumption DEF Begin, jobVars, AccessOK, TypeOK
<1>3. ASSUME NEW j \in Jobs, Enqueue(j) PROVE AccessOK(i)'
  BY <1>0, <1>3 DEF Enqueue, AccessOK, TypeOK
<1>4. ASSUME NEW j \in Jobs, WriteQueued(j) PROVE AccessOK(i)'
  BY <1>0, <1>4 DEF WriteQueued, Queued, NoStatus, AccessOK, TypeOK
<1>5. ASSUME NEW j \in Jobs, WriteOwner(j) PROVE AccessOK(i)'
  BY <1>0, <1>5 DEF WriteOwner, AccessOK, TypeOK
<1>6. ASSUME NEW j \in Jobs, HandlerFails(j) PROVE AccessOK(i)'
  BY <1>0, <1>6 DEF HandlerFails, jobVars, AccessOK, TypeOK
<1>7. ASSUME NEW j \in Jobs, Redeliver(j) PROVE AccessOK(i)'
  BY <1>0, <1>7 DEF Redeliver, Restorable, AccessOK, TypeOK
<1>8. ASSUME NEW w \in Workers, SetStatus(w) PROVE AccessOK(i)'
  <2>1. Pct[at[w]] # NoStatus
    BY <1>0, PctTable DEF TypeOK, NoStatus
  <2> QED
    BY <1>0, <1>8, <2>1 DEF SetStatus, AccessOK, TypeOK
<1>9. ASSUME NEW w \in Workers, step[w] # "idle", NEW m \in {"acked", "orphaned"},
             msg' = [msg EXCEPT ![job[w]] = m],
             UNCHANGED <<handler, submitter, status, owner>>
      PROVE  AccessOK(i)'
  <2>1. job[w] \in Jobs /\ msg[job[w]] = "held"
    BY <1>9, BusyWorkerHasJob DEF IInv
  <2> QED
    BY <1>0, <1>9, <2>1 DEF AccessOK, TypeOK
<1>10. ASSUME NEW w \in Workers, Ack(w) PROVE AccessOK(i)'
  BY <1>9, <1>10 DEF Ack
<1>11. ASSUME NEW w \in Workers, Crash(w) PROVE AccessOK(i)'
  <2>1. msg' = [msg EXCEPT ![job[w]] = "orphaned"]
    BY <1>0, <1>11, CrashOrphans DEF IInv
  <2> QED
    BY <1>9, <1>11, <2>1 DEF Crash
<1>12. ASSUME NEW w \in Workers, NEW j \in Jobs, Receive(w, j) PROVE AccessOK(i)'
  BY <1>0, <1>12 DEF Receive, AccessOK, TypeOK
<1>13. ASSUME NEW w \in Workers, Publish(w) \/ RunStage(w) \/ StoreResult(w) \/ Raise(w)
                                 \/ LoseProcess(w)
       PROVE  AccessOK(i)'
  BY <1>1, <1>13 DEF Publish, RunStage, StoreResult, Raise, LoseProcess, jobVars
<1>14. ASSUME NEW u \in Users, LeaveStream(u) \/ \E j \in Jobs : OpenStream(u, j)
       PROVE  AccessOK(i)'
  BY <1>1, <1>14 DEF LeaveStream, OpenStream, jobVars
<1>15. CASE UNCHANGED vars
  BY <1>1, <1>15 DEF vars
<1> QED
  BY <1>2, <1>3, <1>4, <1>5, <1>6, <1>7, <1>8, <1>10, <1>11, <1>12, <1>13, <1>14, <1>15
     DEF Next, JobStep, Work

\* The initial state satisfies the inductive invariant.
LEMMA InitIInv == Init => IInv
<1> SUFFICES ASSUME Init PROVE IInv
  OBVIOUS
<1>1. TypeOK
  BY CrashAssumption DEF Init, TypeOK, Stages, Document, Complete
<1>2. RunInv /\ OneRunAtATime /\ NoLostJob /\ AccessInv
  BY DEF Init, RunInv, RunOK, OneRunAtATime, NoLostJob, AccessInv, AccessOK
<1>3. CompleteBeforeVerdict
  BY VerdictsAssumption DEF Init, CompleteBeforeVerdict
<1> QED
  BY <1>1, <1>2, <1>3 DEF IInv

\* IInv holds in every reachable state.
THEOREM Inductive == SafeSpec => []IInv
<1>1. IInv /\ [Next]_vars => IInv'
  BY TypeNext, RunNext, AccessNext DEF IInv, RunGoal
<1> QED
  BY <1>1, InitIInv, PTL DEF SafeSpec

-----------------------------------------------------------------------------
\* Type correctness.
THEOREM TypeCorrect == SafeSpec => []TypeOK
  BY Inductive, PTL DEF IInv

\* The message of a job is acknowledged only when an outcome of it is stored,
\* however many workers die and however often the job is run.
THEOREM NoJobIsLost == SafeSpec => []NoLostJob
  BY Inductive, PTL DEF IInv

\* A job is never run by two workers at the same time.
THEOREM RunsAreExclusive == SafeSpec => []OneRunAtATime
  BY Inductive, PTL DEF IInv

\* No verdict can be read before its "complete" event is out.
THEOREM CompleteComesFirst == SafeSpec => []CompleteBeforeVerdict
  BY Inductive, PTL DEF IInv

\* A job is open to its submitter from the reply on, and to no other analyst.
THEOREM AccessControl == SafeSpec => []ReadableBySubmitterOnly
<1>1. IInv => ReadableBySubmitterOnly
  <2> SUFFICES ASSUME IInv, NEW j \in Jobs
               PROVE  /\ \A u \in Users \ Oversight : Authorized(u, j) => submitter[j] = u
                      /\ handler[j] = "replied" /\ submitter[j] # Channel =>
                           Authorized(submitter[j], j) /\ status[j] # NoStatus
    BY DEF ReadableBySubmitterOnly
  <2>1. AccessOK(j)
    BY DEF IInv, AccessInv
  <2> QED
    BY <2>1 DEF AccessOK, Authorized
<1> QED
  BY <1>1, Inductive, PTL

\* A stored verdict never changes.
THEOREM VerdictsAreFinal == SafeSpec => VerdictIsFinal
<1>1. IInv /\ [Next]_vars =>
        [\A j \in Jobs : result[j] \in Verdicts => result'[j] = result[j]]_vars
  <2> SUFFICES ASSUME IInv, [Next]_vars, NEW j \in Jobs, result[j] \in Verdicts
               PROVE  result'[j] = result[j]
    OBVIOUS
  <2>1. CASE UNCHANGED result
    BY <2>1
  <2>2. ASSUME NEW w \in Workers, NEW i \in Jobs, Receive(w, i)
        PROVE  result'[j] = result[j]
    BY <2>2 DEF Receive, Stored, IInv, TypeOK
  <2>3. ASSUME NEW w \in Workers, StoreResult(w)
        PROVE  result'[j] = result[j]
    BY <2>3 DEF StoreResult, Stored, IInv, TypeOK
  <2> QED
    BY <2>1, <2>2, <2>3
       DEF Next, JobStep, Work, vars, jobVars, Begin, Enqueue, WriteQueued, WriteOwner,
           HandlerFails, Redeliver, SetStatus, Publish, RunStage, Raise, LoseProcess, Ack,
           Crash, LeaveStream, OpenStream
<1> QED
  BY <1>1, Inductive, PTL DEF SafeSpec, VerdictIsFinal

-----------------------------------------------------------------------------
\* How a step that changes only the result and the message of one job looks to the
\* clients of the pipeline.
LEMMA LifeStep ==
  ASSUME TypeOK, NEW j \in Jobs,
         \A i \in Jobs \ {j} : result'[i] = result[i] /\ msg'[i] = msg[i]
  PROVE  life' = [life EXCEPT ![j] = LifeOf(result'[j], msg'[j])]
  BY DEF life, LifeOf

\* Every step of the pipeline is a step of the life cycle of one job, or none.
LEMMA LifeNext == IInv /\ [Next]_vars => [Lifecycle!Next]_life
<1> SUFFICES ASSUME IInv, [Next]_vars PROVE [Lifecycle!Next]_life
  OBVIOUS
<1>0. TypeOK
  BY DEF IInv
<1>1. CASE UNCHANGED <<result, msg>>
  BY <1>1 DEF life, LifeOf
<1>2. ASSUME NEW j \in Jobs, Enqueue(j) PROVE [Lifecycle!Next]_life
  <2>1. msg[j] = "none" /\ msg'[j] = "ready" /\ result' = result
    BY <1>0, <1>2 DEF Enqueue, TypeOK, IInv, AccessInv, AccessOK
  <2>2. life' = [life EXCEPT ![j] = LifeOf(result'[j], msg'[j])]
    BY <1>0, <1>2, LifeStep DEF Enqueue, TypeOK
  <2>3. CASE result[j] \in Verdicts
    BY <2>1, <2>2, <2>3 DEF life, LifeOf
  <2>4. CASE result[j] \notin Verdicts
    BY <2>1, <2>2, <2>4 DEF life, LifeOf, Lifecycle!Next, Lifecycle!Accept
  <2> QED
    BY <2>3, <2>4
<1>3. ASSUME NEW j \in Jobs, Redeliver(j) PROVE [Lifecycle!Next]_life
  <2>1. msg[j] = "orphaned" /\ msg'[j] = "ready" /\ result' = result
    BY <1>0, <1>3 DEF Redeliver, Restorable, TypeOK
  <2>2. life' = [life EXCEPT ![j] = LifeOf(result'[j], msg'[j])]
    BY <1>0, <1>3, LifeStep DEF Redeliver, TypeOK
  <2> QED
    BY <2>1, <2>2 DEF life, LifeOf
<1>4. ASSUME NEW w \in Workers, NEW j \in Jobs, Receive(w, j) PROVE [Lifecycle!Next]_life
  <2>1. /\ msg[j] = "ready" /\ msg'[j] = "held"
        /\ result'[j] = Stored(result[j], "STARTED")
    BY <1>0, <1>4 DEF Receive, OnReceipt, TypeOK
  <2>2. life' = [life EXCEPT ![j] = LifeOf(result'[j], msg'[j])]
    BY <1>0, <1>4, LifeStep DEF Receive, TypeOK
  <2> QED
    BY <2>1, <2>2, VerdictsAssumption DEF life, LifeOf, Stored
<1>5. ASSUME NEW w \in Workers, StoreResult(w) PROVE [Lifecycle!Next]_life
  <2> DEFINE j == job[w]
  <2>1. j \in Jobs /\ msg[j] = "held"
    BY <1>5, BusyWorkerHasJob DEF StoreResult, IInv
  <2>2. /\ msg' = msg
        /\ result'[j] = Stored(result[j], outcome[w])
        /\ outcome[w] \in Verdicts \cup {"FAILURE"}
    BY <1>0, <1>5, <2>1 DEF StoreResult, TypeOK, IInv, RunInv, RunOK
  <2>3. life' = [life EXCEPT ![j] = LifeOf(result'[j], msg'[j])]
    BY <1>0, <1>5, <2>1, LifeStep DEF StoreResult, TypeOK
  <2>4. CASE result[j] \in Verdicts \/ outcome[w] = "FAILURE"
    BY <2>1, <2>2, <2>3, <2>4, VerdictsAssumption DEF life, LifeOf, Stored
  <2>5. CASE result[j] \notin Verdicts /\ outcome[w] \in Verdicts
    BY <2>1, <2>2, <2>3, <2>5
       DEF life, LifeOf, Stored, Lifecycle!Next, Lifecycle!Settle
  <2> QED
    BY <2>2, <2>4, <2>5
<1>6. ASSUME NEW w \in Workers, Ack(w) PROVE [Lifecycle!Next]_life
  <2> DEFINE j == job[w]
  <2>1. j \in Jobs /\ msg[j] = "held"
    BY <1>6, BusyWorkerHasJob DEF Ack, IInv
  <2>2. msg'[j] = "acked" /\ result' = result
    BY <1>0, <1>6, <2>1 DEF Ack, TypeOK
  <2>3. life' = [life EXCEPT ![j] = LifeOf(result'[j], msg'[j])]
    BY <1>0, <1>6, <2>1, LifeStep DEF Ack, TypeOK
  <2>4. CASE result[j] \in Verdicts
    BY <2>1, <2>2, <2>3, <2>4 DEF life, LifeOf
  <2>5. CASE result[j] \notin Verdicts
    BY <2>1, <2>2, <2>3, <2>5 DEF life, LifeOf, Lifecycle!Next, Lifecycle!Settle
  <2> QED
    BY <2>4, <2>5
<1>7. ASSUME NEW w \in Workers, Crash(w) PROVE [Lifecycle!Next]_life
  <2> DEFINE j == job[w]
  <2>1. j \in Jobs /\ msg[j] = "held"
    BY <1>7, CrashOrphans DEF IInv
  <2>2. msg'[j] = "orphaned" /\ result' = result
    BY <1>0, <1>7, <2>1 DEF Crash, TypeOK
  <2>3. life' = [life EXCEPT ![j] = LifeOf(result'[j], msg'[j])]
    BY <1>0, <1>7, <2>1, LifeStep DEF Crash, TypeOK
  <2> QED
    BY <2>1, <2>2, <2>3 DEF life, LifeOf
<1> QED
  BY <1>1, <1>2, <1>3, <1>4, <1>5, <1>6, <1>7
     DEF Next, JobStep, Work, vars, jobVars, Begin, WriteQueued, WriteOwner, HandlerFails,
         SetStatus, Publish, RunStage, Raise, LoseProcess, LeaveStream, OpenStream

\* The pipeline implements the life cycle of a job: each job is settled at most
\* once, and what its clients are told never changes.
THEOREM Implementation == SafeSpec => Lifecycle!SafeSpec
<1>1. Init => Lifecycle!Init
  BY VerdictsAssumption DEF Init, Lifecycle!Init, life, LifeOf
<1> QED
  BY <1>1, LifeNext, Inductive, PTL DEF SafeSpec, Lifecycle!SafeSpec

-----------------------------------------------------------------------------
\* Until its message is put back on the queue, the pct stored for a job is at most
\* that of the stage its run has reached.
ProgressInv ==
  \A j \in Jobs : j \notin redelivered =>
    /\ msg[j] \in {"none", "ready"} => status[j] <= Queued
    /\ \A w \in Workers : job[w] = j /\ step[w] \in {"set", "publish", "run"}
         => status[j] <= Pct[at[w]]

\* The status key, when present, holds a number, and so does the pct of a stage.
LEMMA StatusIsInt ==
  ASSUME TypeOK
  PROVE  /\ \A j \in Jobs : status[j] \in Int
         /\ \A w \in Workers : at[w] \in Stages /\ Pct[at[w]] \in 5 .. 100
<1>1. ASSUME NEW j \in Jobs PROVE status[j] \in Int
  <2>1. status[j] \in {NoStatus, Queued} \cup {Pct[s] : s \in Stages}
    BY DEF TypeOK
  <2>2. CASE status[j] \in {NoStatus, Queued}
    BY <2>2 DEF NoStatus, Queued
  <2>3. CASE \E s \in Stages : status[j] = Pct[s]
    BY <2>3, PctTable
  <2> QED
    BY <2>1, <2>2, <2>3
<1>2. ASSUME NEW w \in Workers PROVE at[w] \in Stages /\ Pct[at[w]] \in 5 .. 100
  BY PctTable DEF TypeOK
<1> QED
  BY <1>1, <1>2

\* Every step preserves ProgressInv.
LEMMA ProgressNext == IInv /\ ProgressInv /\ [Next]_vars => ProgressInv'
<1> SUFFICES ASSUME IInv, ProgressInv, [Next]_vars,
                    NEW j \in Jobs, j \notin redelivered'
             PROVE  /\ msg'[j] \in {"none", "ready"} => status'[j] <= Queued
                    /\ \A w \in Workers :
                         job'[w] = j /\ step'[w] \in {"set", "publish", "run"}
                           => status'[j] <= Pct[at'[w]]
  BY DEF ProgressInv
<1> DEFINE Goal == /\ msg'[j] \in {"none", "ready"} => status'[j] <= Queued
                   /\ \A w \in Workers :
                        job'[w] = j /\ step'[w] \in {"set", "publish", "run"}
                          => status'[j] <= Pct[at'[w]]
<1>0. TypeOK /\ RunInv
  BY DEF IInv
<1>00. /\ status[j] \in Int
       /\ \A w \in Workers : at[w] \in Stages /\ Pct[at[w]] \in 5 .. 100
  <2>1. j \in Jobs
    OBVIOUS
  <2> QED
    BY <1>0, <2>1, StatusIsInt
<1>1. CASE UNCHANGED <<status, msg, redelivered, worker>>
  BY <1>1 DEF ProgressInv, worker
<1>2. ASSUME NEW i \in Jobs, Enqueue(i) PROVE Goal
  BY <1>0, <1>2 DEF Enqueue, worker, TypeOK, ProgressInv, IInv, AccessInv, AccessOK
<1>3. ASSUME NEW i \in Jobs, WriteQueued(i) PROVE Goal
  <2>1. /\ UNCHANGED <<job, at, step, msg, redelivered>>
        /\ status'[j] = IF j = i THEN 0 ELSE status[j]
    BY <1>0, <1>3 DEF WriteQueued, worker, Queued, TypeOK
  <2>2. CASE j = i
    BY <1>00, <2>1, <2>2 DEF Queued
  <2>3. CASE j # i
    BY <2>1, <2>3 DEF ProgressInv
  <2> QED
    BY <2>2, <2>3
<1>4. ASSUME NEW i \in Jobs, Redeliver(i) PROVE Goal
  BY <1>0, <1>4 DEF Redeliver, Restorable, worker, TypeOK, ProgressInv
<1>5. ASSUME NEW w \in Workers, NEW i \in Jobs, Receive(w, i) PROVE Goal
  <2>1. Pct[Document] >= 5 /\ Document \in Stages
    BY PctTable DEF Stages, Document, Complete
  <2>2. /\ UNCHANGED <<status, redelivered>>
        /\ msg[i] = "ready" /\ msg' = [msg EXCEPT ![i] = "held"]
        /\ job' = [job EXCEPT ![w] = i] /\ at' = [at EXCEPT ![w] = Document]
        /\ step' = [step EXCEPT ![w] = "set"]
    BY <1>5 DEF Receive, Assign, OnReceipt
  <2>3. msg'[j] \in {"none", "ready"} => status'[j] <= Queued
    BY <1>0, <2>2 DEF TypeOK, ProgressInv
  <2>4. ASSUME NEW v \in Workers, job'[v] = j, step'[v] \in {"set", "publish", "run"}
        PROVE  status'[j] <= Pct[at'[v]]
    <3>1. CASE v = w
      <4>1. j = i /\ at'[v] = Document /\ status'[j] = status[j]
        BY <1>0, <2>2, <2>4, <3>1 DEF TypeOK
      <4>2. status[j] <= 0
        BY <2>2, <4>1 DEF ProgressInv, Queued
      <4> QED
        BY <1>00, <2>1, <4>1, <4>2, PctTable
    <3>2. CASE v # w
      BY <1>0, <2>2, <2>4, <3>2 DEF TypeOK, ProgressInv
    <3> QED
      BY <3>1, <3>2
  <2> QED
    BY <2>3, <2>4
<1>6. ASSUME NEW w \in Workers, SetStatus(w) PROVE Goal
  <2>1. job[w] \in Jobs /\ msg[job[w]] = "held"
    BY <1>0, <1>6, BusyWorkerHasJob DEF SetStatus
  <2>2. \A v \in Workers : job[v] = job[w] => v = w
    BY <2>1, UsersAssumption DEF IInv, OneRunAtATime
  <2> QED
    BY <1>0, <1>00, <1>6, <2>1, <2>2 DEF SetStatus, Goto, TypeOK, ProgressInv
<1>7. ASSUME NEW w \in Workers, Publish(w) PROVE Goal
  BY <1>0, <1>7 DEF Publish, Goto, TypeOK, ProgressInv
<1>8. ASSUME NEW w \in Workers, RunStage(w) PROVE Goal
  <2>1. at[w] # Complete
    BY <1>0, <1>8 DEF RunStage, RunInv, RunOK
  <2>2. at[w] + 1 \in Stages /\ Pct[at[w]] <= Pct[at[w] + 1] /\ Pct[at[w] + 1] \in 5 .. 100
    BY <1>00, <2>1, PctTable
  <2>3. /\ UNCHANGED <<job, status, msg, redelivered>>
        /\ step[w] = "run" /\ at' = [at EXCEPT ![w] = at[w] + 1]
        /\ step' = [step EXCEPT ![w] = "set"]
    BY <1>8 DEF RunStage, NextStage, AfterBody, jobVars
  <2>4. msg'[j] \in {"none", "ready"} => status'[j] <= Queued
    BY <2>3 DEF ProgressInv
  <2>5. ASSUME NEW v \in Workers, job'[v] = j, step'[v] \in {"set", "publish", "run"}
        PROVE  status'[j] <= Pct[at'[v]]
    <3>1. CASE v = w
      <4>1. at'[v] = at[w] + 1 /\ status'[j] = status[j]
        BY <1>0, <2>3, <3>1 DEF TypeOK
      <4>2. status[j] <= Pct[at[w]]
        BY <2>3, <2>5, <3>1 DEF ProgressInv
      <4>3. status[j] \in Int /\ Pct[at[w]] \in Int /\ Pct[at[w] + 1] \in Int
        BY <1>00, <2>2
      <4>4. status[j] <= Pct[at[w] + 1]
        <5>1. Pct[at[w]] <= Pct[at[w] + 1]
          BY <2>2
        <5> QED
          BY <4>2, <4>3, <5>1, SMTT(30)
      <4> QED
        BY <4>1, <4>4, Zenon
    <3>2. CASE v # w
      BY <1>0, <2>3, <2>5, <3>2 DEF TypeOK, ProgressInv
    <3> QED
      BY <3>1, <3>2
  <2> QED
    BY <2>4, <2>5
<1>9. ASSUME NEW w \in Workers, Raise(w) \/ LoseProcess(w) \/ StoreResult(w) PROVE Goal
  BY <1>0, <1>9 DEF Raise, LoseProcess, StoreResult, Goto, jobVars, TypeOK, ProgressInv
<1>10. ASSUME NEW w \in Workers, Ack(w) \/ Crash(w) PROVE Goal
  <2>1. job[w] \in Jobs
    BY <1>0, <1>10, BusyWorkerHasJob DEF Ack, Crash
  <2> QED
    BY <1>0, <1>10, <2>1 DEF Ack, Crash, Assign, TypeOK, ProgressInv
<1> QED
  BY <1>1, <1>2, <1>3, <1>4, <1>5, <1>6, <1>7, <1>8, <1>9, <1>10
     DEF Next, JobStep, Work, vars, jobVars, Begin, WriteOwner, HandlerFails, LeaveStream,
         OpenStream

\* The pct a poller reads goes back only for a job that is run again.
THEOREM ProgressGoesForward == SafeSpec => ProgressForward
<1>1. Init => ProgressInv
  BY DEF Init, ProgressInv, NoStatus, Queued
<1>2. IInv /\ ProgressInv /\ [Next]_vars =>
        [\A j \in Jobs : handler[j] \in {"replied", "failed"} /\ j \notin redelivered
                           => status'[j] >= status[j]]_vars
  <2> SUFFICES ASSUME IInv, ProgressInv, [Next]_vars, NEW j \in Jobs,
                      handler[j] \in {"replied", "failed"}, j \notin redelivered
               PROVE  status'[j] >= status[j]
    OBVIOUS
  <2>0. TypeOK /\ status[j] \in Int
    BY StatusIsInt DEF IInv
  <2>1. CASE UNCHANGED status
    BY <2>0, <2>1
  <2>2. ASSUME NEW i \in Jobs, WriteQueued(i) PROVE status'[j] >= status[j]
    BY <2>0, <2>2 DEF WriteQueued, TypeOK
  <2>3. ASSUME NEW w \in Workers, SetStatus(w) PROVE status'[j] >= status[j]
    <3>1. at[w] \in Stages
      BY <2>0 DEF TypeOK
    <3>2. Pct[at[w]] \in Int
      BY <3>1, PctTable
    <3>3. step[w] = "set" /\ status' = [status EXCEPT ![job[w]] = Pct[at[w]]]
      BY <2>3 DEF SetStatus
    <3>4. job[w] = j => status[j] <= Pct[at[w]]
      BY <3>3 DEF ProgressInv
    <3>5. CASE job[w] = j
      <4>1. status'[j] = Pct[at[w]]
        BY <2>0, <3>3, <3>5 DEF TypeOK
      <4> QED
        BY <2>0, <3>2, <3>4, <3>5, <4>1
    <3>6. CASE job[w] # j
      <4>1. status'[j] = status[j]
        BY <2>0, <3>3, <3>6 DEF TypeOK
      <4> QED
        BY <2>0, <4>1
    <3> QED
      BY <3>5, <3>6
  <2> QED
    BY <2>1, <2>2, <2>3
       DEF Next, JobStep, Work, vars, jobVars, Begin, Enqueue, WriteOwner, HandlerFails, Redeliver,
           Receive, Publish, RunStage, Raise, LoseProcess, StoreResult, Ack, Crash,
           LeaveStream,
           OpenStream
<1> QED
  BY <1>1, <1>2, ProgressNext, Inductive, PTL DEF SafeSpec, ProgressForward
=============================================================================
