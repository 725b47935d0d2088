-------------------------- MODULE SubmissionProofs --------------------------
(***************************************************************************)
(* Proofs about Submission, for any requests, processes, limit and window. *)
(* The limiter: as long as a counter lives it is at least the number of    *)
(* requests let in during the last Window, as each of them renewed it; so  *)
(* who is let in makes no window exceed the limit.  The store: a request   *)
(* that found the bucket there never tries to make it.                     *)
(***************************************************************************)
EXTENDS Submission, FiniteSetTheorems, TLAPS

\* The requests of u that were let in less than a Window ago.
Recent(u) == Calls(u, now - Window + 1, now + 1) \cap letIn

\* Who was let in renewed the counter of its user.
Renewed ==
  \A r \in letIn : phase[r] # "new" /\ called[r] + Window <= expires[From[r]]

NotAhead == \A r \in Requests : phase[r] # "new" => called[r] <= now

Counted == \A u \in Users : now < expires[u] => Cardinality(Recent(u)) <= hits[u]

\* The counter of a user dates from one of its calls.
HasCall ==
  \A u \in Users : expires[u] > 0 =>
    \E r \in Requests : From[r] = u /\ phase[r] # "new" /\ called[r] + Window = expires[u]

\* Who was refused had another call of its user behind it, less than a Window ago.
RefusedAfterCall ==
  \A r \in Requests : phase[r] = "refused" =>
    \E q \in Requests \ {r} : /\ From[q] = From[r] /\ phase[q] # "new"
                              /\ called[r] < called[q] + Window /\ called[q] <= called[r]

LimiterInv == Renewed /\ NotAhead /\ Counted /\ HasCall /\ RefusedAfterCall

\* What a step does to the limiter: nothing, or a call that reaches it or is lost.
Quiet ==
  /\ UNCHANGED <<now, hits, expires, called, letIn>>
  /\ \A r \in Requests : /\ phase'[r] = "new" <=> phase[r] = "new"
                         /\ phase'[r] = "refused" <=> phase[r] = "refused"

Leaves(r) ==
  /\ phase[r] = "new" /\ phase'[r] # "new"
  /\ \A q \in Requests \ {r} : phase'[q] = phase[q]
  /\ called' = [called EXCEPT ![r] = now]

Reaches(r) ==
  /\ Leaves(r)
  /\ Count(From[r])
  /\ phase'[r] = "refused" => ~Allowed(From[r])
  /\ letIn' = letIn \/ (letIn' = letIn \cup {r} /\ Allowed(From[r]))

Lost(r) ==
  /\ Leaves(r) /\ phase'[r] # "refused"
  /\ UNCHANGED <<now, hits, expires, letIn>>

\* A thread whose request came when there was a bucket finds it.
LateFindsBucket ==
  \A r \in Requests \ early :
    phase[r] \in Media => bucket /\ call[r] \in {"client", "connect", "exists", "put"}

-----------------------------------------------------------------------------
(* Type correctness.                                                       *)

LEMMA ProceedType ==
  ASSUME NEW r \in Requests, NEW rest, Proceed(r, rest), SubmissionTypeOK
  PROVE  /\ phase' = [phase EXCEPT ![r] = phase'[r]]
         /\ call' = [call EXCEPT ![r] = call'[r]]
         /\ phase'[r] \in Media \cup {"accepted"}
         /\ call'[r] = IF phase'[r] = "accepted" THEN "none" ELSE "client"
  BY DEF Proceed, Goes, SubmissionTypeOK, Media

LEMMA CountType ==
  ASSUME NEW u \in Users, Count(u), SubmissionTypeOK
  PROVE  /\ now' = now
         /\ hits' \in [Users -> Nat]
         /\ expires' \in [Users -> 0 .. MaxTime + Window]
  BY LimiterAssumption
     DEF Count, Incremented, Gone, Expiry, SubmissionTypeOK

LEMMA TypeNext == SubmissionTypeOK /\ [Next]_vars => SubmissionTypeOK'
<1> SUFFICES ASSUME SubmissionTypeOK, [Next]_vars PROVE SubmissionTypeOK'
  OBVIOUS
<1> USE LimiterAssumption, RequestsAssumption, StoreAssumption
<1>1. CASE UNCHANGED vars
  BY <1>1 DEF vars, limiterVars, storeVars, requestVars, failureVars, SubmissionTypeOK
<1>2. CASE Tick /\ UNCHANGED <<storeVars, requestVars, failureVars>>
  BY <1>2 DEF Tick, storeVars, requestVars, failureVars, SubmissionTypeOK
<1>3. ASSUME NEW r \in Requests, Ask(r) PROVE SubmissionTypeOK'
  <2>1. From[r] \in Users
    OBVIOUS
  <2>2. /\ now' = now /\ hits' \in [Users -> Nat]
        /\ expires' \in [Users -> 0 .. MaxTime + Window]
    BY <1>3, <2>1, CountType DEF Ask
  <2>3. called' \in [Requests -> 0 .. MaxTime] /\ UNCHANGED <<client, bucket, lifecycle, stored, failureVars>>
    BY <1>3 DEF Ask, SubmissionTypeOK
  <2>4. CASE Allowed(From[r])
    <3>1. /\ letIn' \subseteq Requests /\ early' \subseteq Requests
          /\ Proceed(r, Carried[r]) /\ Placed(r)
      BY <1>3, <2>4 DEF Ask, SubmissionTypeOK
    <3>2. place' \in [Requests -> Processes]
      BY <3>1 DEF Placed, SubmissionTypeOK
    <3> QED
      BY <2>2, <2>3, <3>1, <3>2, ProceedType DEF SubmissionTypeOK, Media, failureVars
  <2>5. CASE ~Allowed(From[r])
    <3>1. phase' = [phase EXCEPT ![r] = "refused"] /\ phase[r] = "new"
          /\ UNCHANGED <<letIn, early, call, place>>
      BY <1>3, <2>5 DEF Ask
    <3> QED
      BY <2>2, <2>3, <3>1 DEF SubmissionTypeOK, Media, failureVars
  <2> QED
    BY <2>4, <2>5
<1>4. ASSUME NEW r \in Requests, Uploading(r) PROVE SubmissionTypeOK'
  <2>1. UNCHANGED <<now, hits, expires, phase, called, letIn, early, faults, ruleLost>>
    BY <1>4 DEF Uploading, limiterVars, requestVars, failureVars
  <2>2. CASE TestClient(r)
    BY <2>1, <2>2 DEF TestClient, Goes, MinioCalls, SubmissionTypeOK
  <2>6. CASE SetClient(r)
    BY <2>1, <2>6 DEF SetClient, Goes, MinioCalls, SubmissionTypeOK
  <2>3. CASE BucketExists(r)
    BY <2>1, <2>3 DEF BucketExists, IfMissing, Goes, MinioCalls, SubmissionTypeOK
  <2>4. CASE MakeBucket(r)
    BY <2>1, <2>4 DEF MakeBucket, AfterMake, Goes, MinioCalls, SubmissionTypeOK
  <2>5. CASE SetLifecycle(r)
    BY <2>1, <2>5 DEF SetLifecycle, Goes, MinioCalls, SubmissionTypeOK
  <2> QED
    BY <1>4, <2>2, <2>3, <2>4, <2>5, <2>6 DEF Uploading, Prepare
<1>5. ASSUME NEW r \in Requests, Uploaded(r) PROVE SubmissionTypeOK'
  <2>1. /\ UNCHANGED <<now, hits, expires, called, letIn, early, failureVars, client, bucket,
                       lifecycle, place>>
        /\ call[r] = "put" /\ stored' = stored \cup {<<r, phase[r]>>}
    BY <1>5 DEF Uploaded, PutObject, limiterVars
  <2>2. phase[r] \in Media
    BY <2>1 DEF SubmissionTypeOK
  <2>3. Proceed(r, IF phase[r] = "document" THEN Carried[r] \ {"document"} ELSE {})
    BY <1>5 DEF Uploaded
  <2> QED
    BY <2>1, <2>2, <2>3, ProceedType DEF SubmissionTypeOK, Media, failureVars
<1>6. ASSUME NEW r \in Requests, Fail(r)
      PROVE  /\ UNCHANGED <<letIn, early, client, place>>
             /\ phase' \in [Requests -> Media \cup {"new", "refused", "accepted", "failed"}]
             /\ call' \in [Requests -> {"none", "client", "connect"} \cup MinioCalls]
             /\ \A q \in Requests : call'[q] = "none" <=> phase'[q] \notin Media
  BY <1>6 DEF Fail, Goes, SubmissionTypeOK, Media
<1>7. ASSUME NEW r \in Requests, UploadFails(r) PROVE SubmissionTypeOK'
  BY <1>6, <1>7 DEF UploadFails, limiterVars, failureVars, SubmissionTypeOK
<1>8. ASSUME NEW r \in Requests, CallFails(r) PROVE SubmissionTypeOK'
  <2>1. faults' \in 0 .. MaxFaults
    BY <1>8 DEF CallFails, SubmissionTypeOK
  <2>2. CASE /\ phase[r] = "new"
             /\ Count(From[r]) \/ UNCHANGED limiterVars
             /\ called' = [called EXCEPT ![r] = now]
             /\ UNCHANGED <<bucket, lifecycle, stored, ruleLost>>
    <3>1. /\ now' = now /\ hits' \in [Users -> Nat]
          /\ expires' \in [Users -> 0 .. MaxTime + Window]
      BY <2>2, CountType DEF limiterVars, SubmissionTypeOK
    <3>2. called' \in [Requests -> 0 .. MaxTime]
      BY <2>2 DEF SubmissionTypeOK
    <3> QED
      BY <1>6, <1>8, <2>1, <2>2, <3>1, <3>2 DEF CallFails, SubmissionTypeOK
  <2>3. CASE /\ phase[r] \in Media /\ call[r] \in MinioCalls
             /\ bucket' \in {bucket, bucket \/ call[r] = "make"}
             /\ lifecycle' \in {lifecycle, lifecycle \/ call[r] = "rule"}
             /\ stored' \in {stored, IF call[r] = "put" /\ bucket
                                     THEN stored \cup {<<r, phase[r]>>} ELSE stored}
             /\ ruleLost' = \/ ruleLost
                            \/ bucket # bucket'
                            \/ call[r] = "rule" /\ ~lifecycle'
             /\ UNCHANGED <<limiterVars, called>>
    <3>1. bucket' \in BOOLEAN /\ lifecycle' \in BOOLEAN /\ ruleLost' \in BOOLEAN
      BY <2>3 DEF SubmissionTypeOK
    <3>2. stored' \subseteq Requests \X Media
      BY <2>3 DEF SubmissionTypeOK
    <3> QED
      BY <1>6, <1>8, <2>1, <2>3, <3>1, <3>2 DEF CallFails, limiterVars, SubmissionTypeOK
  <2> QED
    BY <1>8, <2>2, <2>3 DEF CallFails
<1>9. ASSUME NEW p \in Processes, Restart(p) PROVE SubmissionTypeOK'
  <2>1. /\ UNCHANGED <<now, hits, expires, bucket, lifecycle, stored, place, called, letIn, early>>
        /\ client' = client \ {p} /\ faults' \in 0 .. MaxFaults /\ ruleLost' \in BOOLEAN
    BY <1>9 DEF Restart, limiterVars, SubmissionTypeOK
  <2>2. /\ phase' \in [Requests -> Media \cup {"new", "refused", "accepted", "failed"}]
        /\ call' \in [Requests -> {"none", "client", "connect"} \cup MinioCalls]
        /\ \A q \in Requests : call'[q] = "none" <=> phase'[q] \notin Media
    BY <1>9 DEF Restart, SubmissionTypeOK, Media
  <2> QED
    BY <2>1, <2>2 DEF SubmissionTypeOK
<1>10. CASE PurgeObject
  BY <1>10 DEF PurgeObject, Purge, limiterVars, requestVars, failureVars, SubmissionTypeOK
<1> QED
  BY <1>1, <1>2, <1>3, <1>4, <1>5, <1>7, <1>8, <1>9, <1>10 DEF Next

\* Every reachable state is well typed (RateLimiter, MediaStore, submit_assessment).
THEOREM SubmissionTypeCorrect == Spec => []SubmissionTypeOK
<1>1. Init => SubmissionTypeOK
  <2> SUFFICES ASSUME Init PROVE SubmissionTypeOK
    OBVIOUS
  <2>1. \A r \in Requests : place[r] \in Processes
    BY StoreAssumption DEF Init, StoreInit
  <2>2. place = [r \in Requests |-> place[r]]
    BY DEF Init, StoreInit
  <2>3. place \in [Requests -> Processes]
    BY <2>1, <2>2
  <2>4. /\ now = 0 /\ hits = [u \in Users |-> 0] /\ expires = [u \in Users |-> 0]
        /\ client = {} /\ bucket = FALSE /\ lifecycle = FALSE /\ stored = {}
        /\ call = [r \in Requests |-> "none"] /\ phase = [r \in Requests |-> "new"]
        /\ called = [r \in Requests |-> 0] /\ letIn = {} /\ early = {} /\ faults = 0
        /\ ruleLost = FALSE
    BY DEF Init, LimiterInit, StoreInit
  <2>5. 0 \in 0 .. MaxTime /\ 0 \in 0 .. MaxTime + Window /\ 0 \in 0 .. MaxFaults
    BY LimiterAssumption, RequestsAssumption
  <2>6. \A r \in Requests : call[r] = "none" <=> phase[r] \notin Media
    BY <2>4 DEF Media
  <2> QED
    BY <2>3, <2>4, <2>5, <2>6 DEF SubmissionTypeOK
<1> QED
  BY <1>1, TypeNext, PTL DEF Spec, SafeSpec

-----------------------------------------------------------------------------
(* The limiter.                                                            *)

LEMMA Kinds ==
  ASSUME SubmissionTypeOK, [Next]_vars
  PROVE  \/ Quiet
         \/ Tick /\ UNCHANGED <<phase, called, letIn>>
         \/ \E r \in Requests : Reaches(r) \/ Lost(r)
<1>1. CASE UNCHANGED vars
  BY <1>1 DEF vars, limiterVars, requestVars, Quiet
<1>2. CASE Tick /\ UNCHANGED <<storeVars, requestVars, failureVars>>
  BY <1>2 DEF requestVars
<1>3. ASSUME NEW r \in Requests, Ask(r) PROVE Reaches(r)
  <2>1. CASE Allowed(From[r])
    <3>1. Proceed(r, Carried[r]) /\ letIn' = letIn \cup {r}
      BY <1>3, <2>1 DEF Ask
    <3>2. /\ phase' = [phase EXCEPT ![r] = phase'[r]]
          /\ phase'[r] \in Media \cup {"accepted"}
      BY <3>1, ProceedType
    <3> QED
      BY <1>3, <2>1, <3>1, <3>2 DEF Ask, Reaches, Leaves, SubmissionTypeOK, Media
  <2>2. CASE ~Allowed(From[r])
    BY <1>3, <2>2 DEF Ask, Reaches, Leaves, SubmissionTypeOK
  <2> QED
    BY <2>1, <2>2
<1>4. ASSUME NEW r \in Requests, Uploading(r) PROVE Quiet
  BY <1>4 DEF Uploading, limiterVars, requestVars, Quiet
<1>5. ASSUME NEW r \in Requests, Uploaded(r) PROVE Quiet
  <2>1. Proceed(r, IF phase[r] = "document" THEN Carried[r] \ {"document"} ELSE {})
    BY <1>5 DEF Uploaded
  <2>2. phase[r] \in Media
    BY <1>5 DEF Uploaded, PutObject, SubmissionTypeOK
  <2>3. /\ phase' = [phase EXCEPT ![r] = phase'[r]]
        /\ phase'[r] \in Media \cup {"accepted"}
    BY <2>1, ProceedType
  <2> QED
    BY <1>5, <2>2, <2>3 DEF Uploaded, limiterVars, Quiet, SubmissionTypeOK, Media
<1>6. ASSUME NEW r \in Requests, UploadFails(r) PROVE Quiet
  <2>1. phase[r] \in Media
    BY <1>6 DEF UploadFails, Rejected, SubmissionTypeOK
  <2> QED
    BY <1>6, <2>1 DEF UploadFails, Fail, limiterVars, Quiet, SubmissionTypeOK, Media
<1>7. ASSUME NEW r \in Requests, CallFails(r) PROVE Quiet \/ Reaches(r) \/ Lost(r)
  <2>1. phase' = [phase EXCEPT ![r] = "failed"] /\ letIn' = letIn
    BY <1>7 DEF CallFails, Fail
  <2>2. CASE phase[r] = "new" /\ called' = [called EXCEPT ![r] = now] /\ Count(From[r])
    BY <2>1, <2>2 DEF Reaches, Leaves, SubmissionTypeOK
  <2>3. CASE phase[r] = "new" /\ called' = [called EXCEPT ![r] = now] /\ UNCHANGED limiterVars
    BY <2>1, <2>3 DEF Lost, Leaves, limiterVars, SubmissionTypeOK
  <2>4. CASE phase[r] \in Media /\ UNCHANGED <<limiterVars, called>>
    BY <2>1, <2>4 DEF Quiet, limiterVars, SubmissionTypeOK, Media
  <2> QED
    BY <1>7, <2>2, <2>3, <2>4 DEF CallFails
<1>8. ASSUME NEW p \in Processes, Restart(p) PROVE Quiet
  BY <1>8 DEF Restart, limiterVars, Quiet, SubmissionTypeOK, Media
<1>9. CASE PurgeObject
  BY <1>9 DEF PurgeObject, limiterVars, requestVars, Quiet
<1> QED
  BY <1>1, <1>2, <1>3, <1>4, <1>5, <1>6, <1>7, <1>8, <1>9 DEF Next

LEMMA SmallerIsFewer ==
  ASSUME NEW S \in SUBSET Requests, NEW R \in SUBSET S
  PROVE  /\ IsFiniteSet(S) /\ Cardinality(S) \in Nat /\ Cardinality(R) \in Nat
         /\ Cardinality(R) <= Cardinality(S)
<1>1. IsFiniteSet(S)
  BY RequestsAssumption, FS_Subset
<1>2. IsFiniteSet(R) /\ Cardinality(R) <= Cardinality(S)
  BY <1>1, FS_Subset
<1> QED
  BY <1>1, <1>2, FS_CardinalityType

LEMMA OneMore ==
  ASSUME NEW S \in SUBSET Requests, NEW R \in SUBSET Requests, NEW r, R \subseteq S \cup {r}
  PROVE  Cardinality(R) <= Cardinality(S) + 1
<1>1. IsFiniteSet(S) /\ Cardinality(S) \in Nat
  BY SmallerIsFewer
<1>2. /\ IsFiniteSet(S \cup {r})
      /\ Cardinality(S \cup {r}) = Cardinality(S) \/ Cardinality(S \cup {r}) = Cardinality(S) + 1
  BY <1>1, FS_AddElement
<1>3. Cardinality(R) <= Cardinality(S \cup {r}) /\ IsFiniteSet(R)
  BY <1>2, FS_Subset
<1>4. Cardinality(R) \in Nat /\ Cardinality(S \cup {r}) \in Nat
  BY <1>2, <1>3, FS_CardinalityType
<1> QED
  BY <1>1, <1>2, <1>3, <1>4

LEMMA RecentIsRequests ==
  ASSUME NEW u PROVE Recent(u) \in SUBSET Requests /\ Recent(u)' \in SUBSET Requests
  BY DEF Recent, Calls

\* A counter that is gone counted nobody let in during the last Window.
LEMMA GoneIsEmpty ==
  ASSUME SubmissionTypeOK, LimiterInv, NEW u \in Users, Gone(u)
  PROVE  Recent(u) = {}
  BY LimiterAssumption, RequestsAssumption
     DEF Gone, Recent, Calls, LimiterInv, Renewed, SubmissionTypeOK

LEMMA CountedOnCall ==
  ASSUME SubmissionTypeOK, SubmissionTypeOK', LimiterInv, NEW r \in Requests, Reaches(r)
  PROVE  Counted'
<1> DEFINE w == From[r]
<1>1. w \in Users
  BY RequestsAssumption
<1>2. Recent(w)' \subseteq Recent(w) \cup {r}
  BY DEF Reaches, Leaves, Count, Recent, Calls, SubmissionTypeOK
<1>3. hits'[w] = Incremented(w)
  BY <1>1 DEF Reaches, Count, SubmissionTypeOK
<1>4. Cardinality(Recent(w)') <= hits'[w]
  <2>1. CASE Gone(w)
    <3>1. Recent(w)' \subseteq {} \cup {r}
      BY <1>1, <1>2, <2>1, GoneIsEmpty
    <3>2. Cardinality(Recent(w)') <= Cardinality({}) + 1
      BY <3>1, OneMore, RecentIsRequests
    <3> QED
      BY <1>3, <2>1, <3>2, FS_EmptySet DEF Incremented
  <2>2. CASE ~Gone(w)
    <3>1. Cardinality(Recent(w)') <= Cardinality(Recent(w)) + 1
      BY <1>2, OneMore, RecentIsRequests
    <3>2. Cardinality(Recent(w)) <= hits[w] /\ hits[w] \in Nat
      BY <1>1, <2>2 DEF Gone, LimiterInv, Counted, SubmissionTypeOK
    <3>3. Cardinality(Recent(w)) \in Nat /\ Cardinality(Recent(w)') \in Nat
      BY SmallerIsFewer, RecentIsRequests
    <3> QED
      BY <1>3, <2>2, <3>1, <3>2, <3>3 DEF Incremented
  <2> QED
    BY <2>1, <2>2
<1>5. ASSUME NEW u \in Users, u # w, now' < expires'[u]
      PROVE  Cardinality(Recent(u)') <= hits'[u]
  <2>1. Recent(u)' \subseteq Recent(u)
    BY <1>5 DEF Reaches, Leaves, Count, Recent, Calls, SubmissionTypeOK
  <2>2. hits'[u] = hits[u] /\ now < expires[u] /\ hits[u] \in Nat
    BY <1>5 DEF Reaches, Count, SubmissionTypeOK
  <2>3. Cardinality(Recent(u)) <= hits[u]
    BY <2>2 DEF LimiterInv, Counted
  <2>4. /\ Cardinality(Recent(u)') <= Cardinality(Recent(u))
        /\ Cardinality(Recent(u)) \in Nat /\ Cardinality(Recent(u)') \in Nat
    BY <2>1, SmallerIsFewer, RecentIsRequests
  <2> QED
    BY <2>2, <2>3, <2>4
<1> QED
  BY <1>4, <1>5 DEF Counted

\* Steps that let nobody in leave as many in the last Window, or fewer.
LEMMA CountedOtherwise ==
  ASSUME SubmissionTypeOK, SubmissionTypeOK', LimiterInv,
         UNCHANGED <<hits, expires>>, now' = now \/ now' = now + 1,
         \A u \in Users : Recent(u)' \subseteq Recent(u)
  PROVE  Counted'
<1> SUFFICES ASSUME NEW u \in Users, now' < expires'[u]
             PROVE  Cardinality(Recent(u)') <= hits'[u]
  BY DEF Counted
<1>1. now < expires[u] /\ hits[u] \in Nat /\ hits'[u] = hits[u]
  BY LimiterAssumption DEF SubmissionTypeOK
<1>2. Cardinality(Recent(u)) <= hits[u]
  BY <1>1 DEF LimiterInv, Counted
<1>3. /\ Cardinality(Recent(u)') <= Cardinality(Recent(u))
      /\ Cardinality(Recent(u)) \in Nat /\ Cardinality(Recent(u)') \in Nat
  BY SmallerIsFewer, RecentIsRequests
<1> QED
  BY <1>1, <1>2, <1>3

LEMMA LimiterNext ==
  ASSUME SubmissionTypeOK, SubmissionTypeOK', LimiterInv, [Next]_vars
  PROVE  LimiterInv'
<1> USE LimiterAssumption, RequestsAssumption
<1>1. CASE Quiet
  <2>1. Renewed' /\ NotAhead' /\ HasCall' /\ RefusedAfterCall'
    BY <1>1 DEF Quiet, LimiterInv, Renewed, NotAhead, HasCall, RefusedAfterCall, SubmissionTypeOK
  <2>2. \A u \in Users : Recent(u)' \subseteq Recent(u)
    BY <1>1 DEF Quiet, Recent, Calls
  <2>3. UNCHANGED <<hits, expires>> /\ now' = now
    BY <1>1 DEF Quiet
  <2> QED
    BY <2>1, <2>2, <2>3, CountedOtherwise DEF LimiterInv
<1>2. CASE Tick /\ UNCHANGED <<phase, called, letIn>>
  <2>1. Renewed' /\ NotAhead' /\ HasCall' /\ RefusedAfterCall'
    BY <1>2 DEF Tick, LimiterInv, Renewed, NotAhead, HasCall, RefusedAfterCall, SubmissionTypeOK
  <2>2. \A u \in Users : Recent(u)' \subseteq Recent(u)
    BY <1>2 DEF Tick, LimiterInv, NotAhead, Recent, Calls, SubmissionTypeOK
  <2>3. UNCHANGED <<hits, expires>> /\ now' = now + 1
    BY <1>2 DEF Tick
  <2> QED
    BY <2>1, <2>2, <2>3, CountedOtherwise DEF LimiterInv
<1>3. ASSUME NEW r \in Requests, Lost(r) PROVE LimiterInv'
  <2>1. Renewed' /\ NotAhead'
    BY <1>3 DEF Lost, Leaves, LimiterInv, Renewed, NotAhead, SubmissionTypeOK
  <2>2. HasCall'
    BY <1>3 DEF Lost, Leaves, LimiterInv, HasCall, SubmissionTypeOK
  <2>3. RefusedAfterCall'
    BY <1>3 DEF Lost, Leaves, LimiterInv, RefusedAfterCall, SubmissionTypeOK
  <2>4. \A u \in Users : Recent(u)' \subseteq Recent(u)
    BY <1>3 DEF Lost, Leaves, LimiterInv, Renewed, Recent, Calls, SubmissionTypeOK
  <2>5. UNCHANGED <<hits, expires>> /\ now' = now
    BY <1>3 DEF Lost
  <2> QED
    BY <2>1, <2>2, <2>3, <2>4, <2>5, CountedOtherwise DEF LimiterInv
<1>4. ASSUME NEW r \in Requests, Reaches(r) PROVE LimiterInv'
  <2>1. Renewed' /\ NotAhead'
    BY <1>4 DEF Reaches, Leaves, Count, Expiry, LimiterInv, Renewed, NotAhead, SubmissionTypeOK
  <2>2. HasCall'
    BY <1>4 DEF Reaches, Leaves, Count, Expiry, LimiterInv, HasCall, SubmissionTypeOK
  <2>3. RefusedAfterCall'
    <3>1. ASSUME phase'[r] = "refused"
          PROVE  \E q \in Requests \ {r} : /\ From[q] = From[r] /\ phase'[q] # "new"
                                          /\ called'[r] < called'[q] + Window
                                          /\ called'[q] <= called'[r]
      <4>1. now < expires[From[r]] /\ From[r] \in Users /\ now \in Nat
        BY <1>4, <3>1 DEF Reaches, Allowed, Incremented, Gone, SubmissionTypeOK
      <4>2. PICK q \in Requests : /\ From[q] = From[r] /\ phase[q] # "new"
                                  /\ called[q] + Window = expires[From[r]]
        BY <4>1 DEF LimiterInv, HasCall, SubmissionTypeOK
      <4>3. q # r /\ called[q] <= now
        BY <1>4, <4>2 DEF Reaches, Leaves, LimiterInv, NotAhead
      <4> QED
        BY <1>4, <4>1, <4>2, <4>3 DEF Reaches, Leaves, SubmissionTypeOK
    <3> QED
      BY <1>4, <3>1 DEF Reaches, Leaves, LimiterInv, RefusedAfterCall, SubmissionTypeOK
  <2> QED
    BY <1>4, <2>1, <2>2, <2>3, CountedOnCall DEF LimiterInv
<1> QED
  BY <1>1, <1>2, <1>3, <1>4, Kinds

LEMMA LimiterStarts == Init => LimiterInv
<1> SUFFICES ASSUME Init PROVE LimiterInv
  OBVIOUS
<1>1. Renewed /\ NotAhead /\ HasCall /\ RefusedAfterCall
  BY RequestsAssumption
     DEF Init, LimiterInit, Renewed, NotAhead, HasCall, RefusedAfterCall
<1>2. Counted
  BY DEF Init, LimiterInit, Counted
<1> QED
  BY <1>1, <1>2 DEF LimiterInv

LEMMA WindowNext ==
  ASSUME SubmissionTypeOK, SubmissionTypeOK', LimiterInv, LimiterInv', [Next]_vars,
         LimitPerWindow
  PROVE  LimitPerWindow'
<1> SUFFICES ASSUME NEW u \in Users, NEW t \in 0 .. MaxTime
             PROVE  Cardinality((Calls(u, t, t + Window) \cap letIn)') <= Limit
  BY DEF LimitPerWindow
<1> DEFINE W == Calls(u, t, t + Window) \cap letIn
<1>1. Cardinality(W) <= Limit /\ W \in SUBSET Requests /\ W' \in SUBSET Requests
  BY DEF LimitPerWindow, Calls
<1>2. CASE W' \subseteq W
  BY <1>1, <1>2, SmallerIsFewer, LimiterAssumption
<1>3. ASSUME NEW r \in Requests, Reaches(r), ~(W' \subseteq W)
      PROVE  Cardinality(W') <= Limit
  <2>1. r \in W' /\ letIn' = letIn \cup {r} /\ Allowed(From[r])
    BY <1>3 DEF Reaches, Leaves, LimiterInv, Renewed, Calls, SubmissionTypeOK
  <2>2. u = From[r] /\ t <= now /\ now < t + Window /\ now' = now
    BY <1>3, <2>1 DEF Reaches, Leaves, Count, Calls, SubmissionTypeOK
  <2>3. W' \subseteq Recent(u)'
    BY <2>2, LimiterAssumption
       DEF Recent, Calls, LimiterInv, NotAhead, SubmissionTypeOK
  <2>4. hits'[u] <= Limit /\ now' < expires'[u]
    BY <1>3, <2>1, <2>2, LimiterAssumption
       DEF Reaches, Count, Allowed, Expiry, SubmissionTypeOK
  <2>5. Cardinality(Recent(u)') <= hits'[u] /\ hits'[u] \in Nat
    BY <2>4 DEF LimiterInv, Counted, SubmissionTypeOK
  <2>6. /\ Cardinality(W') <= Cardinality(Recent(u)')
        /\ Cardinality(W') \in Nat /\ Cardinality(Recent(u)') \in Nat
    BY <2>3, SmallerIsFewer, RecentIsRequests
  <2> QED
    BY <2>4, <2>5, <2>6, LimiterAssumption
<1>4. CASE Quiet
  <2>1. W' \subseteq W
    BY <1>4 DEF Quiet, Calls
  <2> QED
    BY <1>2, <2>1
<1>5. CASE Tick /\ UNCHANGED <<phase, called, letIn>>
  <2>1. W' \subseteq W
    BY <1>5 DEF Calls
  <2> QED
    BY <1>2, <2>1
<1>6. ASSUME NEW r \in Requests, Lost(r) PROVE Cardinality(W') <= Limit
  <2>1. W' \subseteq W
    BY <1>6 DEF Lost, Leaves, LimiterInv, Renewed, Calls, SubmissionTypeOK
  <2> QED
    BY <1>2, <2>1
<1> QED
  BY <1>2, <1>3, <1>4, <1>5, <1>6, Kinds

\* The limiter's invariant: a counter that lives is no smaller than the number of
\* requests it let in during the last Window, and dates from a call of its user.
THEOREM LimiterInductive == Spec => []LimiterInv
<1>1. SubmissionTypeOK /\ SubmissionTypeOK' /\ LimiterInv /\ [Next]_vars => LimiterInv'
  BY LimiterNext
<1> QED
  BY <1>1, LimiterStarts, SubmissionTypeCorrect, PTL DEF Spec, SafeSpec

\* rate_limit_check never lets a user in more than Limit times within any Window.
THEOREM NeverAboveTheLimit == Spec => []LimitPerWindow
<1>1. Init => LimitPerWindow
  <2> SUFFICES ASSUME Init, NEW u \in Users, NEW t \in 0 .. MaxTime
               PROVE  Cardinality(Calls(u, t, t + Window) \cap letIn) <= Limit
    BY DEF LimitPerWindow
  <2>1. Calls(u, t, t + Window) \cap letIn = {}
    BY DEF Init
  <2> QED
    BY <2>1, FS_EmptySet, LimiterAssumption
<1>2. SubmissionTypeOK /\ SubmissionTypeOK' /\ LimiterInv /\ LimiterInv' /\ [Next]_vars
        /\ LimitPerWindow => LimitPerWindow'
  BY WindowNext
<1> QED
  BY <1>1, <1>2, LimiterInductive, SubmissionTypeCorrect, PTL DEF Spec, SafeSpec

\* rate_limit_check only refuses a user with another call during the last Window.
THEOREM RefusedOnlyAfterCalls == Spec => []LetInAfterPause
<1>1. SubmissionTypeOK /\ LimiterInv => LetInAfterPause
  <2> SUFFICES ASSUME SubmissionTypeOK, LimiterInv, NEW r \in Requests, phase[r] = "refused"
               PROVE  Calls(From[r], called[r] - Window + 1, called[r] + 1) # {r}
    BY DEF LetInAfterPause
  <2>1. PICK q \in Requests \ {r} :
          /\ From[q] = From[r] /\ phase[q] # "new"
          /\ called[r] < called[q] + Window /\ called[q] <= called[r]
    BY DEF LimiterInv, RefusedAfterCall
  <2>2. q \in Calls(From[r], called[r] - Window + 1, called[r] + 1)
    BY <2>1, LimiterAssumption DEF Calls, SubmissionTypeOK
  <2> QED
    BY <2>1, <2>2
<1> QED
  BY <1>1, LimiterInductive, SubmissionTypeCorrect, PTL

-----------------------------------------------------------------------------
(* The store.                                                              *)

LEMMA LateNext ==
  ASSUME SubmissionTypeOK, SubmissionTypeOK', LateFindsBucket, [Next]_vars
  PROVE  LateFindsBucket'
<1>1. CASE UNCHANGED vars
  BY <1>1 DEF vars, storeVars, requestVars, LateFindsBucket
<1>2. CASE Tick /\ UNCHANGED <<storeVars, requestVars, failureVars>>
  BY <1>2 DEF storeVars, requestVars, LateFindsBucket
<1>3. ASSUME NEW r \in Requests, Ask(r) PROVE LateFindsBucket'
  <2>1. CASE Allowed(From[r])
    <3>1. /\ Proceed(r, Carried[r]) /\ bucket' = bucket
          /\ early' = IF bucket \/ Carried[r] = {} THEN early ELSE early \cup {r}
      BY <1>3, <2>1 DEF Ask
    <3>2. /\ phase' = [phase EXCEPT ![r] = phase'[r]]
          /\ call' = [call EXCEPT ![r] = call'[r]]
          /\ call'[r] = IF phase'[r] = "accepted" THEN "none" ELSE "client"
      BY <3>1, ProceedType
    <3>3. Carried[r] = {} => phase'[r] = "accepted"
      BY <3>1 DEF Proceed, SubmissionTypeOK
    <3> QED
      BY <3>1, <3>2, <3>3 DEF LateFindsBucket, SubmissionTypeOK, Media
  <2>2. CASE ~Allowed(From[r])
    BY <1>3, <2>2 DEF Ask, LateFindsBucket, SubmissionTypeOK, Media
  <2> QED
    BY <2>1, <2>2
<1>4. ASSUME NEW r \in Requests, Uploading(r) PROVE LateFindsBucket'
  BY <1>4 DEF Uploading, Prepare, TestClient, SetClient, BucketExists, IfMissing, MakeBucket, SetLifecycle,
              Goes, requestVars, LateFindsBucket, SubmissionTypeOK
<1>5. ASSUME NEW r \in Requests, Uploaded(r) PROVE LateFindsBucket'
  <2>1. Proceed(r, IF phase[r] = "document" THEN Carried[r] \ {"document"} ELSE {})
    BY <1>5 DEF Uploaded
  <2>2. /\ phase' = [phase EXCEPT ![r] = phase'[r]]
        /\ call' = [call EXCEPT ![r] = call'[r]]
        /\ call'[r] = IF phase'[r] = "accepted" THEN "none" ELSE "client"
    BY <2>1, ProceedType
  <2>3. bucket /\ bucket' /\ early' = early
    BY <1>5 DEF Uploaded, PutObject
  <2> QED
    BY <2>2, <2>3 DEF LateFindsBucket, SubmissionTypeOK, Media
<1>6. ASSUME NEW r \in Requests, UploadFails(r) PROVE LateFindsBucket'
  BY <1>6 DEF UploadFails, Fail, Goes, LateFindsBucket, SubmissionTypeOK, Media
<1>7. ASSUME NEW r \in Requests, CallFails(r) PROVE LateFindsBucket'
  <2>1. bucket => bucket'
    BY <1>7 DEF CallFails
  <2>2. /\ phase' = [phase EXCEPT ![r] = "failed"] /\ call' = [call EXCEPT ![r] = "none"]
        /\ early' = early
    BY <1>7 DEF CallFails, Fail, Goes
  <2> QED
    BY <2>1, <2>2 DEF LateFindsBucket, SubmissionTypeOK, Media
<1>8. ASSUME NEW p \in Processes, Restart(p) PROVE LateFindsBucket'
  BY <1>8 DEF Restart, LateFindsBucket, SubmissionTypeOK, Media
<1>9. CASE PurgeObject
  BY <1>9 DEF PurgeObject, Purge, requestVars, LateFindsBucket
<1> QED
  BY <1>1, <1>2, <1>3, <1>4, <1>5, <1>6, <1>7, <1>8, <1>9 DEF Next

LEMMA FirstNext ==
  ASSUME SubmissionTypeOK, LateFindsBucket, FirstUseOnly, [Next]_vars
  PROVE  FirstUseOnly'
<1> SUFFICES ASSUME faults' = 0, NEW q \in Requests, phase'[q] = "failed" PROVE q \in early'
  BY DEF FirstUseOnly
<1>1. CASE UNCHANGED vars
  BY <1>1 DEF vars, requestVars, failureVars, FirstUseOnly
<1>2. CASE Tick /\ UNCHANGED <<storeVars, requestVars, failureVars>>
  BY <1>2 DEF requestVars, failureVars, FirstUseOnly
<1>3. ASSUME NEW r \in Requests, Ask(r) PROVE q \in early'
  <2>1. early \subseteq early' /\ faults' = faults
    BY <1>3 DEF Ask, failureVars
  <2>2. phase[q] = "failed"
    <3>1. CASE Allowed(From[r])
      <4>1. Proceed(r, Carried[r])
        BY <1>3, <3>1 DEF Ask
      <4> QED
        BY <4>1, ProceedType DEF SubmissionTypeOK, Media
    <3>2. CASE ~Allowed(From[r])
      BY <1>3, <3>2 DEF Ask, SubmissionTypeOK
    <3> QED
      BY <3>1, <3>2
  <2> QED
    BY <2>1, <2>2 DEF FirstUseOnly
<1>4. ASSUME NEW r \in Requests, Uploading(r) PROVE q \in early'
  BY <1>4 DEF Uploading, requestVars, failureVars, FirstUseOnly
<1>5. ASSUME NEW r \in Requests, Uploaded(r) PROVE q \in early'
  <2>1. Proceed(r, IF phase[r] = "document" THEN Carried[r] \ {"document"} ELSE {})
    BY <1>5 DEF Uploaded
  <2>2. phase[q] = "failed"
    BY <2>1, ProceedType DEF SubmissionTypeOK, Media
  <2> QED
    BY <1>5, <2>2 DEF Uploaded, failureVars, FirstUseOnly
<1>6. ASSUME NEW r \in Requests, UploadFails(r) PROVE q \in early'
  <2>1. r \in early
    BY <1>6 DEF UploadFails, Rejected, LateFindsBucket, SubmissionTypeOK
  <2> QED
    BY <1>6, <2>1 DEF UploadFails, Fail, failureVars, FirstUseOnly, SubmissionTypeOK
<1>7. ASSUME NEW r \in Requests, CallFails(r) PROVE FALSE
  BY <1>7 DEF CallFails, SubmissionTypeOK
<1>8. ASSUME NEW p \in Processes, Restart(p) PROVE FALSE
  BY <1>8 DEF Restart, SubmissionTypeOK
<1>9. CASE PurgeObject
  BY <1>9 DEF PurgeObject, requestVars, failureVars, FirstUseOnly
<1> QED
  BY <1>1, <1>2, <1>3, <1>4, <1>5, <1>6, <1>7, <1>8, <1>9 DEF Next

\* While the thread that made the bucket goes on it is at the rule.
LEMMA RuleNext ==
  ASSUME SubmissionTypeOK, RuleOrCreator, [Next]_vars
  PROVE  RuleOrCreator'
<1> SUFFICES ASSUME bucket', ~lifecycle', ~ruleLost'
             PROVE  \E q \in Requests : call'[q] = "rule"
  BY DEF RuleOrCreator
<1>0. ASSUME bucket, ~lifecycle, ~ruleLost PROVE \E q \in Requests : call[q] = "rule"
  BY <1>0 DEF RuleOrCreator
<1>1. CASE UNCHANGED vars
  BY <1>0, <1>1 DEF vars, storeVars, failureVars
<1>2. CASE Tick /\ UNCHANGED <<storeVars, requestVars, failureVars>>
  BY <1>0, <1>2 DEF storeVars, failureVars
<1>3. ASSUME NEW r \in Requests, Ask(r) PROVE \E q \in Requests : call'[q] = "rule"
  <2>1. PICK q \in Requests : call[q] = "rule"
    BY <1>0, <1>3 DEF Ask, failureVars
  <2>2. q # r
    BY <1>3, <2>1 DEF Ask, SubmissionTypeOK, Media
  <2>3. call'[q] = call[q]
    <3>1. CASE Allowed(From[r])
      <4>1. Proceed(r, Carried[r])
        BY <1>3, <3>1 DEF Ask
      <4> QED
        BY <2>2, <4>1 DEF Proceed, Goes, SubmissionTypeOK
    <3>2. CASE ~Allowed(From[r])
      BY <1>3, <3>2 DEF Ask
    <3> QED
      BY <3>1, <3>2
  <2> QED
    BY <2>1, <2>3
<1>4. ASSUME NEW r \in Requests, Uploading(r) PROVE \E q \in Requests : call'[q] = "rule"
  <2>1. CASE MakeBucket(r)
    BY <2>1 DEF MakeBucket, AfterMake, Goes, SubmissionTypeOK
  <2>2. CASE SetLifecycle(r)
    BY <2>2 DEF SetLifecycle
  <2>3. CASE TestClient(r) \/ SetClient(r) \/ BucketExists(r)
    <3>1. PICK q \in Requests : call[q] = "rule"
      BY <1>0, <1>4, <2>3
         DEF Uploading, TestClient, SetClient, BucketExists, failureVars
    <3> QED
      BY <2>3, <3>1 DEF TestClient, SetClient, BucketExists, Goes, SubmissionTypeOK
  <2> QED
    BY <1>4, <2>1, <2>2, <2>3 DEF Uploading, Prepare
<1>5. ASSUME NEW r \in Requests, Uploaded(r) PROVE \E q \in Requests : call'[q] = "rule"
  <2>1. PICK q \in Requests : call[q] = "rule"
    BY <1>0, <1>5 DEF Uploaded, PutObject, failureVars
  <2> QED
    BY <1>5, <2>1 DEF Uploaded, PutObject, Proceed, Goes, SubmissionTypeOK
<1>6. ASSUME NEW r \in Requests, UploadFails(r) PROVE \E q \in Requests : call'[q] = "rule"
  <2>1. PICK q \in Requests : call[q] = "rule"
    BY <1>0, <1>6 DEF UploadFails, failureVars
  <2> QED
    BY <1>6, <2>1 DEF UploadFails, Rejected, Fail, Goes, SubmissionTypeOK
<1>7. ASSUME NEW r \in Requests, CallFails(r) PROVE \E q \in Requests : call'[q] = "rule"
  <2>1. /\ bucket /\ ~lifecycle /\ ~ruleLost
        /\ call[r] # "rule"
        /\ call' = [call EXCEPT ![r] = "none"]
    <3>1. call' = [call EXCEPT ![r] = "none"]
      BY <1>7 DEF CallFails, Fail, Goes
    <3>2. CASE phase[r] = "new" /\ UNCHANGED <<bucket, lifecycle, stored, ruleLost>>
      BY <3>1, <3>2 DEF SubmissionTypeOK, Media
    <3>3. CASE /\ lifecycle' \in {lifecycle, lifecycle \/ call[r] = "rule"}
               /\ ruleLost' = \/ ruleLost
                              \/ bucket # bucket'
                              \/ call[r] = "rule" /\ ~lifecycle'
      BY <3>1, <3>3 DEF SubmissionTypeOK
    <3> QED
      BY <1>7, <3>2, <3>3 DEF CallFails
  <2>2. PICK q \in Requests : call[q] = "rule"
    BY <1>0, <2>1
  <2> QED
    BY <2>1, <2>2 DEF SubmissionTypeOK
<1>8. ASSUME NEW p \in Processes, Restart(p) PROVE \E q \in Requests : call'[q] = "rule"
  <2>1. PICK q \in Requests : call[q] = "rule"
    BY <1>0, <1>8 DEF Restart
  <2> QED
    BY <1>8, <2>1 DEF Restart
<1>9. CASE PurgeObject
  BY <1>9 DEF PurgeObject, Purge
<1> QED
  BY <1>1, <1>2, <1>3, <1>4, <1>5, <1>6, <1>7, <1>8, <1>9 DEF Next

\* Without failures an upload only fails when it began before there was a bucket
\* (_get_client, upload_media).
THEOREM RaceIsFirstUseOnly == Spec => []FirstUseOnly
<1>1. Init => LateFindsBucket /\ FirstUseOnly
  BY DEF Init, StoreInit, LateFindsBucket, FirstUseOnly, Media
<1>2. SubmissionTypeOK /\ SubmissionTypeOK' /\ LateFindsBucket /\ FirstUseOnly /\ [Next]_vars
        => LateFindsBucket' /\ FirstUseOnly'
  BY LateNext, FirstNext
<1> QED
  BY <1>1, <1>2, SubmissionTypeCorrect, PTL DEF Spec, SafeSpec

\* A bucket that lacks the rule has a thread about to set it (_get_client), however many
\* raced and whatever failed, unless that thread itself was lost at this point.
THEOREM RuleIsOnItsWay == Spec => []RuleOrCreator
<1>1. Init => RuleOrCreator
  BY DEF Init, StoreInit, RuleOrCreator
<1>2. SubmissionTypeOK /\ RuleOrCreator /\ [Next]_vars => RuleOrCreator'
  BY RuleNext
<1> QED
  BY <1>1, <1>2, SubmissionTypeCorrect, PTL DEF Spec, SafeSpec
=============================================================================
