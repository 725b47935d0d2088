------------------------- MODULE IdentityGraphProofs -------------------------
(***************************************************************************)
(* Proofs about IdentityGraph: for every set of applicants and whatever    *)
(* they submit, no pair of runs misses what they share, and no one is the  *)
(* duplicate of someone with another email and another phone.              *)
(***************************************************************************)
EXTENDS IdentityGraph, TLAPS

\* What a run has passed is in the graph, unless a clear_graph removed it.
Written ==
  \A a \in Applicants \ wiped, k \in Kinds :
    at[a] > k /\ Recorded(a, k) => <<a, k, profile[a][k]>> \in edges

\* The graph holds nothing but recorded values of their own applicants.
OwnValues ==
  \A a \in Applicants, k \in Kinds, v \in Values :
    <<a, k, v>> \in edges => v = profile[a][k] /\ Recorded(a, k)

\* Of two runs past check_duplicate, one found somebody if they share a contact.
DuplicateSeen ==
  \A a, b \in Applicants \ wiped, k \in {Email, Phone} :
    a # b /\ at[a] > CheckStep /\ at[b] > CheckStep /\ Share(a, b, k)
      => dup[a] # None \/ dup[b] # None

\* Of two runs past find_shared_resources, one found the resource they share.
ShareSeen ==
  \A a, b \in Applicants \ wiped, k \in Kinds :
    a # b /\ at[a] > ShareStep /\ at[b] > ShareStep /\ Share(a, b, k)
      => k \in shared[a] \cup shared[b]

Reported == \A a \in Applicants : at[a] = Done => flags[a] = Flags(a)

IInv == TypeOK /\ Written /\ OwnValues /\ DuplicateSeen /\ ShareSeen /\ Reported

USE DEF Device, IP, Email, Phone, PAN, Kinds, CheckStep, ShareStep, RingStep,
        EgoStep, Done, Idle, Failed

-----------------------------------------------------------------------------
\* The invariant holds when no run has begun.
LEMMA InitInv == Init => IInv
BY AssignmentsAssumption, BoundsAssumption
   DEF Init, IInv, TypeOK, Written, OwnValues, DuplicateSeen, ShareSeen, Reported

\* Every step preserves the type invariant.
LEMMA TypeNext == TypeOK /\ [Next]_vars => TypeOK'
<1> SUFFICES ASSUME TypeOK, [Next]_vars PROVE TypeOK'
  OBVIOUS
<1> USE DEF TypeOK
<1>1. CASE ClearGraph
  BY <1>1, BoundsAssumption DEF ClearGraph, Cleared, locals
<1>2. ASSUME NEW a \in Applicants, Start(a) PROVE TypeOK'
  BY <1>2 DEF Start, locals
<1>3. ASSUME NEW a \in Applicants, MergeEdge(a) PROVE TypeOK'
  <2>1. PICK k \in Unwritten(a) :
          /\ edges' = edges \cup {<<a, k, profile[a][k]>>}
          /\ at' = [at EXCEPT ![a] = k + 1]
    BY <1>3 DEF MergeEdge
  <2>2. k \in Kinds /\ profile[a][k] \in Values
    BY DEF Unwritten, Recorded, Unread
  <2>3. edges' \subseteq Applicants \X Kinds \X Values
    BY <2>1, <2>2
  <2>4. at' \in [Applicants -> Failed .. Done]
    BY <2>1, <2>2
  <2> QED
    BY <1>3, <2>3, <2>4 DEF MergeEdge, locals
<1>4. ASSUME NEW a \in Applicants, CheckDuplicate(a) PROVE TypeOK'
  <2>1. PICK d \in Applicants \cup {None} : dup' = [dup EXCEPT ![a] = d]
    BY <1>4 DEF CheckDuplicate, Matches
  <2> QED
    BY <1>4, <2>1 DEF CheckDuplicate
<1>5. ASSUME NEW a \in Applicants, FindShared(a) PROVE TypeOK'
  BY <1>5 DEF FindShared
<1>6. ASSUME NEW a \in Applicants, DetectRings(a) PROVE TypeOK'
  <2>1. \A S : Linked(S) \subseteq Applicants
    BY DEF Linked
  <2>2. Within(a) \subseteq Applicants
    BY <2>1 DEF Within
  <2>3. ring' \in [Applicants -> SUBSET Applicants]
    BY <1>6, <2>2 DEF DetectRings
  <2> QED
    BY <1>6, <2>3 DEF DetectRings
<1>7. ASSUME NEW a \in Applicants, Report(a) PROVE TypeOK'
  <2>1. Flags(a) \in SUBSET {"GRAPH_DUPLICATE", "GRAPH_RING_MEMBER",
                             "SHARED_DEVICE", "SHARED_IP"}
    BY DEF Flags
  <2> QED
    BY <1>7, <2>1 DEF Report
<1>8. ASSUME NEW a \in Applicants, Fail(a) PROVE TypeOK'
  BY <1>8 DEF Fail, locals
<1>9. ASSUME NEW a \in Applicants, Rerun(a) PROVE TypeOK'
  BY <1>9, BoundsAssumption DEF Rerun
<1>10. CASE UNCHANGED vars
  BY <1>10 DEF vars, locals
<1> QED
  BY <1>1, <1>2, <1>3, <1>4, <1>5, <1>6, <1>7, <1>8, <1>9, <1>10 DEF Next, Step

-----------------------------------------------------------------------------
\* A step of one run that leaves the graph alone, moves only forward, and is
\* neither of the two queries whose answers are compared.
LEMMA QuietStep ==
  ASSUME IInv, NEW a \in Applicants, NEW s \in Failed .. Done,
         at' = [at EXCEPT ![a] = s],
         s > CheckStep => at[a] > CheckStep,
         s > ShareStep => at[a] > ShareStep,
         \A k \in Kinds : s > k => at[a] > k,
         UNCHANGED <<profile, edges, dup, shared, wiped>>
  PROVE  Written' /\ OwnValues' /\ DuplicateSeen' /\ ShareSeen'
<1> USE DEF IInv, TypeOK
<1>1. \A b \in Applicants : at'[b] = IF b = a THEN s ELSE at[b]
  OBVIOUS
<1>2. Written'
  BY <1>1 DEF Written, Recorded, Unread
<1>3. OwnValues'
  BY DEF OwnValues, Recorded, Unread
<1>4. DuplicateSeen'
  BY <1>1 DEF DuplicateSeen, Share, Recorded, Unread
<1>5. ShareSeen'
  BY <1>1 DEF ShareSeen, Share, Recorded, Unread
<1> QED
  BY <1>2, <1>3, <1>4, <1>5

\* Writing one more value: all that comes before it was written.
LEMMA MergeStep ==
  ASSUME IInv, NEW a \in Applicants, MergeEdge(a)
  PROVE  Written' /\ OwnValues' /\ DuplicateSeen' /\ ShareSeen'
<1> USE DEF IInv, TypeOK
<1>1. PICK k \in Unwritten(a) :
        /\ \A l \in Unwritten(a) : k <= l
        /\ edges' = edges \cup {<<a, k, profile[a][k]>>}
        /\ at' = [at EXCEPT ![a] = k + 1]
  BY DEF MergeEdge
<1>2. k \in Kinds /\ Recorded(a, k) /\ at[a] \in Kinds
  BY DEF Unwritten, MergeEdge
<1>3. profile' = profile /\ dup' = dup /\ shared' = shared /\ wiped' = wiped
  BY DEF MergeEdge, locals
<1>4. \A b \in Applicants : at'[b] = IF b = a THEN k + 1 ELSE at[b]
  BY <1>1, <1>2
<1>5. \A l \in Kinds : l < k /\ Recorded(a, l) => at[a] > l
  BY <1>1, <1>2 DEF Unwritten
<1>6. Written'
  <2> SUFFICES ASSUME NEW b \in Applicants \ wiped, NEW l \in Kinds,
                      at'[b] > l, Recorded(b, l)
               PROVE  <<b, l, profile[b][l]>> \in edges'
    BY <1>3 DEF Written, Recorded, Unread
  <2>1. CASE b = a /\ l = k
    BY <2>1, <1>1
  <2>2. CASE b = a /\ l # k
    <3>1. k + 1 > l
      BY <2>2, <1>4
    <3>2. l < k
      BY <3>1, <2>2, <1>2
    <3>3. at[a] > l
      BY <3>2, <2>2, <1>3, <1>5
    <3>4. <<a, l, profile[a][l]>> \in edges
      BY <3>3, <2>2 DEF Written
    <3> QED
      BY <3>4, <2>2, <1>1
  <2>3. CASE b # a
    BY <2>3, <1>1, <1>4 DEF Written
  <2> QED
    BY <2>1, <2>2, <2>3
<1>7. OwnValues'
  BY <1>1, <1>2, <1>3 DEF OwnValues, Recorded, Unread
<1>8. DuplicateSeen'
  BY <1>2, <1>3, <1>4 DEF DuplicateSeen, Share, Recorded, Unread
<1>9. ShareSeen'
  BY <1>2, <1>3, <1>4 DEF ShareSeen, Share, Recorded, Unread
<1> QED
  BY <1>6, <1>7, <1>8, <1>9

\* The duplicate check: whoever is past it already has written its contacts.
LEMMA CheckStepKeeps ==
  ASSUME IInv, NEW a \in Applicants, CheckDuplicate(a)
  PROVE  Written' /\ OwnValues' /\ DuplicateSeen' /\ ShareSeen'
<1> USE DEF IInv, TypeOK
<1>1. /\ at[a] \in Device .. CheckStep
      /\ Unwritten(a) = {}
      /\ at' = [at EXCEPT ![a] = ShareStep]
      /\ UNCHANGED <<profile, edges, shared, wiped>>
  BY DEF CheckDuplicate
<1>2. PICK d \in IF Matches(a) = {} THEN {None} ELSE Matches(a) :
        dup' = [dup EXCEPT ![a] = d]
  BY DEF CheckDuplicate
<1>3. \A b \in Applicants : /\ at'[b] = IF b = a THEN ShareStep ELSE at[b]
                            /\ dup'[b] = IF b = a THEN d ELSE dup[b]
  BY <1>1, <1>2
<1>4. \A k \in Kinds : Recorded(a, k) => at[a] > k
  BY <1>1 DEF Unwritten
<1>5. Written'
  <2> SUFFICES ASSUME NEW b \in Applicants \ wiped, NEW l \in Kinds,
                      at'[b] > l, Recorded(b, l)
               PROVE  <<b, l, profile[b][l]>> \in edges
    BY <1>1 DEF Written, Recorded, Unread
  <2>1. at[b] > l
    BY <1>3, <1>4
  <2> QED
    BY <2>1 DEF Written
<1>6. OwnValues'
  BY <1>1 DEF OwnValues, Recorded, Unread
<1>7. \A b \in Applicants \ wiped, k \in {Email, Phone} :
        b # a /\ at[b] > CheckStep /\ Share(b, a, k) => d # None
  <2> SUFFICES ASSUME NEW b \in Applicants \ wiped, NEW k \in {Email, Phone},
                      b # a, at[b] > CheckStep, Share(b, a, k)
               PROVE  d # None
    OBVIOUS
  <2>1. k \in Kinds /\ at[b] > k
    OBVIOUS
  <2>2. Recorded(b, k) /\ profile[b][k] = profile[a][k]
    BY DEF Share
  <2>3. <<b, k, profile[a][k]>> \in edges
    BY <2>1, <2>2 DEF Written
  <2>4. b \in Matches(a)
    BY <2>3 DEF Matches
  <2>5. d \in Applicants
    BY <2>4, <1>2 DEF Matches
  <2> QED
    BY <2>5, NoneAssumption
<1>8. DuplicateSeen'
  <2> SUFFICES ASSUME NEW b \in Applicants \ wiped, NEW c \in Applicants \ wiped,
                      NEW k \in {Email, Phone}, b # c,
                      at'[b] > CheckStep, at'[c] > CheckStep, Share(b, c, k)
               PROVE  dup'[b] # None \/ dup'[c] # None
    BY <1>1 DEF DuplicateSeen, Share, Recorded, Unread
  <2>1. CASE b = a
    <3>1. Share(c, a, k)
      BY <2>1 DEF Share
    <3> QED
      BY <2>1, <3>1, <1>3, <1>7
  <2>2. CASE c = a
    BY <2>2, <1>3, <1>7
  <2>3. CASE b # a /\ c # a
    BY <2>3, <1>3 DEF DuplicateSeen
  <2> QED
    BY <2>1, <2>2, <2>3
<1>9. ShareSeen'
  BY <1>1, <1>3 DEF ShareSeen, Share, Recorded, Unread
<1> QED
  BY <1>5, <1>6, <1>8, <1>9

\* The search for shared resources: both relationships are there to be matched.
LEMMA ShareStepKeeps ==
  ASSUME IInv, NEW a \in Applicants, FindShared(a)
  PROVE  Written' /\ OwnValues' /\ DuplicateSeen' /\ ShareSeen'
<1> USE DEF IInv, TypeOK
<1> DEFINE Found == {k \in Kinds : \E e \in edges : /\ e[1] # a /\ e[2] = k
                                                   /\ <<a, k, e[3]>> \in edges}
<1>1. /\ at[a] = ShareStep
      /\ at' = [at EXCEPT ![a] = RingStep]
      /\ shared' = [shared EXCEPT ![a] = Found]
      /\ UNCHANGED <<profile, edges, dup, wiped>>
  BY DEF FindShared
<1>2. \A b \in Applicants : /\ at'[b] = IF b = a THEN RingStep ELSE at[b]
                            /\ shared'[b] = IF b = a THEN Found ELSE shared[b]
  BY <1>1
<1>3. Written'
  <2> SUFFICES ASSUME NEW b \in Applicants \ wiped, NEW l \in Kinds,
                      at'[b] > l, Recorded(b, l)
               PROVE  <<b, l, profile[b][l]>> \in edges
    BY <1>1 DEF Written, Recorded, Unread
  <2>1. at[b] > l
    BY <1>1, <1>2
  <2> QED
    BY <2>1 DEF Written
<1>4. OwnValues'
  BY <1>1 DEF OwnValues, Recorded, Unread
<1>5. DuplicateSeen'
  BY <1>1, <1>2 DEF DuplicateSeen, Share, Recorded, Unread
<1>6. \A b \in Applicants \ wiped, k \in Kinds :
        a \notin wiped /\ b # a /\ at[b] > ShareStep /\ profile[a][k] = profile[b][k]
          /\ Recorded(a, k) /\ Recorded(b, k) => k \in Found
  <2> SUFFICES ASSUME NEW b \in Applicants \ wiped, NEW k \in Kinds,
                      a \notin wiped, b # a, at[b] > ShareStep,
                      profile[a][k] = profile[b][k], Recorded(a, k), Recorded(b, k)
               PROVE  k \in Found
    OBVIOUS
  <2>1. at[a] > k /\ at[b] > k
    BY <1>1
  <2>2. <<b, k, profile[b][k]>> \in edges
    BY <2>1 DEF Written
  <2>3. <<a, k, profile[a][k]>> \in edges
    BY <2>1 DEF Written
  <2> QED
    BY <2>2, <2>3
<1>7. ShareSeen'
  <2> SUFFICES ASSUME NEW b \in Applicants \ wiped, NEW c \in Applicants \ wiped,
                      NEW k \in Kinds, b # c,
                      at'[b] > ShareStep, at'[c] > ShareStep,
                      Recorded(b, k), Recorded(c, k), profile[b][k] = profile[c][k]
               PROVE  k \in shared'[b] \cup shared'[c]
    BY <1>1 DEF ShareSeen, Share, Recorded, Unread
  <2>1. CASE b = a
    <3>1. c # a /\ at[c] > ShareStep
      BY <2>1, <1>2
    <3>2. k \in Found
      BY <2>1, <3>1, <1>1, <1>6
    <3> QED
      BY <2>1, <3>2, <1>2
  <2>2. CASE c = a
    <3>1. b # a /\ at[b] > ShareStep
      BY <2>2, <1>2
    <3>2. k \in Found
      BY <2>2, <3>1, <1>1, <1>6
    <3> QED
      BY <2>2, <3>2, <1>2
  <2>3. CASE b # a /\ c # a
    BY <2>3, <1>2 DEF ShareSeen, Share
  <2> QED
    BY <2>1, <2>2, <2>3
<1> QED
  BY <1>3, <1>4, <1>5, <1>7

\* A repeated run starts over: it claims nothing until it has written again.
LEMMA RerunKeeps ==
  ASSUME IInv, NEW a \in Applicants, Rerun(a)
  PROVE  Written' /\ OwnValues' /\ DuplicateSeen' /\ ShareSeen'
<1> USE DEF IInv, TypeOK
<1>1. /\ at' = [at EXCEPT ![a] = Device]
      /\ dup' = [dup EXCEPT ![a] = None]
      /\ shared' = [shared EXCEPT ![a] = {}]
      /\ wiped' = wiped \ {a}
      /\ UNCHANGED <<profile, edges>>
  BY DEF Rerun
<1>2. \A b \in Applicants : /\ at'[b] = IF b = a THEN Device ELSE at[b]
                            /\ b # a => dup'[b] = dup[b] /\ shared'[b] = shared[b]
  BY <1>1
<1>3. Written'
  <2> SUFFICES ASSUME NEW b \in Applicants \ wiped', NEW l \in Kinds,
                      at'[b] > l, Recorded(b, l)
               PROVE  <<b, l, profile[b][l]>> \in edges
    BY <1>1 DEF Written, Recorded, Unread
  <2>1. b # a
    BY <1>2
  <2>2. b \notin wiped /\ at[b] > l
    BY <2>1, <1>1, <1>2
  <2> QED
    BY <2>2 DEF Written
<1>4. OwnValues'
  BY <1>1 DEF OwnValues, Recorded, Unread
<1>5. DuplicateSeen'
  BY <1>1, <1>2 DEF DuplicateSeen, Share, Recorded, Unread
<1>6. ShareSeen'
  BY <1>1, <1>2 DEF ShareSeen, Share, Recorded, Unread
<1> QED
  BY <1>3, <1>4, <1>5, <1>6

\* Whoever clear_graph took something from is wiped, and no one else had anything.
LEMMA ClearKeeps ==
  ASSUME IInv, ClearGraph
  PROVE  Written' /\ OwnValues' /\ DuplicateSeen' /\ ShareSeen'
<1> USE DEF IInv, TypeOK
<1>1. /\ edges' = {} /\ wiped' = wiped \cup {e[1] : e \in edges}
      /\ UNCHANGED <<profile, at, dup, shared>>
  BY DEF ClearGraph, Cleared, locals
<1>2. Written'
  <2> SUFFICES ASSUME NEW b \in Applicants \ wiped', NEW l \in Kinds,
                      at[b] > l, Recorded(b, l)
               PROVE  FALSE
    BY <1>1 DEF Written, Recorded, Unread
  <2>1. <<b, l, profile[b][l]>> \in edges
    BY <1>1 DEF Written
  <2>2. b \in wiped'
    BY <2>1, <1>1
  <2> QED
    BY <2>2
<1>3. OwnValues'
  BY <1>1 DEF OwnValues
<1>4. DuplicateSeen'
  BY <1>1 DEF DuplicateSeen, Share, Recorded, Unread
<1>5. ShareSeen'
  BY <1>1 DEF ShareSeen, Share, Recorded, Unread
<1> QED
  BY <1>2, <1>3, <1>4, <1>5

-----------------------------------------------------------------------------
\* A finished run reports the flags of what its queries returned.
LEMMA ReportedNext == TypeOK /\ Reported /\ [Next]_vars => Reported'
<1> SUFFICES ASSUME TypeOK, Reported, [Next]_vars PROVE Reported'
  OBVIOUS
<1> SUFFICES ASSUME NEW b \in Applicants, at'[b] = Done
             PROVE  flags'[b] = Flags(b)'
  BY DEF Reported
<1> USE DEF TypeOK
<1>1. CASE UNCHANGED <<at, locals>>
  BY <1>1 DEF Reported, Flags, locals
<1>2. ASSUME NEW a \in Applicants, Report(a) PROVE flags'[b] = Flags(b)'
  <2>1. CASE a = b
    BY <1>2, <2>1 DEF Report, Flags
  <2>2. CASE a # b
    BY <1>2, <2>2 DEF Report, Flags, Reported
  <2> QED
    BY <2>1, <2>2
<1>3. ASSUME NEW a \in Applicants,
             \/ Start(a) \/ MergeEdge(a) \/ CheckDuplicate(a) \/ FindShared(a)
             \/ DetectRings(a) \/ Fail(a) \/ Rerun(a)
      PROVE  flags'[b] = Flags(b)'
  <2>1. at'[a] # Done
    <3>1. CASE MergeEdge(a)
      BY <3>1 DEF MergeEdge, Unwritten
    <3>2. CASE ~ MergeEdge(a)
      BY <1>3, <3>2 DEF Start, CheckDuplicate, FindShared, DetectRings, Fail, Rerun
    <3> QED
      BY <3>1, <3>2
  <2>2. at[b] = Done
    BY <1>3, <2>1
       DEF Start, MergeEdge, CheckDuplicate, FindShared, DetectRings, Fail, Rerun
  <2>3. /\ flags'[b] = flags[b] /\ dup'[b] = dup[b]
        /\ shared'[b] = shared[b] /\ ring'[b] = ring[b]
    BY <1>3, <2>1
       DEF Start, MergeEdge, CheckDuplicate, FindShared, DetectRings, Fail, Rerun, locals
  <2> QED
    BY <2>2, <2>3 DEF Reported, Flags
<1> QED
  BY <1>1, <1>2, <1>3 DEF Next, Step, ClearGraph, vars

\* Every step preserves the inductive invariant.
LEMMA NextInv == IInv /\ [Next]_vars => IInv'
<1> SUFFICES ASSUME IInv, [Next]_vars PROVE IInv'
  OBVIOUS
<1>1. TypeOK' /\ Reported'
  BY TypeNext, ReportedNext DEF IInv
<1>2. Written' /\ OwnValues' /\ DuplicateSeen' /\ ShareSeen'
  <2>1. CASE ClearGraph
    BY <2>1, ClearKeeps
  <2>2. ASSUME NEW a \in Applicants, MergeEdge(a)
        PROVE  Written' /\ OwnValues' /\ DuplicateSeen' /\ ShareSeen'
    BY <2>2, MergeStep
  <2>3. ASSUME NEW a \in Applicants, CheckDuplicate(a)
        PROVE  Written' /\ OwnValues' /\ DuplicateSeen' /\ ShareSeen'
    BY <2>3, CheckStepKeeps
  <2>4. ASSUME NEW a \in Applicants, FindShared(a)
        PROVE  Written' /\ OwnValues' /\ DuplicateSeen' /\ ShareSeen'
    BY <2>4, ShareStepKeeps
  <2>5. ASSUME NEW a \in Applicants, Rerun(a)
        PROVE  Written' /\ OwnValues' /\ DuplicateSeen' /\ ShareSeen'
    BY <2>5, RerunKeeps
  <2>6. ASSUME NEW a \in Applicants,
               Start(a) \/ DetectRings(a) \/ Report(a) \/ Fail(a)
        PROVE  Written' /\ OwnValues' /\ DuplicateSeen' /\ ShareSeen'
    <3>1. UNCHANGED <<profile, edges, dup, shared, wiped>>
      BY <2>6 DEF Start, DetectRings, Report, Fail, locals
    <3>2. at[a] \in Failed .. Done
      BY DEF IInv, TypeOK
    <3>3. CASE Start(a)
      <4>1. at' = [at EXCEPT ![a] = Device]
        BY <3>3 DEF Start
      <4>2. /\ Device \in Failed .. Done
            /\ Device > CheckStep => at[a] > CheckStep
            /\ Device > ShareStep => at[a] > ShareStep
            /\ \A k \in Kinds : Device > k => at[a] > k
        BY <3>2, <4>1
      <4> QED
        BY <3>1, <4>1, <4>2, QuietStep
    <3>4. CASE DetectRings(a)
      <4>1. at[a] = RingStep /\ at' = [at EXCEPT ![a] = EgoStep]
        BY <3>4 DEF DetectRings
      <4>2. /\ EgoStep \in Failed .. Done
            /\ EgoStep > CheckStep => at[a] > CheckStep
            /\ EgoStep > ShareStep => at[a] > ShareStep
            /\ \A k \in Kinds : EgoStep > k => at[a] > k
        BY <3>2, <4>1
      <4> QED
        BY <3>1, <4>1, <4>2, QuietStep
    <3>5. CASE Report(a)
      <4>1. at[a] = EgoStep /\ at' = [at EXCEPT ![a] = Done]
        BY <3>5 DEF Report
      <4>2. /\ Done \in Failed .. Done
            /\ Done > CheckStep => at[a] > CheckStep
            /\ Done > ShareStep => at[a] > ShareStep
            /\ \A k \in Kinds : Done > k => at[a] > k
        BY <3>2, <4>1
      <4> QED
        BY <3>1, <4>1, <4>2, QuietStep
    <3>6. CASE Fail(a)
      <4>1. at' = [at EXCEPT ![a] = Failed]
        BY <3>6 DEF Fail
      <4>2. /\ Failed \in Failed .. Done
            /\ Failed > CheckStep => at[a] > CheckStep
            /\ Failed > ShareStep => at[a] > ShareStep
            /\ \A k \in Kinds : Failed > k => at[a] > k
        BY <3>2, <4>1
      <4> QED
        BY <3>1, <4>1, <4>2, QuietStep
    <3> QED
      BY <2>6, <3>3, <3>4, <3>5, <3>6
  <2>7. CASE UNCHANGED vars
    BY <2>7 DEF IInv, vars, locals, Written, OwnValues, DuplicateSeen, ShareSeen,
                Share, Recorded, Unread
  <2> QED
    BY <2>1, <2>2, <2>3, <2>4, <2>5, <2>6, <2>7 DEF Next, Step
<1> QED
  BY <1>1, <1>2 DEF IInv

\* IInv holds in every state the shared graph and its runs can reach.
THEOREM GraphInductive == Spec => []IInv
BY InitInv, NextInv, PTL DEF Spec

\* Every variable of the identity graph always holds a value of its kind.
THEOREM GraphTypeCorrect == Spec => []TypeOK
<1>1. IInv => TypeOK
  BY DEF IInv
<1> QED
  BY <1>1, GraphInductive, PTL

\* Two finished runs never both miss the email, phone, device or address they share.
THEOREM MutualDetection == Spec => []NoMutualMiss
<1>1. IInv => NoMutualMiss
  <2> SUFFICES ASSUME IInv, NEW a \in Applicants \ wiped, NEW b \in Applicants \ wiped,
                      NEW k \in Kinds \ {PAN}, a # b, at[a] = Done, at[b] = Done,
                      Share(a, b, k)
               PROVE  FlagOf(k) \in flags[a] \cup flags[b]
    BY DEF NoMutualMiss
  <2>1. flags[a] = Flags(a) /\ flags[b] = Flags(b)
    BY DEF IInv, Reported
  <2>2. CASE k \in {Email, Phone}
    <3>1. dup[a] # None \/ dup[b] # None
      BY <2>2 DEF IInv, DuplicateSeen
    <3> QED
      BY <2>1, <2>2, <3>1 DEF Flags, FlagOf
  <2>3. CASE k \in {Device, IP}
    <3>1. k \in shared[a] \cup shared[b]
      BY <2>3 DEF IInv, ShareSeen
    <3> QED
      BY <2>1, <2>3, <3>1 DEF Flags, FlagOf
  <2> QED
    BY <2>2, <2>3
<1> QED
  BY <1>1, GraphInductive, PTL

\* A check_duplicate answer names another applicant with the same contact.
LEMMA NoFalseNext == IInv /\ NoFalseDuplicate /\ [Next]_vars => NoFalseDuplicate'
<1> SUFFICES ASSUME IInv, NoFalseDuplicate, [Next]_vars,
                    NEW b \in Applicants, NEW c \in Applicants, dup'[b] = c
             PROVE  b # c /\ \E k \in {Email, Phone} : Share(b, c, k)'
  BY DEF NoFalseDuplicate
<1> USE DEF IInv, TypeOK
<1>1. profile' = profile
  BY DEF Next, Step, ClearGraph, Start, MergeEdge, CheckDuplicate, FindShared,
         DetectRings, Report, Fail, Rerun, vars
<1>2. CASE dup[b] = c
  BY <1>1, <1>2 DEF NoFalseDuplicate, Share, Recorded, Unread
<1>3. CASE dup[b] # c
  <2>1. CheckDuplicate(b)
    BY <1>3, NoneAssumption DEF Next, Step, ClearGraph, Start, MergeEdge, CheckDuplicate,
         FindShared, DetectRings, Report, Fail, Rerun, vars, locals
  <2>2. c \in Matches(b)
    BY <2>1, NoneAssumption DEF CheckDuplicate
  <2>3. PICK k \in {Email, Phone} : c # b /\ <<c, k, profile[b][k]>> \in edges
    BY <2>2 DEF Matches
  <2>4. k \in Kinds /\ profile[b][k] \in Values
    BY <2>3
  <2>5. profile[b][k] = profile[c][k] /\ Recorded(c, k)
    BY <2>3, <2>4 DEF OwnValues
  <2>6. Recorded(b, k)
    BY <2>5 DEF Recorded, Unread, Device, Email, Phone
  <2> QED
    BY <1>1, <2>3, <2>5, <2>6 DEF Share, Recorded, Unread
<1> QED
  BY <1>2, <1>3

\* Nobody is ever reported as the duplicate of somebody with another email and phone.
THEOREM DuplicatesAreReal == Spec => []NoFalseDuplicate
<1>1. Init => NoFalseDuplicate
  BY NoneAssumption DEF Init, NoFalseDuplicate
<1> QED
  BY <1>1, NoFalseNext, GraphInductive, PTL DEF Spec

\* A run that had ended when the graph was cleared has written nothing since.
ForgottenInv ==
  \A b \in forgotten : at[b] \in {Done, Failed} /\ \A e \in edges : e[1] # b

LEMMA ForgottenNext == TypeOK /\ ForgottenInv /\ [Next]_vars => ForgottenInv'
<1> SUFFICES ASSUME TypeOK, ForgottenInv, [Next]_vars PROVE ForgottenInv'
  OBVIOUS
<1> USE DEF TypeOK
<1>1. CASE ClearGraph
  BY <1>1 DEF ClearGraph, Cleared, locals, ForgottenInv
<1>2. ASSUME NEW a \in Applicants, MergeEdge(a) PROVE ForgottenInv'
  <2>1. PICK k \in Unwritten(a) :
          /\ edges' = edges \cup {<<a, k, profile[a][k]>>}
          /\ at' = [at EXCEPT ![a] = k + 1]
    BY <1>2 DEF MergeEdge
  <2>2. a \notin forgotten /\ forgotten' = forgotten
    BY <1>2 DEF MergeEdge, ForgottenInv
  <2> QED
    BY <2>1, <2>2 DEF ForgottenInv
<1>3. ASSUME NEW a \in Applicants, at[a] \notin {Done, Failed}, UNCHANGED <<edges, forgotten>>,
             NEW n, at' = [at EXCEPT ![a] = n]
      PROVE  ForgottenInv'
  BY <1>3 DEF ForgottenInv
<1>4. ASSUME NEW a \in Applicants, Rerun(a) PROVE ForgottenInv'
  BY <1>4 DEF Rerun, ForgottenInv
<1>5. CASE UNCHANGED vars
  BY <1>5 DEF vars, ForgottenInv
<1> QED
  BY <1>1, <1>2, <1>3, <1>4, <1>5
     DEF Next, Step, Start, CheckDuplicate, FindShared, DetectRings, Report, Fail

\* After a reset no run is matched against one that had ended before it.
THEOREM ResetForgets == Spec => ForgetsFinishedRuns
<1>1. Init => ForgottenInv
  BY DEF Init, ForgottenInv
<1>2. TypeOK /\ ForgottenInv /\ [Next]_vars =>
        [\A a \in Applicants :
           at[a] # ShareStep /\ at'[a] = ShareStep => dup'[a] \notin forgotten]_vars
  <2> SUFFICES ASSUME TypeOK, ForgottenInv, [Next]_vars, NEW a \in Applicants,
                      at[a] # ShareStep, at'[a] = ShareStep
               PROVE  dup'[a] \notin forgotten
    OBVIOUS
  <2>1. forgotten \subseteq Applicants
    BY DEF TypeOK
  <2>2. CheckDuplicate(a)
    BY DEF TypeOK, Next, Step, ClearGraph, Start, MergeEdge, CheckDuplicate, FindShared,
         DetectRings, Report, Fail, Rerun, Unwritten, vars
  <2>3. dup'[a] = None \/ dup'[a] \in Matches(a)
    BY <2>2 DEF CheckDuplicate, TypeOK
  <2>4. ASSUME NEW b \in Matches(a) PROVE b \notin forgotten
    BY <2>4 DEF Matches, ForgottenInv
  <2> QED
    BY <2>1, <2>3, <2>4, NoneAssumption
<1>3. Spec => []TypeOK
  BY GraphInductive, PTL DEF IInv
<1> QED
  BY <1>1, <1>2, <1>3, ForgottenNext, PTL DEF Spec, ForgetsFinishedRuns
=============================================================================
