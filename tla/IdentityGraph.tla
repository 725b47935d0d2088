---------------------------- MODULE IdentityGraph ----------------------------
(***************************************************************************)
(* The identity graph that every run shares: backend/graph/neo4j_client.py *)
(* and the engine that calls it, backend/engines/identity_graph.py.  A run *)
(* writes its applicant into Neo4j one query at a time and only then asks  *)
(* for duplicates, shared resources and rings, while other workers do the  *)
(* same and an administrator may clear the graph.                          *)
(*                                                                         *)
(* Every query commits on its own and is a step.  init_schema makes each   *)
(* value unique, so MERGE finds or creates its one node; no query looks at *)
(* an Applicant node without relationships, so those are the state.        *)
(***************************************************************************)
EXTENDS Integers, FiniteSets

CONSTANTS
  Applicants,   \* applicant ids, one per submission
  Values,       \* devices, addresses, and hashes of emails, phones and PANs
  None,         \* an empty field, and Python's None
  Private,      \* the values that are IP addresses of private networks
  Web,          \* the applicants submitted by the web client, not through the API
  Assignments,  \* which applicant submits which values
  MinSize,      \* settings.ring_min_size
  MaxClears,    \* how often a behaviour clears the graph
  MaxReruns     \* how many runs are delivered a second time

(* The kinds of entity, in the order upsert_applicant writes them, and the    *)
(* queries that follow.                                                       *)
Device == 1
IP == 2
Email == 3
Phone == 4
PAN == 5
Kinds == Device .. PAN

CheckStep == 6
ShareStep == 7
RingStep == 8
EgoStep == 9
Done == 10
Idle == 0
Failed == -1

ASSUME ApplicantsAssumption == IsFiniteSet(Applicants)
ASSUME NoneAssumption == None \notin Values \cup Applicants
ASSUME AssignmentsAssumption ==
  Assignments \subseteq [Applicants -> [Kinds -> Values \cup {None}]]
ASSUME BoundsAssumption == MinSize \in Nat /\ MaxClears \in Nat /\ MaxReruns \in Nat

VARIABLES
  profile,  \* the values each applicant submits
  at,       \* the next query of each applicant's run
  edges,    \* the relationships in Neo4j: <<applicant, kind, value>>
  dup,      \* dup_id of each run
  shared,   \* the relationship types under which it found other applicants
  ring,     \* the members of the ring it found, {} if none
  flags,    \* the flags it reported
  wiped,    \* the applicants that lost relationships to a clear_graph
  forgotten,  \* the applicants whose runs had ended when the graph was cleared
  clears, reruns

locals == <<dup, shared, ring, flags>>
vars == <<profile, at, edges, locals, wiped, forgotten, clears, reruns>>

Init ==
  /\ profile \in Assignments
  /\ at = [a \in Applicants |-> Idle]
  /\ edges = {}
  /\ dup = [a \in Applicants |-> None]
  /\ shared = [a \in Applicants |-> {}]
  /\ ring = [a \in Applicants |-> {}]
  /\ flags = [a \in Applicants |-> {}]
  /\ wiped = {}
  /\ forgotten = {}
  /\ clears = 0
  /\ reruns = 0

-----------------------------------------------------------------------------
(* upsert_applicant                                                        *)

\* The run of a reads the device under the name "fingerprint"; the web client sends it as
\* "device_fingerprint", so the run finds none.
Unread(a, k) == k = Device /\ a \in Web

\* Is the value of kind k of applicant a written to the graph?  Empty fields and private
\* addresses are not.  Every email is: the helper that tells the domains of public
\* providers, on which the comments say not to link, has no caller.
RecordedEmpty(a, k) == ~ (k = IP /\ profile[a][k] \in Private)   \* faulty variant
Recorded(a, k) ==
  /\ profile[a][k] # None
  /\ ~ (k = IP /\ profile[a][k] \in Private)
  /\ ~ Unread(a, k)

\* The values of applicant a that its run still has to write.
Unwritten(a) == {k \in Kinds : k >= at[a] /\ Recorded(a, k)}

\* analyse_graph is called: first for a new job, at the graph stage of its run.
Start(a) ==
  /\ at[a] = Idle
  /\ at' = [at EXCEPT ![a] = Device]
  /\ UNCHANGED <<profile, edges, locals, wiped, forgotten, clears, reruns>>

\* MERGE the entity, the applicant and the relationship, for the next value.
MergeEdge(a) ==
  /\ at[a] \in Kinds
  /\ \E k \in Unwritten(a) :
       /\ \A l \in Unwritten(a) : k <= l
       /\ edges' = edges \cup {<<a, k, profile[a][k]>>}
       /\ at' = [at EXCEPT ![a] = k + 1]
  /\ UNCHANGED <<profile, locals, wiped, forgotten, clears, reruns>>

-----------------------------------------------------------------------------
(* The queries of analyse_graph.                                           *)

\* The applicants other than a that the graph links to the email or phone of a.
MatchesEmail(a) ==                                         \* faulty variant
  {b \in Applicants \ {a} : <<b, Email, profile[a][Email]>> \in edges}
MatchesSelf(a) ==                                          \* faulty variant
  {b \in Applicants : \E k \in {Email, Phone} : <<b, k, profile[a][k]>> \in edges}
Matches(a) ==
  {b \in Applicants \ {a} : \E k \in {Email, Phone} : <<b, k, profile[a][k]>> \in edges}

\* check_duplicate: any one match, LIMIT 1.
CheckDuplicate(a) ==
  /\ at[a] \in Device .. CheckStep
  /\ Unwritten(a) = {}
  /\ \E d \in IF Matches(a) = {} THEN {None} ELSE Matches(a) :
       dup' = [dup EXCEPT ![a] = d]
  /\ at' = [at EXCEPT ![a] = ShareStep]
  /\ UNCHANGED <<profile, edges, shared, ring, flags, wiped, forgotten, clears, reruns>>

\* find_shared_resources
FindShared(a) ==
  /\ at[a] = ShareStep
  /\ shared' = [shared EXCEPT ![a] =
       {k \in Kinds : \E e \in edges : /\ e[1] # a /\ e[2] = k
                                       /\ <<a, k, e[3]>> \in edges}]
  /\ at' = [at EXCEPT ![a] = RingStep]
  /\ UNCHANGED <<profile, edges, dup, ring, flags, wiped, forgotten, clears, reruns>>

\* The applicants that share a node with one of S.
Linked(S) == {e[1] : e \in {f \in edges : \E b \in S : <<b, f[2], f[3]>> \in edges}}

\* A path of 1..6 relationships alternates between applicants and entities: the
\* applicants up to three shared entities away.
WithinOneHop(a) == {a} \cup Linked({a})                    \* faulty variant
Within(a) == {a} \cup Linked({a}) \cup Linked(Linked({a})) \cup Linked(Linked(Linked({a})))

\* detect_fraud_rings: at most one row, the applicants around a and a itself.
DetectRings(a) ==
  /\ at[a] = RingStep
  /\ ring' = [ring EXCEPT ![a] =
       IF Cardinality(Within(a)) >= MinSize THEN Within(a) ELSE {}]
  /\ at' = [at EXCEPT ![a] = EgoStep]
  /\ UNCHANGED <<profile, edges, dup, shared, flags, wiped, forgotten, clears, reruns>>

\* The flags analyse_graph derives from what the queries returned.
Flags(a) ==
  (IF dup[a] # None THEN {"GRAPH_DUPLICATE"} ELSE {}) \cup
  (IF a \in ring[a] THEN {"GRAPH_RING_MEMBER"} ELSE {}) \cup
  (IF Device \in shared[a] THEN {"SHARED_DEVICE"} ELSE {}) \cup
  (IF IP \in shared[a] THEN {"SHARED_IP"} ELSE {})

\* get_ego_graph reads what the page draws; then the run has its flags.
Report(a) ==
  /\ at[a] = EgoStep
  /\ flags' = [flags EXCEPT ![a] = Flags(a)]
  /\ at' = [at EXCEPT ![a] = Done]
  /\ UNCHANGED <<profile, edges, dup, shared, ring, wiped, forgotten, clears, reruns>>

\* A query raises; what was written stays.
Fail(a) ==
  /\ at[a] \in Device .. EgoStep
  /\ at' = [at EXCEPT ![a] = Failed]
  /\ UNCHANGED <<profile, edges, locals, wiped, forgotten, clears, reruns>>

-----------------------------------------------------------------------------
\* The worker died before it acknowledged the message, which is delivered again: a new
\* run with the same payload, so with the same applicant id, also of one that had raised.
Rerun(a) ==
  /\ at[a] # Idle
  /\ reruns < MaxReruns
  /\ reruns' = reruns + 1
  /\ at' = [at EXCEPT ![a] = Device]
  /\ dup' = [dup EXCEPT ![a] = None]
  /\ shared' = [shared EXCEPT ![a] = {}]
  /\ ring' = [ring EXCEPT ![a] = {}]
  /\ flags' = [flags EXCEPT ![a] = {}]
  /\ wiped' = wiped \ {a}
  /\ forgotten' = forgotten \ {a}
  /\ UNCHANGED <<profile, edges, clears>>

\* clear_graph: DETACH DELETE every node.
KeepsContacts == {e \in edges : e[2] \in {Email, Phone}}   \* faulty variant
Cleared == {}
ClearGraph ==
  /\ clears < MaxClears
  /\ clears' = clears + 1
  /\ edges' = Cleared
  /\ wiped' = wiped \cup {e[1] : e \in edges}
  /\ forgotten' = forgotten \cup {a \in Applicants : at[a] \in {Done, Failed}}
  /\ UNCHANGED <<profile, at, locals, reruns>>

Step(a) ==
  \/ Start(a) \/ MergeEdge(a) \/ CheckDuplicate(a) \/ FindShared(a)
  \/ DetectRings(a) \/ Report(a) \/ Fail(a) \/ Rerun(a)

Next == ClearGraph \/ \E a \in Applicants : Step(a)

Spec == Init /\ [][Next]_vars

-----------------------------------------------------------------------------
(* Properties.                                                             *)

\* Every variable holds a value of its kind.
TypeOK ==
  /\ profile \in [Applicants -> [Kinds -> Values \cup {None}]]
  /\ at \in [Applicants -> Failed .. Done]
  /\ edges \subseteq Applicants \X Kinds \X Values
  /\ dup \in [Applicants -> Applicants \cup {None}]
  /\ shared \in [Applicants -> SUBSET Kinds]
  /\ ring \in [Applicants -> SUBSET Applicants]
  /\ flags \in [Applicants -> SUBSET {"GRAPH_DUPLICATE", "GRAPH_RING_MEMBER",
                                      "SHARED_DEVICE", "SHARED_IP"}]
  /\ wiped \subseteq Applicants /\ forgotten \subseteq Applicants
  /\ clears \in 0 .. MaxClears
  /\ reruns \in 0 .. MaxReruns

\* Applicants a and b have submitted the same value of kind k, and it is recorded for both.
Share(a, b, k) ==
  /\ Recorded(a, k) /\ Recorded(b, k)
  /\ profile[a][k] = profile[b][k]

FlagOf(k) == IF k \in {Email, Phone} THEN "GRAPH_DUPLICATE"
             ELSE IF k = Device THEN "SHARED_DEVICE" ELSE "SHARED_IP"

\* Two runs whose recorded email, phone, device or public address is the same never both
\* miss it, however their queries interleave and whichever is run again: each writes
\* before it looks.  (Unless the graph was cleared of one of them.  What the web client
\* submits has no recorded device: SharedDeviceIsSeen.)
NoMutualMiss ==
  \A a, b \in Applicants \ wiped, k \in Kinds \ {PAN} :
    a # b /\ at[a] = Done /\ at[b] = Done /\ Share(a, b, k)
      => FlagOf(k) \in flags[a] \cup flags[b]

\* What fusion.py:49 and DemoControl.tsx:40 say of a device: of two runs that had the same
\* device submitted, at least one reports it.
SharedDeviceIsSeen ==
  \A a, b \in Applicants \ wiped :
    /\ a # b /\ at[a] = Done /\ at[b] = Done
    /\ profile[a][Device] = profile[b][Device] /\ profile[a][Device] # None
    => "SHARED_DEVICE" \in flags[a] \cup flags[b]

\* An applicant is reported as the duplicate only of another one with the same
\* email or the same phone: an empty field matches nobody, and a run that is
\* repeated does not match what it wrote the first time.
NoFalseDuplicate ==
  \A a, b \in Applicants :
    dup[a] = b => a # b /\ \E k \in {Email, Phone} : Share(a, b, k)

\* The connected component of a: what every set closed under Linked contains.
Component(a) ==
  {b \in Applicants :
     \A S \in SUBSET Applicants : a \in S /\ Linked(S) \subseteq S => b \in S}

\* A connected component of at least ring_min_size applicants whose runs all ended
\* has a member flagged as of a ring: the last of them saw the others.
RingHasFlaggedMember ==
  \A a \in Applicants :
    LET C == Component(a) IN
    /\ Cardinality(C) >= MinSize
    /\ \A b \in C : at[b] = Done /\ b \notin wiped
    => \E b \in C : "GRAPH_RING_MEMBER" \in flags[b]

\* After a reset nobody is matched against a run that had ended before it, not even a
\* run that was under way.  (One whose own run was under way can write again and be
\* found: clear_graph waits for nobody.)
ForgetsFinishedRuns ==
  [][\A a \in Applicants : at[a] # ShareStep /\ at'[a] = ShareStep => dup'[a] \notin forgotten]_vars
=============================================================================
