----------------------- MODULE IdentityGraphRingProofs -----------------------
(***************************************************************************)
(* Proofs about the rings of IdentityGraph: of a connected component whose *)
(* runs all ended, the last one to look saw enough of it to be flagged.    *)
(*                                                                         *)
(* The query follows three shared entities.  A component either lies       *)
(* within three steps or has at least four members there, so the theorem   *)
(* holds for ring sizes up to four; along a chain of five applicants each  *)
(* may look before the fifth is in sight.                                  *)
(***************************************************************************)
EXTENDS IdentityGraphProofs, FiniteSetTheorems

(* Linked and Component, as functions of the relationships.                 *)
LinkedBy(E, S) == {e[1] : e \in {f \in E : \E b \in S : <<b, f[2], f[3]>> \in E}}
Closed(E, S) == LinkedBy(E, S) \subseteq S
ComponentIn(E, a) ==
  {b \in Applicants : \A S \in SUBSET Applicants : a \in S /\ Closed(E, S) => b \in S}

Relationships == SUBSET (Applicants \X Kinds \X Values)

LEMMA AsFunctions ==
  ASSUME NEW a
  PROVE  /\ Component(a) = ComponentIn(edges, a)
         /\ Component(a)' = ComponentIn(edges', a)
         /\ \A S : Linked(S) = LinkedBy(edges, S)
  BY DEF Component, ComponentIn, Closed, Linked, LinkedBy

-----------------------------------------------------------------------------
(* Linked applicants.                                                      *)

\* Two applicants are linked by a value that both have written.
LEMMA LinkedWhen ==
  ASSUME NEW E \in Relationships, NEW S \in SUBSET Applicants, NEW c
  PROVE  c \in LinkedBy(E, S)
           <=> \E b \in S, k \in Kinds, v \in Values : <<b, k, v>> \in E /\ <<c, k, v>> \in E
<1> USE DEF Relationships
<1>1. ASSUME c \in LinkedBy(E, S)
      PROVE  \E b \in S, k \in Kinds, v \in Values : <<b, k, v>> \in E /\ <<c, k, v>> \in E
  <2>1. PICK f \in E : c = f[1] /\ \E b \in S : <<b, f[2], f[3]>> \in E
    BY <1>1 DEF LinkedBy
  <2>2. f = <<f[1], f[2], f[3]>> /\ f[2] \in Kinds /\ f[3] \in Values
    BY <2>1
  <2> QED
    BY <2>1, <2>2
<1>2. ASSUME NEW b \in S, NEW k \in Kinds, NEW v \in Values,
             <<b, k, v>> \in E, <<c, k, v>> \in E
      PROVE  c \in LinkedBy(E, S)
  <2> DEFINE f == <<c, k, v>>
  <2>1. f \in E /\ f[1] = c /\ <<b, f[2], f[3]>> \in E
    BY <1>2
  <2> QED
    BY <2>1 DEF LinkedBy
<1> QED
  BY <1>1, <1>2

\* Whoever is linked is an applicant, and more applicants are linked to more.
LEMMA LinkedApplicants ==
  ASSUME NEW E \in Relationships, NEW S \in SUBSET Applicants
  PROVE  LinkedBy(E, S) \in SUBSET Applicants
<1> SUFFICES ASSUME NEW c \in LinkedBy(E, S) PROVE c \in Applicants
  OBVIOUS
<1>1. PICK b \in S, k \in Kinds, v \in Values : <<b, k, v>> \in E /\ <<c, k, v>> \in E
  BY LinkedWhen
<1> QED
  BY <1>1 DEF Relationships

LEMMA LinkedMonotone ==
  ASSUME NEW E \in Relationships, NEW F \in Relationships, E \subseteq F,
         NEW S \in SUBSET Applicants, NEW T \in SUBSET Applicants, S \subseteq T
  PROVE  LinkedBy(E, S) \subseteq LinkedBy(F, T)
<1> SUFFICES ASSUME NEW c \in LinkedBy(E, S) PROVE c \in LinkedBy(F, T)
  OBVIOUS
<1>1. PICK b \in S, k \in Kinds, v \in Values : <<b, k, v>> \in E /\ <<c, k, v>> \in E
  BY LinkedWhen
<1>2. b \in T /\ <<b, k, v>> \in F /\ <<c, k, v>> \in F
  BY <1>1
<1> QED
  BY <1>2, LinkedWhen

\* To be linked is mutual: what is outside a closed set is closed too.
LEMMA OutsideIsClosed ==
  ASSUME NEW E \in Relationships, NEW S \in SUBSET Applicants, Closed(E, S)
  PROVE  Closed(E, Applicants \ S)
<1> SUFFICES ASSUME NEW c \in LinkedBy(E, Applicants \ S) PROVE c \in Applicants \ S
  BY DEF Closed
<1>1. PICK b \in Applicants \ S, k \in Kinds, v \in Values :
        <<b, k, v>> \in E /\ <<c, k, v>> \in E
  BY LinkedWhen
<1>2. c \in Applicants
  BY <1>1 DEF Relationships
<1>3. ASSUME c \in S PROVE FALSE
  <2>1. b \in LinkedBy(E, S)
    BY <1>1, <1>3, LinkedWhen
  <2> QED
    BY <1>1, <2>1 DEF Closed
<1> QED
  BY <1>2, <1>3

-----------------------------------------------------------------------------
(* Components.                                                             *)

LEMMA ComponentIsClosed ==
  ASSUME NEW E \in Relationships, NEW a \in Applicants
  PROVE  /\ ComponentIn(E, a) \in SUBSET Applicants
         /\ a \in ComponentIn(E, a)
         /\ Closed(E, ComponentIn(E, a))
<1> DEFINE C == ComponentIn(E, a)
<1>1. C \in SUBSET Applicants /\ a \in C
  BY DEF ComponentIn
<1>2. ASSUME NEW c \in LinkedBy(E, C) PROVE c \in C
  <2>1. c \in Applicants
    BY <1>1, LinkedApplicants
  <2>2. ASSUME NEW S \in SUBSET Applicants, a \in S, Closed(E, S) PROVE c \in S
    <3>1. C \subseteq S
      BY <2>2 DEF ComponentIn
    <3>2. LinkedBy(E, C) \subseteq LinkedBy(E, S)
      BY <1>1, <3>1, LinkedMonotone
    <3> QED
      BY <2>2, <3>2 DEF Closed
  <2> QED
    BY <2>1, <2>2 DEF ComponentIn
<1> QED
  BY <1>1, <1>2 DEF Closed

\* A closed set that meets a component holds all of it.
LEMMA ComponentIsLeast ==
  ASSUME NEW E \in Relationships, NEW a \in Applicants, NEW b \in ComponentIn(E, a),
         NEW S \in SUBSET Applicants, b \in S, Closed(E, S)
  PROVE  ComponentIn(E, a) \subseteq S
<1>1. a \in S
  <2> SUFFICES ASSUME a \notin S PROVE FALSE
    OBVIOUS
  <2>1. Closed(E, Applicants \ S)
    BY OutsideIsClosed
  <2>2. b \in Applicants \ S
    BY <2>1 DEF ComponentIn
  <2> QED
    BY <2>2
<1> QED
  BY <1>1 DEF ComponentIn

\* Whoever wrote nothing is a component alone.
LEMMA LinkedToNobody ==
  ASSUME NEW E \in Relationships, NEW a \in Applicants,
         \A k \in Kinds, v \in Values : <<a, k, v>> \notin E
  PROVE  ComponentIn(E, a) = {a}
<1>1. {a} \in SUBSET Applicants
  OBVIOUS
<1>2. ASSUME NEW c \in LinkedBy(E, {a}) PROVE FALSE
  <2>1. PICK b \in {a}, k \in Kinds, v \in Values : <<b, k, v>> \in E /\ <<c, k, v>> \in E
    BY <1>1, LinkedWhen
  <2> QED
    BY <2>1
<1>3. Closed(E, {a})
  BY <1>2 DEF Closed
<1>4. a \in ComponentIn(E, a)
  BY ComponentIsClosed
<1> QED
  BY <1>1, <1>3, <1>4, ComponentIsLeast

\* A relationship written for x changes no component that x is not in afterwards.
LEMMA WrittenElsewhere ==
  ASSUME NEW E \in Relationships, NEW x \in Applicants, NEW k \in Kinds, NEW v \in Values,
         NEW a \in Applicants, x \notin ComponentIn(E \cup {<<x, k, v>>}, a)
  PROVE  ComponentIn(E, a) = ComponentIn(E \cup {<<x, k, v>>}, a)
<1> DEFINE F == E \cup {<<x, k, v>>}
           C == ComponentIn(E, a)
           D == ComponentIn(F, a)
<1>1. F \in Relationships /\ E \subseteq F
  BY DEF Relationships
<1>2. /\ C \in SUBSET Applicants /\ a \in C /\ Closed(E, C)
      /\ D \in SUBSET Applicants /\ a \in D /\ Closed(F, D)
  BY <1>1, ComponentIsClosed
<1> HIDE DEF C, D
<1>3. C \subseteq D
  <2>1. Closed(E, D)
    <3>1. LinkedBy(E, D) \subseteq LinkedBy(F, D)
      BY <1>1, <1>2, LinkedMonotone
    <3> QED
      BY <1>2, <3>1 DEF Closed
  <2> QED
    BY <1>2, <2>1, ComponentIsLeast DEF C
<1>4. D \subseteq C
  <2>1. ASSUME NEW c \in LinkedBy(F, C) PROVE c \in C
    <3>1. PICK b \in C, l \in Kinds, w \in Values : <<b, l, w>> \in F /\ <<c, l, w>> \in F
      BY <1>1, <1>2, LinkedWhen
    <3>2. b # x
      BY <1>3 DEF D
    <3>3. c \in D
      <4>1. c \in LinkedBy(F, D)
        BY <1>1, <1>2, <1>3, <3>1, LinkedWhen
      <4> QED
        BY <4>1, <1>2 DEF Closed
    <3>4. c # x
      BY <3>3 DEF D
    <3>5. <<b, l, w>> \in E /\ <<c, l, w>> \in E
      BY <3>1, <3>2, <3>4
    <3>6. c \in LinkedBy(E, C)
      BY <1>2, <3>5, LinkedWhen
    <3> QED
      BY <3>6, <1>2 DEF Closed
  <2>2. Closed(F, C)
    BY <2>1 DEF Closed
  <2> QED
    BY <1>1, <1>2, <2>2, ComponentIsLeast DEF D
<1> QED
  BY <1>3, <1>4 DEF C, D

-----------------------------------------------------------------------------
(* What the ring query sees of a component.                                *)

Hop(E, S) == S \cup LinkedBy(E, S)
WithinIn(E, b) == Hop(E, Hop(E, Hop(E, {b})))

LEMMA HopIsLarger ==
  ASSUME NEW E \in Relationships, NEW S \in SUBSET Applicants
  PROVE  /\ Hop(E, S) \in SUBSET Applicants
         /\ S \subseteq Hop(E, S)
         /\ Closed(E, S) \/ \E c \in Hop(E, S) : c \notin S
  BY LinkedApplicants DEF Hop, Closed

\* Whoever is linked to a union is linked to one of its parts.
LEMMA LinkedToUnion ==
  ASSUME NEW E \in Relationships, NEW S \in SUBSET Applicants, NEW T \in SUBSET Applicants
  PROVE  LinkedBy(E, S \cup T) = LinkedBy(E, S) \cup LinkedBy(E, T)
<1>1. S \cup T \in SUBSET Applicants
  OBVIOUS
<1>2. \A c : c \in LinkedBy(E, S \cup T) <=> c \in LinkedBy(E, S) \/ c \in LinkedBy(E, T)
  BY <1>1, LinkedWhen
<1> QED
  BY <1>2

\* The query reaches what three hops reach.
LEMMA QueryHops ==
  ASSUME TypeOK, NEW b \in Applicants
  PROVE  Within(b) = WithinIn(edges, b)
<1> DEFINE L1 == LinkedBy(edges, {b})
           L2 == LinkedBy(edges, L1)
           L3 == LinkedBy(edges, L2)
<1>0. edges \in Relationships /\ {b} \in SUBSET Applicants
  BY DEF TypeOK, Relationships
<1>1. /\ L1 \in SUBSET Applicants /\ L2 \in SUBSET Applicants
      /\ L3 \in SUBSET Applicants
  BY <1>0, LinkedApplicants
<1>2. Within(b) = {b} \cup L1 \cup L2 \cup L3
  BY AsFunctions DEF Within
<1>3. LinkedBy(edges, {b} \cup L1) = L1 \cup L2
  BY <1>0, <1>1, LinkedToUnion
<1>4. LinkedBy(edges, {b} \cup L1 \cup (L1 \cup L2)) = L1 \cup L2 \cup L3
  <2> DEFINE S == {b} \cup L1
             T == L1 \cup L2
  <2>1. LinkedBy(edges, T) = L2 \cup L3
    BY <1>0, <1>1, LinkedToUnion
  <2>2. S \in SUBSET Applicants /\ T \in SUBSET Applicants
    BY <1>0, <1>1
  <2>3. LinkedBy(edges, S) = L1 \cup L2
    BY <1>3
  <2> HIDE DEF S, T
  <2>4. LinkedBy(edges, S \cup T) = LinkedBy(edges, S) \cup LinkedBy(edges, T)
    BY <1>0, <2>2, LinkedToUnion
  <2>5. LinkedBy(edges, S \cup T) = L1 \cup L2 \cup L3
    BY <2>1, <2>3, <2>4
  <2> QED
    BY <2>5 DEF S, T
<1> QED
  BY <1>2, <1>3, <1>4 DEF WithinIn, Hop

\* Three hops from an applicant either cover its component or find three others.
LEMMA SeesEnough ==
  ASSUME NEW E \in Relationships, NEW a \in Applicants, NEW b \in ComponentIn(E, a),
         MinSize <= 4, Cardinality(ComponentIn(E, a)) >= MinSize
  PROVE  b \in WithinIn(E, b) /\ Cardinality(WithinIn(E, b)) >= MinSize
<1> DEFINE S0 == {b}
           S1 == Hop(E, S0)
           S2 == Hop(E, S1)
           S3 == Hop(E, S2)
           C == ComponentIn(E, a)
<1>1. b \in Applicants /\ C \in SUBSET Applicants
  BY ComponentIsClosed
<1>2. /\ S0 \in SUBSET Applicants /\ S1 \in SUBSET Applicants
      /\ S2 \in SUBSET Applicants /\ S3 \in SUBSET Applicants
  BY <1>1, HopIsLarger
<1>3. b \in S0 /\ S0 \subseteq S1 /\ S1 \subseteq S2 /\ S2 \subseteq S3
  BY <1>2, HopIsLarger
<1>4. /\ Closed(E, S0) \/ \E c \in S1 : c \notin S0
      /\ Closed(E, S1) \/ \E c \in S2 : c \notin S1
      /\ Closed(E, S2) \/ \E c \in S3 : c \notin S2
  BY <1>2, HopIsLarger
<1>5. WithinIn(E, b) = S3
  BY DEF WithinIn
<1>6. IsFiniteSet(S3) /\ Cardinality(S3) \in Nat /\ Cardinality(C) \in Nat
  BY <1>1, <1>2, ApplicantsAssumption, FS_Subset, FS_CardinalityType
<1> HIDE DEF S0, S1, S2, S3
<1>7. CASE Closed(E, S0) \/ Closed(E, S1) \/ Closed(E, S2)
  <2>1. PICK S \in {S0, S1, S2} : Closed(E, S)
    BY <1>7
  <2>2. S \in SUBSET Applicants /\ b \in S /\ S \subseteq S3
    BY <1>2, <1>3
  <2>3. C \subseteq S3
    BY <2>1, <2>2, ComponentIsLeast
  <2>4. Cardinality(C) <= Cardinality(S3)
    BY <2>3, <1>6, FS_Subset
  <2> QED
    BY <2>4, <1>3, <1>5, <1>6, BoundsAssumption
<1>8. CASE ~ (Closed(E, S0) \/ Closed(E, S1) \/ Closed(E, S2))
  <2>1. PICK p \in S1, q \in S2, r \in S3 : p \notin S0 /\ q \notin S1 /\ r \notin S2
    BY <1>4, <1>8
  <2> DEFINE T2 == {b} \cup {p}
             T3 == T2 \cup {q}
             T4 == T3 \cup {r}
  <2>2. p \notin {b} /\ q \notin T2 /\ r \notin T3 /\ T4 \subseteq S3
    BY <2>1, <1>3 DEF S0
  <2>3. IsFiniteSet({b}) /\ Cardinality({b}) = 1
    BY FS_Singleton
  <2>4. IsFiniteSet(T2) /\ Cardinality(T2) = 1 + 1
    BY <2>2, <2>3, FS_AddElement
  <2> HIDE DEF T2
  <2>5. IsFiniteSet(T3) /\ Cardinality(T3) = 1 + 1 + 1
    BY <2>2, <2>4, FS_AddElement
  <2> HIDE DEF T3
  <2>6. Cardinality(T4) = 1 + 1 + 1 + 1
    BY <2>2, <2>5, FS_AddElement
  <2> HIDE DEF T4
  <2>7. 4 <= Cardinality(S3)
    BY <2>2, <2>6, <1>6, FS_Subset
  <2> QED
    BY <2>7, <1>3, <1>5, <1>6, BoundsAssumption
<1> QED
  BY <1>7, <1>8

-----------------------------------------------------------------------------
(* The ring query is the last that a run makes of others' writes.          *)

USE DEF Device, IP, Email, Phone, PAN, Kinds, CheckStep, ShareStep, RingStep,
        EgoStep, Done, Idle, Failed

\* A component of at least ring_min_size whose runs have all looked for rings holds
\* one that found a ring.
LookedAll(a) == \A b \in Component(a) : at[b] \in {EgoStep, Done} /\ b \notin wiped
FoundOne(a) == \E b \in Component(a) : b \in ring[b]
RingSeen ==
  \A a \in Applicants :
    Cardinality(Component(a)) >= MinSize /\ LookedAll(a) => FoundOne(a)

\* A step that leaves the relationships and the rings alone, and lets no run pass the query.
LEMMA OtherStepKeepsRings ==
  ASSUME RingSeen, edges' = edges, ring' = ring, wiped' = wiped,
         \A b \in Applicants : at'[b] \in {EgoStep, Done} => at[b] \in {EgoStep, Done}
  PROVE  RingSeen'
<1> SUFFICES ASSUME NEW a \in Applicants, Cardinality(Component(a)') >= MinSize, LookedAll(a)'
             PROVE  FoundOne(a)'
  BY DEF RingSeen
<1>1. Component(a)' = Component(a) /\ Component(a) \in SUBSET Applicants
  BY DEF Component, Linked
<1>2. LookedAll(a)
  BY <1>1 DEF LookedAll
<1> QED
  BY <1>1, <1>2 DEF RingSeen, FoundOne

\* A component with a run that has yet to look for rings says nothing.
LEMMA UnseenStepKeepsRings ==
  ASSUME RingSeen, TypeOK, TypeOK', NEW x \in Applicants,
         at'[x] \notin {EgoStep, Done},
         \A b \in Applicants \ {x} :
           at'[b] = at[b] /\ ring'[b] = ring[b] /\ (b \in wiped' <=> b \in wiped),
         \A a \in Applicants : x \notin Component(a)' => Component(a)' = Component(a)
  PROVE  RingSeen'
<1> SUFFICES ASSUME NEW a \in Applicants, Cardinality(Component(a)') >= MinSize, LookedAll(a)'
             PROVE  FoundOne(a)'
  BY DEF RingSeen
<1>1. x \notin Component(a)'
  BY DEF LookedAll
<1>2. Component(a)' = Component(a) /\ Component(a) \in SUBSET Applicants
  BY <1>1 DEF Component
<1>3. LookedAll(a)
  BY <1>1, <1>2 DEF LookedAll
<1> QED
  BY <1>1, <1>2, <1>3 DEF RingSeen, FoundOne

LEMMA MergeKeepsRings ==
  ASSUME RingSeen, TypeOK, TypeOK', NEW x \in Applicants, MergeEdge(x)
  PROVE  RingSeen'
<1>1. PICK k \in Unwritten(x) :
        /\ edges' = edges \cup {<<x, k, profile[x][k]>>}
        /\ at' = [at EXCEPT ![x] = k + 1]
  BY DEF MergeEdge
<1>2. k \in Kinds /\ profile[x][k] \in Values /\ ring' = ring /\ wiped' = wiped
  BY DEF Unwritten, Recorded, Unread, MergeEdge, TypeOK, locals
<1>3. at'[x] \notin {EgoStep, Done} /\ \A b \in Applicants \ {x} : at'[b] = at[b]
  BY <1>1, <1>2 DEF TypeOK
<1>4. ASSUME NEW a \in Applicants, x \notin Component(a)' PROVE Component(a)' = Component(a)
  <2> DEFINE v == profile[x][k]
  <2>1. edges \in Relationships /\ v \in Values /\ edges' = edges \cup {<<x, k, v>>}
    BY <1>1, <1>2 DEF TypeOK, Relationships
  <2> HIDE DEF v
  <2>2. Component(a)' = ComponentIn(edges \cup {<<x, k, v>>}, a) /\ Component(a) = ComponentIn(edges, a)
    BY <2>1, AsFunctions
  <2> QED
    BY <1>2, <1>4, <2>1, <2>2, WrittenElsewhere
<1> QED
  BY <1>2, <1>3, <1>4, UnseenStepKeepsRings

\* The run that looks now sees its component, or enough of it.
LEMMA DetectKeepsRings ==
  ASSUME RingSeen, TypeOK, MinSize <= 4, NEW x \in Applicants, DetectRings(x)
  PROVE  RingSeen'
<1> SUFFICES ASSUME NEW a \in Applicants, Cardinality(Component(a)') >= MinSize, LookedAll(a)'
             PROVE  FoundOne(a)'
  BY DEF RingSeen
<1>1. Component(a)' = Component(a) /\ Component(a) = ComponentIn(edges, a)
  BY AsFunctions DEF Component, Linked, DetectRings
<1>2. /\ \A b \in Applicants \ {x} : at'[b] = at[b] /\ ring'[b] = ring[b]
      /\ wiped' = wiped
      /\ ring'[x] = IF Cardinality(Within(x)) >= MinSize THEN Within(x) ELSE {}
  BY DEF DetectRings, TypeOK
<1>3. edges \in Relationships
  BY DEF TypeOK, Relationships
<1>4. CASE x \in Component(a)
  <2>1. x \in WithinIn(edges, x) /\ Cardinality(WithinIn(edges, x)) >= MinSize
    BY <1>1, <1>3, <1>4, SeesEnough
  <2>2. x \in ring'[x]
    BY <1>2, <2>1, QueryHops
  <2> QED
    BY <1>1, <1>4, <2>2 DEF FoundOne
<1>5. CASE x \notin Component(a)
  <2>1. Component(a) \in SUBSET Applicants
    BY DEF Component
  <2>2. LookedAll(a)
    BY <1>1, <1>2, <1>5, <2>1 DEF LookedAll
  <2> QED
    BY <1>1, <1>2, <1>5, <2>1, <2>2 DEF RingSeen, FoundOne
<1> QED
  BY <1>4, <1>5

\* Who lost nothing to clear_graph was linked to nobody: it is alone before and after.
LEMMA ClearKeepsRings ==
  ASSUME RingSeen, TypeOK, ClearGraph
  PROVE  RingSeen'
<1> SUFFICES ASSUME NEW a \in Applicants, Cardinality(Component(a)') >= MinSize, LookedAll(a)'
             PROVE  FoundOne(a)'
  BY DEF RingSeen
<1>1. /\ edges' = {} /\ wiped' = wiped \cup {e[1] : e \in edges}
      /\ at' = at /\ ring' = ring
  BY DEF ClearGraph, Cleared, locals
<1>2. /\ edges \in Relationships /\ {} \in Relationships
      /\ {a} \in SUBSET Applicants
  BY DEF TypeOK, Relationships
<1>3. Component(a)' = ComponentIn({}, a) /\ Component(a) = ComponentIn(edges, a)
  BY <1>1, AsFunctions
<1>4. ComponentIn({}, a) = {a}
  BY <1>2, LinkedToNobody
<1>5. \A k \in Kinds, v \in Values : <<a, k, v>> \notin edges
  <2>1. a \notin wiped'
    BY <1>3, <1>4 DEF LookedAll
  <2> QED
    BY <1>1, <2>1
<1>6. ComponentIn(edges, a) = {a}
  BY <1>2, <1>5, LinkedToNobody
<1>7. LookedAll(a)
  BY <1>1, <1>3, <1>4, <1>6 DEF LookedAll
<1> QED
  BY <1>1, <1>3, <1>4, <1>6, <1>7 DEF RingSeen, FoundOne

LEMMA RingNext ==
  ASSUME RingSeen, TypeOK, TypeOK', MinSize <= 4, [Next]_vars
  PROVE  RingSeen'
<1>1. CASE ClearGraph
  BY <1>1, ClearKeepsRings
<1>2. ASSUME NEW a \in Applicants, MergeEdge(a) PROVE RingSeen'
  BY <1>2, MergeKeepsRings
<1>3. ASSUME NEW a \in Applicants, DetectRings(a) PROVE RingSeen'
  BY <1>3, DetectKeepsRings
<1>4. ASSUME NEW a \in Applicants, Rerun(a) PROVE RingSeen'
  <2>1. at'[a] \notin {EgoStep, Done} /\ edges' = edges
    BY <1>4 DEF Rerun, TypeOK
  <2>2. \A b \in Applicants \ {a} :
          at'[b] = at[b] /\ ring'[b] = ring[b] /\ (b \in wiped' <=> b \in wiped)
    BY <1>4 DEF Rerun, TypeOK
  <2>3. \A b \in Applicants : Component(b)' = Component(b)
    BY <2>1 DEF Component, Linked
  <2> QED
    BY <2>1, <2>2, <2>3, UnseenStepKeepsRings
<1>5. ASSUME NEW a \in Applicants, Start(a) \/ CheckDuplicate(a) \/ FindShared(a)
                                   \/ Report(a) \/ Fail(a)
      PROVE  RingSeen'
  <2>1. edges' = edges /\ ring' = ring /\ wiped' = wiped
    BY <1>5 DEF Start, CheckDuplicate, FindShared, Report, Fail, locals
  <2>2. \A b \in Applicants : at'[b] \in {EgoStep, Done} => at[b] \in {EgoStep, Done}
    BY <1>5 DEF Start, CheckDuplicate, FindShared, Report, Fail, TypeOK
  <2> QED
    BY <2>1, <2>2, OtherStepKeepsRings
<1>6. CASE UNCHANGED vars
  BY <1>6, OtherStepKeepsRings DEF vars, locals
<1> QED
  BY <1>1, <1>2, <1>3, <1>4, <1>5, <1>6 DEF Next, Step

\* Of every connected component of at least ring_min_size applicants whose runs all
\* ended one is flagged, for ring sizes the three hops of the query suffice for
\* (detect_fraud_rings, analyse_graph).
THEOREM RingsAreFlagged == MinSize <= 4 => (Spec => []RingHasFlaggedMember)
<1> SUFFICES ASSUME MinSize <= 4 PROVE Spec => []RingHasFlaggedMember
  OBVIOUS
<1>1. Init => RingSeen
  <2> SUFFICES ASSUME Init, NEW a \in Applicants, LookedAll(a) PROVE FALSE
    BY DEF RingSeen
  <2>1. a \in Component(a)
    BY DEF Component
  <2> QED
    BY <2>1 DEF Init, LookedAll
<1>2. RingSeen /\ TypeOK /\ TypeOK' /\ [Next]_vars => RingSeen'
  BY RingNext
<1>3. RingSeen /\ Reported => RingHasFlaggedMember
  <2> SUFFICES ASSUME RingSeen, Reported, NEW a \in Applicants,
                      Cardinality(Component(a)) >= MinSize,
                      \A b \in Component(a) : at[b] = Done /\ b \notin wiped
               PROVE  \E b \in Component(a) : "GRAPH_RING_MEMBER" \in flags[b]
    BY DEF RingHasFlaggedMember
  <2>1. PICK b \in Component(a) : b \in ring[b]
    BY DEF RingSeen, LookedAll, FoundOne
  <2>2. flags[b] = Flags(b)
    BY DEF Component, Reported
  <2> QED
    BY <2>1, <2>2 DEF Flags
<1>4. IInv => TypeOK /\ Reported
  BY DEF IInv
<1> QED
  BY <1>1, <1>2, <1>3, <1>4, GraphInductive, PTL DEF Spec
=============================================================================
