---------------------------- MODULE ScoringProofs ----------------------------
(***************************************************************************)
(* Proofs about the fusion engine and the decisions made with it, for any  *)
(* results of the stages and any weights and thresholds.                   *)
(***************************************************************************)
EXTENDS Scoring, TLAPS

\* A product of whole numbers is whole; a weight that is not negative keeps the order.
LEMMA Product ==
  ASSUME NEW x \in Int, NEW w \in Int
  PROVE  x * w \in Int
OBVIOUS

LEMMA TimesWeight ==
  ASSUME NEW x \in Int, NEW y \in Int, NEW w \in Int, x <= y, w >= 0
  PROVE  x * w <= y * w
OBVIOUS

\* A pipeline: a whole score and a set of flags for each stage.
Pipeline(p) == \A s \in Stages : p[s].score \in Int

\* The weighted sum is a whole number, and does not fall when scores rise.
LEMMA WeightedInt ==
  ASSUME NEW p, Pipeline(p), NEW w \in [Stages -> Int]
  PROVE  Weighted(p, w) \in Int
<1>1. \A s \in Stages : p[s].score * w[s] \in Int
  <2> SUFFICES ASSUME NEW s \in Stages PROVE p[s].score * w[s] \in Int
    OBVIOUS
  <2>1. p[s].score \in Int /\ w[s] \in Int
    BY DEF Pipeline
  <2> QED
    BY <2>1, Product
<1>2. Stages = {"document", "biometric", "device", "behavioural", "identity_graph"}
  BY DEF Stages
<1> QED
  BY <1>1, <1>2 DEF Weighted

LEMMA WeightedMonotone ==
  ASSUME NEW p, NEW q, Pipeline(p), Pipeline(q), Worse(p, q),
         NEW w \in [Stages -> Int], \A s \in Stages : w[s] >= 0
  PROVE  Weighted(p, w) <= Weighted(q, w)
<1>1. \A s \in Stages : /\ p[s].score \in Int /\ q[s].score \in Int /\ w[s] \in Int
                         /\ p[s].score <= q[s].score /\ w[s] >= 0
  BY DEF Pipeline, Worse
<1>2. \A s \in Stages : /\ p[s].score * w[s] \in Int /\ q[s].score * w[s] \in Int
                         /\ p[s].score * w[s] <= q[s].score * w[s]
  <2> SUFFICES ASSUME NEW s \in Stages
               PROVE  /\ p[s].score * w[s] \in Int /\ q[s].score * w[s] \in Int
                      /\ p[s].score * w[s] <= q[s].score * w[s]
    OBVIOUS
  <2>1. /\ p[s].score \in Int /\ q[s].score \in Int /\ w[s] \in Int
        /\ p[s].score <= q[s].score /\ w[s] >= 0
    BY <1>1
  <2>2. p[s].score * w[s] \in Int /\ q[s].score * w[s] \in Int
    BY <2>1, Product
  <2>3. p[s].score * w[s] <= q[s].score * w[s]
    BY <2>1, TimesWeight
  <2> QED
    BY <2>2, <2>3
<1> DEFINE A(s) == p[s].score * w[s]
           B(s) == q[s].score * w[s]
<1>3. A("document") \in Int /\ B("document") \in Int /\ A("document") <= B("document")
  BY <1>2 DEF Stages
<1>4. A("biometric") \in Int /\ B("biometric") \in Int /\ A("biometric") <= B("biometric")
  BY <1>2 DEF Stages
<1>5. A("device") \in Int /\ B("device") \in Int /\ A("device") <= B("device")
  BY <1>2 DEF Stages
<1>6. A("behavioural") \in Int /\ B("behavioural") \in Int
      /\ A("behavioural") <= B("behavioural")
  BY <1>2 DEF Stages
<1>7. A("identity_graph") \in Int /\ B("identity_graph") \in Int
      /\ A("identity_graph") <= B("identity_graph")
  BY <1>2 DEF Stages
<1>8. /\ Weighted(p, w) = A("document") + A("biometric") + A("device")
                           + A("behavioural") + A("identity_graph")
      /\ Weighted(q, w) = B("document") + B("biometric") + B("device")
                           + B("behavioural") + B("identity_graph")
  BY DEF Weighted
<1> HIDE DEF A, B
<1> QED
  BY <1>3, <1>4, <1>5, <1>6, <1>7, <1>8

\* A clipped score lies in its range, and clipping keeps the order.
LEMMA ClipBounds ==
  /\ 100 * Point \in Nat
  /\ \A x \in Int : Clip(x) \in 0 .. 100 * Point
  /\ \A x, y \in Int : x <= y => Clip(x) <= Clip(y)
<1>1. Point \in Nat /\ 100 * Point \in Nat
  BY SMT DEF Point
<1>2. ASSUME NEW x \in Int PROVE Clip(x) \in 0 .. 100 * Point
  BY SMT, <1>1 DEF Clip
<1>3. ASSUME NEW x \in Int, NEW y \in Int, x <= y PROVE Clip(x) <= Clip(y)
  BY SMT, <1>1, <1>3 DEF Clip
<1> QED
  BY <1>1, <1>2, <1>3

\* The penalty does not fall when scores do.
LEMMA PenaltyMonotone ==
  ASSUME NEW p, NEW q, Pipeline(p), Pipeline(q), Worse(p, q)
  PROVE  Penalty(q) <= Penalty(p) /\ Penalty(p) \in {0, 5, 10} /\ Penalty(q) \in {0, 5, 10}
<1>1. \A s \in Stages : Low(q, s) => Low(p, s)
  BY DEF Low, Worse, Pipeline
<1> QED
  BY <1>1 DEF Penalty

LEMMA TrustMonotone ==
  ASSUME NEW p, NEW q, Pipeline(p), Pipeline(q), Worse(p, q),
         NEW w \in [Stages -> Int], \A s \in Stages : w[s] >= 0
  PROVE  /\ TrustScore(p, w) <= TrustScore(q, w)
         /\ TrustScore(p, w) \in 0 .. 100 * Point
         /\ TrustScore(q, w) \in 0 .. 100 * Point
<1>1. /\ Weighted(p, w) \in Int /\ Weighted(q, w) \in Int
      /\ Weighted(p, w) <= Weighted(q, w)
  BY WeightedInt, WeightedMonotone
<1>2. /\ Penalty(q) <= Penalty(p)
      /\ Penalty(p) \in {0, 5, 10} /\ Penalty(q) \in {0, 5, 10}
  BY PenaltyMonotone
<1>3. /\ Penalty(p) * Point \in Int /\ Penalty(q) * Point \in Int
      /\ Penalty(q) * Point <= Penalty(p) * Point
  BY SMT, <1>2 DEF Point
<1>4. /\ \A x \in Int : Clip(x) \in 0 .. 100 * Point
      /\ \A x, y \in Int : x <= y => Clip(x) <= Clip(y)
  BY ClipBounds
<1> DEFINE x == Weighted(p, w) - Penalty(p) * Point
           y == Weighted(q, w) - Penalty(q) * Point
<1>5. x \in Int /\ y \in Int /\ x <= y
  BY <1>1, <1>3
<1> QED
  BY <1>4, <1>5 DEF TrustScore

\* A better score never gives a less favourable decision, whatever the thresholds,
\* in order or not.
LEMMA ScoreToDecisionMonotone ==
  ASSUME NEW x \in Int, NEW y \in Int, x <= y, NEW t \in [Cutoffs -> Int]
  PROVE  Favour(ScoreToDecision(x, t)) <= Favour(ScoreToDecision(y, t))
<1>1. \A c \in Cutoffs : t[c] * Point \in Int
  BY SMT DEF Point
<1>2. /\ t["approve"] * Point \in Int /\ t["step_up"] * Point \in Int
      /\ t["manual_review"] * Point \in Int
  BY <1>1 DEF Cutoffs
<1> QED
  BY <1>2 DEF ScoreToDecision, Favour

\* A better score and fewer flags never give a less favourable decision, except that
\* the manual-review rule lifts a run whose score alone would reject it.
LEMMA FuseMonotone ==
  ASSUME NEW p, NEW q, Pipeline(p), Pipeline(q), Worse(p, q),
         NEW w \in [Stages -> Int], \A s \in Stages : w[s] >= 0,
         NEW t \in [Cutoffs -> Int]
  PROVE  \/ Favour(fuse(p, w, t).decision) <= Favour(fuse(q, w, t).decision)
         \/ /\ fuse(p, w, t).decision = "MANUAL_REVIEW"
            /\ AllFlags(p) \cap HARD_MANUAL # {}
            /\ AllFlags(p) \cap HARD_REJECT = {}
<1> DEFINE x == TrustScore(p, w)
           y == TrustScore(q, w)
<1>1. x <= y /\ x \in Int /\ y \in Int
  <2>1. x <= y /\ x \in 0 .. 100 * Point /\ y \in 0 .. 100 * Point
    BY TrustMonotone
  <2> QED
    BY <2>1, ClipBounds
<1>2. AllFlags(q) \subseteq AllFlags(p)
  BY DEF AllFlags, Worse
<1>3. Favour(ScoreToDecision(x, t)) <= Favour(ScoreToDecision(y, t))
  BY <1>1, ScoreToDecisionMonotone
<1>4. /\ fuse(p, w, t).decision = Decide(AllFlags(p), x, t)
      /\ fuse(q, w, t).decision = Decide(AllFlags(q), y, t)
  BY DEF fuse
<1> HIDE DEF x, y
<1>5. \A d : Favour(d) \in 0 .. 3
  BY DEF Favour
<1>6. CASE AllFlags(p) \cap HARD_REJECT # {}
  <2>1. Favour(Decide(AllFlags(p), x, t)) = 0
    BY <1>6 DEF Decide, Favour
  <2> QED
    BY <2>1, <1>4, <1>5
<1>7. CASE AllFlags(p) \cap HARD_REJECT = {} /\ AllFlags(p) \cap HARD_MANUAL # {}
  BY <1>4, <1>7 DEF Decide
<1>8. CASE AllFlags(p) \cap HARD_REJECT = {} /\ AllFlags(p) \cap HARD_MANUAL = {}
  <2>1. AllFlags(q) \cap HARD_REJECT = {} /\ AllFlags(q) \cap HARD_MANUAL = {}
    BY <1>2, <1>8
  <2> QED
    BY <1>3, <1>4, <1>8, <2>1 DEF Decide
<1> QED
  BY <1>6, <1>7, <1>8

-----------------------------------------------------------------------------
\* What has been decided was decided by fuse, from a configuration.
VerdictOK(r) ==
  Decided(r) =>
    \E p \in Pipelines, c \in Config :
      verdict[r] = [pipeline |-> p, config |-> c, fusion |-> fuse(p, c.weights, c.thresholds)]

ConfigOK ==
  /\ config \in Config \cup {None}
  /\ admin \in [Admins -> {"idle", "loaded", "updated", "refused"}]
  /\ request \in [Admins -> Updates \cup {None}]
  /\ loaded \in [Admins -> Config \cup {None}]
  /\ \A a \in Admins : admin[a] = "loaded" => request[a] \in Updates /\ loaded[a] \in Config

IInv == ConfigOK /\ DOMAIN verdict = Runs /\ \A r \in Runs : VerdictOK(r)

\* An update of a configuration is a configuration.
LEMMA UpdatedConfig ==
  ASSUME NEW c \in Config, NEW u \in Updates
  PROVE  [weights |-> Updated(c.weights, u.weights),
          thresholds |-> Updated(c.thresholds, u.thresholds)] \in Config
<1>1. c.weights \in [Stages -> Int] /\ c.thresholds \in [Cutoffs -> Int]
  BY DEF Config
<1>2. /\ DOMAIN u.weights \subseteq Stages /\ DOMAIN u.thresholds \subseteq Cutoffs
      /\ \A s \in DOMAIN u.weights : u.weights[s] \in Int
      /\ \A t \in DOMAIN u.thresholds : u.thresholds[t] \in Int
  BY UpdatesAssumption
<1>3. DOMAIN c.weights \cup DOMAIN u.weights = Stages
  BY <1>1, <1>2
<1>4. Updated(c.weights, u.weights) \in [Stages -> Int]
  BY <1>1, <1>2, <1>3 DEF Updated
<1>5. DOMAIN c.thresholds \cup DOMAIN u.thresholds = Cutoffs
  BY <1>1, <1>2
<1>6. Updated(c.thresholds, u.thresholds) \in [Cutoffs -> Int]
  BY <1>1, <1>2, <1>5 DEF Updated
<1> QED
  BY <1>4, <1>6 DEF Config

LEMMA InitInv == Init => IInv
BY DEF Init, IInv, ConfigOK, VerdictOK, Decided

\* Every step keeps the configuration, and what was decided, of the right form.
LEMMA NextInv == IInv /\ [Next]_vars => IInv'
<1> SUFFICES ASSUME IInv, [Next]_vars PROVE IInv'
  OBVIOUS
<1> USE DEF IInv, ConfigOK
<1>1. Current \in Config
  BY DefaultAssumption DEF Current
<1>2. ASSUME verdict' = verdict PROVE \A r \in Runs : VerdictOK(r)'
  BY <1>2 DEF VerdictOK, Decided
<1>3. ASSUME NEW a \in Admins, LoadConfig(a) PROVE IInv'
  BY <1>1, <1>2, <1>3 DEF LoadConfig
<1>4. ASSUME NEW a \in Admins, SaveConfig(a) PROVE IInv'
  <2>1. config' \in Config
    BY <1>4, UpdatedConfig DEF SaveConfig
  <2> QED
    BY <1>2, <1>4, <2>1 DEF SaveConfig
<1>5. ASSUME NEW a \in Admins, RefuseUpdate(a) PROVE IInv'
  BY <1>2, <1>5 DEF RefuseUpdate
<1>6. ASSUME NEW r \in Runs, Fuse(r) PROVE IInv'
  <2>1. PICK p \in Pipelines, c \in {Current, Default} :
          verdict' = [verdict EXCEPT ![r] =
            [pipeline |-> p, config |-> c, fusion |-> fuse(p, c.weights, c.thresholds)]]
    BY <1>6 DEF Fuse
  <2>2. c \in Config
    BY <1>1, DefaultAssumption
  <2>3. VerdictOK(r)'
    BY <2>1, <2>2 DEF VerdictOK
  <2>4. \A s \in Runs \ {r} : VerdictOK(s)'
    BY <2>1 DEF VerdictOK, Decided
  <2>5. DOMAIN verdict' = Runs
    BY <2>1
  <2>6. ConfigOK'
    BY <1>6 DEF Fuse
  <2> QED
    BY <2>3, <2>4, <2>5, <2>6
<1>7. CASE UNCHANGED vars
  BY <1>2, <1>7 DEF vars
<1> QED
  BY <1>3, <1>4, <1>5, <1>6, <1>7 DEF Next

\* The scores the stages come to are whole numbers.
LEMMA PipelinesAreWhole == \A p \in Pipelines : Pipeline(p)
<1> SUFFICES ASSUME NEW p \in Pipelines, NEW s \in Stages PROVE p[s].score \in Int
  BY DEF Pipeline
<1>1. p[s] \in Results[s]
  BY DEF Pipelines, Stages
<1> QED
  BY SMT, <1>1, ResultsAssumption

\* A verdict, taken apart.
LEMMA VerdictParts ==
  ASSUME IInv, NEW r \in Runs, Decided(r)
  PROVE  \E p \in Pipelines, c \in Config :
           /\ verdict[r].pipeline = p /\ verdict[r].config = c
           /\ Flags(r) = AllFlags(p)
           /\ verdict[r].fusion.trust_score = TrustScore(p, c.weights)
           /\ Decision(r) = fuse(p, c.weights, c.thresholds).decision
           /\ Decision(r) = Decide(AllFlags(p), TrustScore(p, c.weights), c.thresholds)
<1>1. PICK p \in Pipelines, c \in Config :
        verdict[r] = [pipeline |-> p, config |-> c, fusion |-> fuse(p, c.weights, c.thresholds)]
  BY DEF IInv, VerdictOK
<1>2. /\ verdict[r].pipeline = p /\ verdict[r].config = c
      /\ verdict[r].fusion = fuse(p, c.weights, c.thresholds)
  BY <1>1
<1>3. /\ fuse(p, c.weights, c.thresholds).trust_score = TrustScore(p, c.weights)
      /\ fuse(p, c.weights, c.thresholds).decision
           = Decide(AllFlags(p), TrustScore(p, c.weights), c.thresholds)
  BY DEF fuse
<1> QED
  BY <1>2, <1>3 DEF Flags, Decision

-----------------------------------------------------------------------------
\* Configurations and verdicts have their form in every reachable state.
THEOREM ScoringInductive == Spec => []IInv
BY InitInv, NextInv, PTL DEF Spec

\* Every variable holds a value of its kind, every trust score lies in 0 .. 100.
THEOREM ScoringTypeCorrect == Spec => []TypeOK
<1>1. IInv => TypeOK
  <2> SUFFICES ASSUME IInv, NEW r \in Runs, Decided(r)
               PROVE  /\ verdict[r].pipeline \in Pipelines
                      /\ verdict[r].config \in Config
                      /\ verdict[r].fusion.trust_score \in 0 .. 100 * Point
                      /\ Decision(r) \in {"APPROVE", "STEP_UP", "MANUAL_REVIEW", "REJECT"}
    BY DEF TypeOK, IInv, ConfigOK
  <2>1. PICK p \in Pipelines, c \in Config :
          /\ verdict[r].pipeline = p /\ verdict[r].config = c
          /\ verdict[r].fusion.trust_score = TrustScore(p, c.weights)
          /\ Decision(r) = Decide(AllFlags(p), TrustScore(p, c.weights), c.thresholds)
    BY VerdictParts
  <2>2. Weighted(p, c.weights) \in Int
    BY PipelinesAreWhole, WeightedInt DEF Config
  <2>3. Penalty(p) * Point \in Int
    BY SMT DEF Penalty, Point
  <2>4. TrustScore(p, c.weights) \in 0 .. 100 * Point
    BY <2>2, <2>3, ClipBounds DEF TrustScore
  <2>5. Decision(r) \in {"APPROVE", "STEP_UP", "MANUAL_REVIEW", "REJECT"}
    BY <2>1 DEF Decide, ScoreToDecision
  <2> QED
    BY <2>1, <2>4, <2>5
<1> QED
  BY <1>1, ScoringInductive, PTL

\* No configuration and no score softens a hard fail.
THEOREM HardFailsPrevail == Spec => []HardFailDecides
<1>1. IInv => HardFailDecides
  <2> SUFFICES ASSUME IInv, NEW r \in Runs, Decided(r)
               PROVE  /\ Flags(r) \cap HARD_REJECT # {} => Decision(r) = "REJECT"
                      /\ Flags(r) \cap HARD_MANUAL # {}
                           => Decision(r) \in {"MANUAL_REVIEW", "REJECT"}
    BY DEF HardFailDecides
  <2>1. PICK p \in Pipelines, c \in Config :
          /\ Flags(r) = AllFlags(p)
          /\ Decision(r) = Decide(AllFlags(p), TrustScore(p, c.weights), c.thresholds)
    BY VerdictParts
  <2> QED
    BY <2>1 DEF Decide
<1> QED
  BY <1>1, ScoringInductive, PTL

\* For any weights of at least 0 and any thresholds, a run with worse scores and more
\* flags is not favoured, unless the manual-review rule lifts it.
THEOREM VerdictsAreMonotone == Spec => []WorseNeverFavoured
<1>1. IInv => WorseNeverFavoured
  <2> SUFFICES ASSUME IInv, NEW r \in Runs, NEW s \in Runs, Decided(r), Decided(s),
                      verdict[r].config = verdict[s].config,
                      \A g \in Stages : verdict[r].config.weights[g] >= 0,
                      Worse(verdict[r].pipeline, verdict[s].pipeline)
               PROVE  Favour(Decision(r)) <= Favour(Decision(s)) \/ LiftedToManual(r)
    BY DEF WorseNeverFavoured
  <2>1. PICK p \in Pipelines, c \in Config :
          /\ verdict[r].pipeline = p /\ verdict[r].config = c
          /\ Flags(r) = AllFlags(p)
          /\ Decision(r) = fuse(p, c.weights, c.thresholds).decision
    BY VerdictParts
  <2>2. PICK q \in Pipelines, d \in Config :
          /\ verdict[s].pipeline = q /\ verdict[s].config = d
          /\ Decision(s) = fuse(q, d.weights, d.thresholds).decision
    BY VerdictParts
  <2>3. /\ Pipeline(p) /\ Pipeline(q) /\ Worse(p, q) /\ c = d
        /\ c.weights \in [Stages -> Int] /\ c.thresholds \in [Cutoffs -> Int]
        /\ \A g \in Stages : c.weights[g] >= 0
    BY <2>1, <2>2, PipelinesAreWhole DEF Config
  <2>4. \/ Favour(fuse(p, c.weights, c.thresholds).decision)
             <= Favour(fuse(q, c.weights, c.thresholds).decision)
        \/ /\ fuse(p, c.weights, c.thresholds).decision = "MANUAL_REVIEW"
           /\ AllFlags(p) \cap HARD_MANUAL # {}
           /\ AllFlags(p) \cap HARD_REJECT = {}
    BY <2>3, FuseMonotone
  <2> QED
    BY <2>1, <2>2, <2>3, <2>4 DEF LiftedToManual
<1> QED
  BY <1>1, ScoringInductive, PTL

-----------------------------------------------------------------------------
(* The weights in force.                                                   *)

SumsToOne(w) == WeightSum(w) \in 99 .. 101

\* As the admin console asks (AdminPanel.tsx): for all of the weights, or for none.
Whole(u) == DOMAIN u.weights = Stages \/ DOMAIN u.weights = {}

\* Every configuration at hand has weights that sum to one; requests are asked for as
\* they came.
WeightInv ==
  /\ config # None => SumsToOne(config.weights)
  /\ \A a \in Admins :
       admin[a] = "loaded" => SumsToOne(loaded[a].weights) /\ request[a] \in Updates

LEMMA WholeUpdateSums ==
  ASSUME NEW w \in [Stages -> Int], SumsToOne(w), NEW u \in Updates, Whole(u), Accepts(u.weights)
  PROVE  SumsToOne(Updated(w, u.weights))
<1>1. CASE DOMAIN u.weights = {}
  <2>1. Updated(w, u.weights) = [k \in Stages |-> w[k]]
    BY <1>1, Zenon DEF Updated
  <2>2. w = [k \in Stages |-> w[k]]
    OBVIOUS
  <2> QED
    BY <2>1, <2>2
<1>2. CASE DOMAIN u.weights = Stages
  <2>1. \A k \in Stages : Updated(w, u.weights)[k] = u.weights[k]
    BY <1>2 DEF Updated
  <2>2. DOMAIN Updated(w, u.weights) = Stages
    BY <1>2 DEF Updated
  <2>3. WeightSum(Updated(w, u.weights)) = WeightSum(u.weights)
    BY <1>2, <2>1, <2>2, Zenon DEF WeightSum, WeightOr0, Stages
  <2>4. DOMAIN u.weights # {}
    BY <1>2 DEF Stages
  <2> QED
    BY <2>3, <2>4 DEF Accepts, SumsToOne
<1> QED
  BY <1>1, <1>2 DEF Whole

\* As long as every update comes from the console, the weights in force sum to one,
\* whatever administrators overwrite each other's changes: update_config, which checks
\* the weights of the request, needs no more of its clients than that they send all.
THEOREM ConsoleKeepsTheSum ==
  SumsToOne(Default.weights) /\ (\A u \in Updates : Whole(u))
    => (Spec => []StoredWeightsSumToOne)
<1> SUFFICES ASSUME SumsToOne(Default.weights), \A u \in Updates : Whole(u)
             PROVE  Spec => []StoredWeightsSumToOne
  OBVIOUS
<1>1. Init => WeightInv
  BY DEF Init, WeightInv
<1>2. IInv /\ WeightInv /\ [Next]_vars => WeightInv'
  <2> SUFFICES ASSUME IInv, WeightInv, [Next]_vars PROVE WeightInv'
    OBVIOUS
  <2>1. ASSUME NEW a \in Admins, LoadConfig(a) PROVE WeightInv'
    <3>1. SumsToOne(Current.weights)
      BY DEF Current, WeightInv
    <3> QED
      BY <2>1, <3>1 DEF LoadConfig, WeightInv, IInv, ConfigOK
  <2>2. ASSUME NEW a \in Admins, SaveConfig(a) PROVE WeightInv'
    <3>1. /\ loaded[a].weights \in [Stages -> Int] /\ SumsToOne(loaded[a].weights)
          /\ request[a] \in Updates /\ Accepts(request[a].weights)
      BY <2>2 DEF SaveConfig, WeightInv, IInv, ConfigOK, Config
    <3>2. SumsToOne(Updated(loaded[a].weights, request[a].weights))
      BY <3>1, WholeUpdateSums
    <3>3. config'.weights = Updated(loaded[a].weights, request[a].weights)
      BY <2>2 DEF SaveConfig
    <3> QED
      BY <2>2, <3>2, <3>3 DEF SaveConfig, WeightInv, IInv, ConfigOK
  <2>3. ASSUME NEW a \in Admins, RefuseUpdate(a) PROVE WeightInv'
    BY <2>3 DEF RefuseUpdate, WeightInv, IInv, ConfigOK
  <2>4. ASSUME NEW r \in Runs, Fuse(r) PROVE WeightInv'
    BY <2>4 DEF Fuse, WeightInv
  <2>5. CASE UNCHANGED vars
    BY <2>5 DEF vars, WeightInv
  <2> QED
    BY <2>1, <2>2, <2>3, <2>4, <2>5 DEF Next
<1>3. WeightInv => StoredWeightsSumToOne
  BY DEF WeightInv, StoredWeightsSumToOne, SumsToOne
<1> QED
  BY <1>1, <1>2, <1>3, ScoringInductive, PTL DEF Spec
=============================================================================
