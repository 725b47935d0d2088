------------------------------- MODULE Scoring -------------------------------
(***************************************************************************)
(* The runtime configuration and the decisions made under it: the config   *)
(* endpoints of backend/routers/admin.py, the Redis key they share with    *)
(* the workers, and the fusion step of a run.  Administrators load, change *)
(* and save while runs are decided.                                        *)
(***************************************************************************)
EXTENDS Fusion

CONSTANTS
  Runs,      \* the runs to decide
  Admins,    \* the update requests of administrators, each handled once
  Results,   \* Results[s]: what stage s can come to
  Updates,   \* what an update can ask for: [weights, thresholds], each a partial
             \* function from the known names to whole percents, <<>> where nothing
             \* is asked (the code also takes unknown names, and fails on a weight
             \* that is no number)
  Default,   \* the weights and thresholds of settings
  None       \* a missing Redis key, and nothing loaded or decided

Config == [weights : [Stages -> Int],
           thresholds : [Cutoffs -> Int]]

ASSUME DefaultAssumption == Default \in Config /\ None \notin Config
ASSUME UpdatesAssumption ==
  \A u \in Updates :
    /\ DOMAIN u.weights \subseteq Stages
    /\ DOMAIN u.thresholds \subseteq Cutoffs
    /\ \A s \in DOMAIN u.weights : u.weights[s] \in Int
    /\ \A t \in DOMAIN u.thresholds : u.thresholds[t] \in Int
ASSUME ResultsAssumption ==
  \A s \in Stages : \A x \in Results[s] : x.score \in Nat

VARIABLES
  config,    \* Redis key runtime_config
  admin,     \* where each update request stands
  request,   \* what it asks for
  loaded,    \* the configuration it has loaded
  verdict    \* what each run was decided from, and the decision

vars == <<config, admin, request, loaded, verdict>>

Init ==
  /\ config = None
  /\ admin = [a \in Admins |-> "idle"]
  /\ request = [a \in Admins |-> None]
  /\ loaded = [a \in Admins |-> None]
  /\ verdict = [r \in Runs |-> None]

-----------------------------------------------------------------------------
\* The configuration in force.  It is also what a run uses: it starts from the
\* defaults and takes every value the key has.
Current == IF config = None THEN Default ELSE config

\* update_config, up to the await of _load_config
LoadConfig(a) ==
  /\ admin[a] = "idle"
  /\ \E u \in Updates : request' = [request EXCEPT ![a] = u]
  /\ loaded' = [loaded EXCEPT ![a] = Current]
  /\ admin' = [admin EXCEPT ![a] = "loaded"]
  /\ UNCHANGED <<config, verdict>>

\* dict.update
Updated(f, g) == [k \in DOMAIN f \cup DOMAIN g |-> IF k \in DOMAIN g THEN g[k] ELSE f[k]]

WeightOr0(w, s) == IF s \in DOMAIN w THEN w[s] ELSE 0
WeightSum(w) ==
  WeightOr0(w, "document") + WeightOr0(w, "biometric") + WeightOr0(w, "device")
  + WeightOr0(w, "behavioural") + WeightOr0(w, "identity_graph")

\* The weights of a request must sum to 1, give or take 0.01; no weights will do.  At
\* 0.99 and 1.01 the rounding of the floating-point sum decides: 0 + 0 + .16 + .27 + .56
\* is accepted, .31 + .25 + .2 + .1 + .15 is refused.  Accepts says which requests may
\* be saved; any may be refused (RefuseUpdate).
Accepts(w) == DOMAIN w = {} \/ WeightSum(w) \in 99 .. 101

\* update_config, after the await: the changed copy replaces the whole key.
SaveConfig(a) ==
  /\ admin[a] = "loaded"
  /\ Accepts(request[a].weights)
  /\ config' = [weights |-> Updated(loaded[a].weights, request[a].weights),
                thresholds |-> Updated(loaded[a].thresholds, request[a].thresholds)]
  /\ admin' = [admin EXCEPT ![a] = "updated"]
  /\ UNCHANGED <<request, loaded, verdict>>

\* 400 for the sum, or for a sum that rounding takes out of the tolerance, or Redis does
\* not answer.
RefuseUpdate(a) ==
  /\ admin[a] = "loaded"
  /\ admin' = [admin EXCEPT ![a] = "refused"]
  /\ UNCHANGED <<config, request, loaded, verdict>>

\* What the five stages of a run can come to together.
Pipelines ==
  {[s \in Stages |-> IF s = "document" THEN doc ELSE IF s = "biometric" THEN bio
                     ELSE IF s = "device" THEN dev ELSE IF s = "behavioural" THEN beh
                     ELSE graph] :
     doc \in Results["document"], bio \in Results["biometric"], dev \in Results["device"],
     beh \in Results["behavioural"], graph \in Results["identity_graph"]}

\* The fusion stage of run r: the configuration is read once, or the defaults are
\* used when Redis does not answer.
Fuse(r) ==
  /\ verdict[r] = None
  /\ \E pipeline \in Pipelines, c \in {Current, Default} :
       verdict' = [verdict EXCEPT ![r] =
         [pipeline |-> pipeline, config |-> c,
          fusion |-> fuse(pipeline, c.weights, c.thresholds)]]
  /\ UNCHANGED <<config, admin, request, loaded>>

Next ==
  \/ \E a \in Admins : LoadConfig(a) \/ SaveConfig(a) \/ RefuseUpdate(a)
  \/ \E r \in Runs : Fuse(r)

Spec == Init /\ [][Next]_vars

-----------------------------------------------------------------------------
(* Properties.                                                             *)

Decided(r) == verdict[r] # None
Decision(r) == verdict[r].fusion.decision
Flags(r) == AllFlags(verdict[r].pipeline)

\* Every variable holds a value of its kind; a trust score lies between 0 and 100.
TypeOK ==
  /\ config \in Config \cup {None}
  /\ admin \in [Admins -> {"idle", "loaded", "updated", "refused"}]
  /\ request \in [Admins -> Updates \cup {None}]
  /\ loaded \in [Admins -> Config \cup {None}]
  /\ \A r \in Runs : Decided(r) =>
       /\ verdict[r].pipeline \in Pipelines
       /\ verdict[r].config \in Config
       /\ verdict[r].fusion.trust_score \in 0 .. 100 * Point
       /\ Decision(r) \in {"APPROVE", "STEP_UP", "MANUAL_REVIEW", "REJECT"}

\* No configuration and no score can soften a hard fail: a duplicate, a deepfake or
\* a failed liveness check is rejected, a ring member or tampered document at least
\* goes to a human.
HardFailDecides ==
  \A r \in Runs : Decided(r) =>
    /\ Flags(r) \cap HARD_REJECT # {} => Decision(r) = "REJECT"
    /\ Flags(r) \cap HARD_MANUAL # {} => Decision(r) \in {"MANUAL_REVIEW", "REJECT"}

\* The code's manual-review rule also lifts a run that its score alone would reject.
LiftedToManual(r) ==
  /\ Decision(r) = "MANUAL_REVIEW"
  /\ Flags(r) \cap HARD_MANUAL # {}
  /\ Flags(r) \cap HARD_REJECT = {}

\* Of two runs decided under the same configuration, the one with worse scores and
\* all the flags of the other never gets the more favourable decision, except when
\* the manual-review rule lifts it: neither the penalty nor the order of the rules
\* turns a bad signal into a good one.  It needs weights of at least 0, which
\* update_config does not ask for.
WorseNeverFavoured ==
  \A p, q \in Runs :
    /\ Decided(p) /\ Decided(q)
    /\ verdict[p].config = verdict[q].config
    /\ \A s \in Stages : verdict[p].config.weights[s] >= 0
    /\ Worse(verdict[p].pipeline, verdict[q].pipeline)
    => Favour(Decision(p)) <= Favour(Decision(q)) \/ LiftedToManual(p)

\* What admin.py:64 says of the weights: they sum to 1, within the tolerance.
StoredWeightsSumToOne == config # None => WeightSum(config.weights) \in 99 .. 101
=============================================================================
