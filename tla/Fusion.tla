------------------------------- MODULE Fusion -------------------------------
(***************************************************************************)
(* The fusion engine, backend/engines/fusion.py: how the scores and flags  *)
(* of the five stages become a decision, given weights and thresholds.     *)
(*                                                                         *)
(* Numbers are exact here, and whole: a stage score counts hundredths of a *)
(* point, a weight hundredths of one, so a trust score counts              *)
(* ten-thousandths of a point.  Thresholds and penalties are in points.    *)
(***************************************************************************)
EXTENDS Integers

Stages == {"document", "biometric", "device", "behavioural", "identity_graph"}
Cutoffs == {"approve", "step_up", "manual_review"}
Point == 10000

HARD_REJECT == {"GRAPH_DUPLICATE", "BIO_DEEPFAKE", "LIVENESS_FAIL"}
HARD_MANUAL == {"DOC_TAMPERED", "GRAPH_RING_MEMBER"}

\* The flags of the catalog by severity; a flag outside it gives no reason code.
CRITICAL == {"ID_CHECKSUM_FAIL", "DOC_TAMPERED", "FACE_MISMATCH", "LIVENESS_FAIL",
             "BIO_DEEPFAKE", "GRAPH_DUPLICATE", "GRAPH_RING_MEMBER"}
HIGH == {"ELA_ANOMALY", "COPY_MOVE_DETECTED", "FIELD_MISMATCH:name",
         "FIELD_MISMATCH:dob", "EMULATOR_DETECTED", "FRAUD_IP", "BOT_PATTERN"}
MEDIUM == {"EDITING_SOFTWARE_DETECTED", "EXIF_DATETIME_MISMATCH",
           "NOISE_INCONSISTENCY", "VPN_DATACENTER_IP", "SHARED_DEVICE_RISKY",
           "PASTE_HEAVY", "INSTANT_FILL", "SHARED_DEVICE", "SHARED_IP"}
LOW == {"TZ_IP_MISMATCH"}
INFO == {"DOC_ML_UNAVAILABLE", "BIO_ML_UNAVAILABLE"}
FLAG_CATALOG == CRITICAL \cup HIGH \cup MEDIUM \cup LOW \cup INFO

\* _score_to_decision
ScoreToDecision(score, t) ==
  IF score >= t["approve"] * Point THEN "APPROVE"
  ELSE IF score >= t["step_up"] * Point THEN "STEP_UP"
  ELSE IF score >= t["manual_review"] * Point THEN "MANUAL_REVIEW" ELSE "REJECT"

\* _risk_band
RiskBand(decision) ==
  IF decision = "APPROVE" THEN "LOW"
  ELSE IF decision = "STEP_UP" THEN "MEDIUM"
  ELSE IF decision = "MANUAL_REVIEW" THEN "HIGH" ELSE "CRITICAL"

\* The flags of all stages of a pipeline, a record [score, flags] for each stage.
AllFlags(pipeline) == UNION {pipeline[s].flags : s \in Stages}

\* _build_reason_codes, as a set: its order is only for display.
ReasonCodes(pipeline) == AllFlags(pipeline) \cap FLAG_CATALOG

\* _cross_signal_penalty
Low(pipeline, s) == pipeline[s].score < 5000
Penalty(pipeline) ==
  IF \E r, s, t \in Stages : /\ r # s /\ s # t /\ r # t
                             /\ Low(pipeline, r) /\ Low(pipeline, s) /\ Low(pipeline, t)
  THEN 10
  ELSE IF \E r, s \in Stages : r # s /\ Low(pipeline, r) /\ Low(pipeline, s) THEN 5
  ELSE 0

Weighted(pipeline, weights) ==
  pipeline["document"].score * weights["document"]
  + pipeline["biometric"].score * weights["biometric"]
  + pipeline["device"].score * weights["device"]
  + pipeline["behavioural"].score * weights["behavioural"]
  + pipeline["identity_graph"].score * weights["identity_graph"]

ClipBelow(x) == IF x < 0 THEN 0 ELSE x                     \* faulty variant
Clip(x) == IF x < 0 THEN 0 ELSE IF x > 100 * Point THEN 100 * Point ELSE x

TrustScore(pipeline, weights) ==
  Clip(Weighted(pipeline, weights) - Penalty(pipeline) * Point)

ScoreFirst(flags, score, t) ==                             \* faulty variant
  IF score >= t["approve"] * Point THEN "APPROVE"
  ELSE IF flags \cap HARD_REJECT # {} THEN "REJECT"
  ELSE IF flags \cap HARD_MANUAL # {} THEN "MANUAL_REVIEW"
  ELSE ScoreToDecision(score, t)
ManualFirst(flags, score, t) ==                            \* faulty variant
  IF flags \cap HARD_MANUAL # {} THEN "MANUAL_REVIEW"
  ELSE IF flags \cap HARD_REJECT # {} THEN "REJECT"
  ELSE ScoreToDecision(score, t)
Decide(flags, score, t) ==
  IF flags \cap HARD_REJECT # {} THEN "REJECT"
  ELSE IF flags \cap HARD_MANUAL # {} THEN "MANUAL_REVIEW"
  ELSE ScoreToDecision(score, t)

fuse(pipeline, weights, thresholds) ==
  LET score == TrustScore(pipeline, weights)
      flags == AllFlags(pipeline)
      decision == Decide(flags, score, thresholds)
  IN [trust_score |-> score,
      decision |-> decision,
      risk_band |-> RiskBand(decision),
      reason_codes |-> ReasonCodes(pipeline),
      override |-> flags \cap (HARD_REJECT \cup HARD_MANUAL)]

\* How favourable a decision is to the applicant.
Favour(decision) ==
  IF decision = "APPROVE" THEN 3
  ELSE IF decision = "STEP_UP" THEN 2
  ELSE IF decision = "MANUAL_REVIEW" THEN 1 ELSE 0

\* Pipeline p gives at most the scores of q, and all the flags of q.
Worse(p, q) ==
  \A s \in Stages : p[s].score <= q[s].score /\ q[s].flags \subseteq p[s].flags
=============================================================================
