----------------------------- MODULE StageScores -----------------------------
(***************************************************************************)
(* What the five stages of a run can hand to the fusion engine: a score,   *)
(* in hundredths of a point, and flags.  The measurements of the ML        *)
(* service are percentages; they are multiples of ten, which keeps its     *)
(* weighted scores whole.                                                  *)
(***************************************************************************)
EXTENDS Integers, FiniteSetsExt

FullScore == 10000
AtLeastZero(n) == IF n < 0 THEN 0 ELSE n

\* A stage that starts from 100 and takes off the deduction of each flag it raises.
Deducted(flags, deduction) ==
  [score |-> AtLeastZero(100 * (100 - MapThenSumSet(LAMBDA f : deduction[f], flags))),
   flags |-> flags]

DeviceDeduction ==
  [f \in {"EMULATOR_DETECTED", "SUSPICIOUS_HW_CONCURRENCY", "VPN_DATACENTER_IP",
          "ANONYMOUS_PROXY", "TZ_IP_MISMATCH", "FRAUD_IP"} |->
     CASE f = "EMULATOR_DETECTED" -> 30
       [] f = "SUSPICIOUS_HW_CONCURRENCY" -> 10
       [] f = "VPN_DATACENTER_IP" -> 12
       [] f = "ANONYMOUS_PROXY" -> 15
       [] f = "TZ_IP_MISMATCH" -> 8
       [] f = "FRAUD_IP" -> 20]

BehaviourDeduction ==
  [f \in {"BEH_BOT_SPEED", "BEH_BOT_CONSISTENCY", "BEH_FAST_FORM", "BEH_PASTE_ABUSE"} |->
     CASE f = "BEH_BOT_SPEED" -> 22
       [] f = "BEH_BOT_CONSISTENCY" -> 12
       [] f = "BEH_FAST_FORM" -> 10
       [] f = "BEH_PASTE_ABUSE" -> 8]

GraphDeduction ==
  [f \in {"GRAPH_DUPLICATE", "GRAPH_RING_MEMBER", "SHARED_DEVICE", "SHARED_IP"} |->
     CASE f = "GRAPH_DUPLICATE" -> 60
       [] f = "GRAPH_RING_MEMBER" -> 40
       [] f = "SHARED_DEVICE" -> 15
       [] f = "SHARED_IP" -> 10]

\* analyse_device.  Its flags are raised independently of each other (four of them
\* for a public address only), so every set of them is one of its answers.
analyse_device(flags) == Deducted(flags, DeviceDeduction)

\* analyse_behavioural
analyse_behavioural(flags) == Deducted(flags, BehaviourDeduction)

\* analyse_graph
analyse_graph(flags) == Deducted(flags, GraphDeduction)

\* run_forensics: the error level, the copies and the noise found in the image, and
\* the flags that come from its metadata, the id number and the form.
run_forensics(ela, copies, noise, others) ==
  LET flags == others
        \cup (IF ela > 60 THEN {"ELA_ANOMALY"} ELSE {})
        \cup (IF copies > 40 THEN {"COPY_MOVE_DETECTED"} ELSE {})
        \cup (IF noise > 50 THEN {"NOISE_INCONSISTENCY"} ELSE {})
  IN [score |-> AtLeastZero(FullScore - (315 * ela + 245 * copies + 140 * noise) \div 10
                                  - 500 * Cardinality(flags)),
      flags |-> flags]

\* The document stage without an image, and when the ML service does not answer.
NoDocument == [score |-> 5000, flags |-> {}]
DocumentFallback == [score |-> 6000, flags |-> {"DOC_ML_UNAVAILABLE"}]

\* The biometric stage: face match, passive liveness, whether the active challenge
\* is passed (or waived), and the deepfake probability.
Biometric(face, passive, active, fake) ==
  [score |-> 40 * face + (245 * passive) \div 10 + (IF active THEN 1050 ELSE 0)
             + 25 * (100 - fake),
   flags |-> (IF face < 40 THEN {"FACE_MISMATCH"} ELSE {})
             \cup (IF passive >= 50 /\ active THEN {} ELSE {"LIVENESS_FAIL"})
             \cup (IF fake > 55 THEN {"BIO_DEEPFAKE"} ELSE {})]

\* The biometric stage without a selfie, and when the ML service does not answer.
NoSelfie == [score |-> 5000, flags |-> {}]
BiometricFallback == [score |-> 6000, flags |-> {"BIO_ML_UNAVAILABLE"}]
=============================================================================
