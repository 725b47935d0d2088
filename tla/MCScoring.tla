------------------------------ MODULE MCScoring ------------------------------
(* Small instances of Scoring for TLC, fed with results the stages really have. *)
EXTENDS Scoring, StageScores

DefaultConfig ==
  [weights |-> [document |-> 30, biometric |-> 25, device |-> 20,
                behavioural |-> 10, identity_graph |-> 15],
   thresholds |-> [approve |-> 75, step_up |-> 55, manual_review |-> 35]]

\* For each stage a good result, bad ones, and the fallback.
StageResults ==
  [document |-> {run_forensics(0, 0, 0, {}), DocumentFallback,
                 run_forensics(90, 80, 70, {"ID_CHECKSUM_FAIL"})},
   biometric |-> {Biometric(100, 100, TRUE, 0), Biometric(20, 40, TRUE, 60),
                  Biometric(30, 90, TRUE, 10)},
   device |-> {analyse_device({}),
               analyse_device({"EMULATOR_DETECTED", "FRAUD_IP", "ANONYMOUS_PROXY"})},
   behavioural |-> {analyse_behavioural({}),
                    analyse_behavioural({"BEH_BOT_SPEED", "BEH_BOT_CONSISTENCY",
                                         "BEH_FAST_FORM", "BEH_PASTE_ABUSE"})},
   identity_graph |-> {analyse_graph({}), analyse_graph({"GRAPH_DUPLICATE"}),
                       analyse_graph({"GRAPH_RING_MEMBER", "SHARED_IP"}),
                       analyse_graph({"GRAPH_DUPLICATE", "GRAPH_RING_MEMBER"})}]

\* As the admin console sends them: all the weights, all the thresholds.  The weights
\* of the second sum to 1.01, on the edge of the tolerance, those of the third to 1.60.
ConsoleUpdates ==
  { [weights |-> [document |-> 20, biometric |-> 20, device |-> 20,
                  behavioural |-> 20, identity_graph |-> 20],
     thresholds |-> [approve |-> 90, step_up |-> 70, manual_review |-> 50]],
    [weights |-> [document |-> 31, biometric |-> 25, device |-> 20,
                  behavioural |-> 10, identity_graph |-> 15],
     thresholds |-> [approve |-> 75, step_up |-> 55, manual_review |-> 35]],
    [weights |-> [document |-> 90, biometric |-> 90, device |-> 20,
                  behavioural |-> 10, identity_graph |-> 15],
     thresholds |-> [approve |-> 75, step_up |-> 55, manual_review |-> 35]] }

\* As any client of the API may send them.
PartialUpdates ==
  { [weights |-> [document |-> 100], thresholds |-> <<>>],
    [weights |-> [document |-> 60, biometric |-> 40], thresholds |-> <<>>],
    [weights |-> <<>>, thresholds |-> [approve |-> 80]] }
=============================================================================
