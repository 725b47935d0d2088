------------------------ MODULE MCAssessmentPipeline ------------------------
(* Small instances of AssessmentPipeline for TLC. *)
EXTENDS AssessmentPipeline
=============================================================================
