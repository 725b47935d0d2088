---------------------------- MODULE MCSubmission ----------------------------
(* A small instance of Submission: four requests of one user, one of which carries *)
(* both images and one a selfie.                                                   *)
EXTENDS Submission

CONSTANTS r1, r2, r3, r4, ana

Senders == [r \in Requests |-> ana]
Images == [r \in Requests |-> CASE r = r1 -> Media
                                [] r = r2 -> {"selfie"}
                                [] OTHER -> {}]
=============================================================================
