--------------------------- MODULE BiometricChecks ---------------------------
(***************************************************************************)
(* What the ML service computes from a selfie, the photograph on the       *)
(* document and the frames of a video: ml-service/models/face.py,          *)
(* liveness.py and deepfake.py.                                            *)
(*                                                                         *)
(* Media are a record of what the libraries measure in them: which faces   *)
(* the detectors find, the similarity of the two, the answer of each       *)
(* network, in per cent; and of each frame the eye aspect ratio            *)
(* (hundredths), the place of the nose (per cent of the width) and the     *)
(* grey level (tenths).                                                    *)
(***************************************************************************)
EXTENDS Integers, SequencesExt

Abs(n) == IF n < 0 THEN -n ELSE n

\* The sum of f[1] to f[n].
Total(f, n) == LET total[i \in 0 .. n] == IF i = 0 THEN 0 ELSE total[i - 1] + f[i]
               IN total[n]

-----------------------------------------------------------------------------
(* Face match.                                                             *)

FaceThreshold == 40

\* run_face_match; measures is FALSE when there is no model or a library raises.
run_face_match(media, measures) ==
  IF measures /\ {"document", "selfie"} \subseteq media.faces
  THEN [score |-> IF media.similarity < 0 THEN 0 ELSE media.similarity,
        matched |-> media.similarity >= FaceThreshold,
        error |-> {}]
  ELSE [score |-> 0, matched |-> FALSE, error |-> {"face_match"}]

-----------------------------------------------------------------------------
(* Liveness.                                                               *)

\* passive_liveness_score, with the networks of MiniFASNet that give an answer
passive_liveness_score(media, networks) ==
  LET total == MapThenSumSet(LAMBDA n : media.live[n], networks)
      count == Cardinality(networks)
  IN IF "box" \notin media.faces THEN [score |-> 0, live |-> FALSE]
     ELSE IF networks = {} THEN [score |-> 50, live |-> TRUE]
     ELSE [score |-> total \div count, live |-> total >= 50 * count]

\* The eye closes at some moment and is open at another.
BlinkAtLimit(ears) == \E a, b \in ears : a <= 25 /\ b >= 25   \* faulty variant
Blink(ears) == \E a, b \in ears : a < 25 /\ b > 25

\* active_liveness_from_frames with MediaPipe's landmarks
LandmarksMove(frames) ==
  LET seen == {i \in DOMAIN frames : frames[i].opens /\ frames[i].face} IN
  \/ Blink({frames[i].ear : i \in seen})
  \/ /\ Cardinality(seen) >= 5
     /\ \E i, j \in seen : frames[i].nose - frames[j].nose > 5

\* Without: the mean difference between a frame that can be read and the one before.
Readable(frames, i) == {j \in 1 .. i : frames[j].opens}
Compared(frames) == {i \in DOMAIN frames : frames[i].opens /\ Readable(frames, i - 1) # {}}
Difference(frames, i) ==
  IF i \in Compared(frames)
  THEN Abs(frames[i].grey - frames[Max(Readable(frames, i - 1))].grey) ELSE 0
PictureMoves(frames) ==
  LET motion == Total([i \in DOMAIN frames |-> Difference(frames, i)], Len(frames))
  IN motion > 15 * Cardinality(Compared(frames))

\* run_liveness: without a video the challenge is waived.
Challenge(frames, mediapipe) ==
  \/ frames = <<>>
  \/ mediapipe /\ LandmarksMove(frames)
  \/ ~mediapipe /\ PictureMoves(frames)

-----------------------------------------------------------------------------
(* Deepfakes.                                                              *)

\* Every step-th frame from the first, eight of them if there are as many.
Step(n) == IF n < 8 THEN 1 ELSE n \div 8
SampleSize(frames) == IF Len(frames) < 8 THEN Len(frames) ELSE 8
Sampled(frames) ==
  [i \in 1 .. SampleSize(frames) |-> frames[(i - 1) * Step(Len(frames)) + 1]]

\* _predict_frame: 1/2 for a frame that cannot be read.  Where some weights are random
\* the network may answer anything: guess, to every picture.
Predicted(frame, network, guess) ==
  IF ~frame.opens THEN 50 ELSE IF network = "random" THEN guess ELSE frame.fake

\* The selfie counts twice.
ForgetsSelfie(n) == n + 1                                    \* faulty variant
Weights(n) == n + 2

\* run_deepfake_detection with a network
NetworkScore(media, network, guess) ==
  LET frames == Sampled(media.frames)
      count == SampleSize(media.frames)
      predicted == [i \in 1 .. count |-> Predicted(frames[i], network, guess)]
      total == 2 * Predicted(media, network, guess) + Total(predicted, count)
  IN (85 * total) \div Weights(count) + 15 * media.gan

\* run_deepfake_detection, the probability in hundredths of a per cent, rounded down
DeepfakeProbability(media, network, guess) ==
  IF network = "unset" THEN 60 * media.gan ELSE NetworkScore(media, network, guess)

DeepfakeThreshold == 5500
=============================================================================
