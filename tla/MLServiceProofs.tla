-------------------------- MODULE MLServiceProofs --------------------------
(***************************************************************************)
(* Proofs about MLService, for any documents, media and weight files.      *)
(* What a reply says follows from the models at the moment it is made and  *)
(* from the arithmetic of the checks.                                      *)
(***************************************************************************)
EXTENDS MLService, ChecksProofs

-----------------------------------------------------------------------------
(* Document checks.                                                        *)

\* A descriptor that is compared with all of them, itself included, is matched with
\* itself or with nothing (copy_move_score): no image is ever seen to repeat a region.
THEOREM CopiesGoUnseen ==
  \A kp : DOMAIN kp \in SUBSET Nat => Suspicious(kp) = {}
<1> SUFFICES ASSUME NEW kp, DOMAIN kp \in SUBSET Nat, NEW i \in Suspicious(kp) PROVE FALSE
  OBVIOUS
<1> DEFINE Same(j) == {k \in DOMAIN kp : kp[k].desc = kp[j].desc}
<1>1. /\ i \in DOMAIN kp /\ BestMatch(kp, i) # i
      /\ BestMatch(kp, BestMatch(kp, i)) = i
  BY DEF Suspicious, Matches
<1>2. Same(i) \in SUBSET Nat /\ Same(i) # {}
  BY <1>1
<1>3. Min(Same(i)) \in Same(i)
  BY <1>2, LeastElement
<1>4. Same(Min(Same(i))) = Same(i)
  BY <1>3
<1>5. BestMatch(kp, i) = Min(Same(i)) /\ BestMatch(kp, Min(Same(i))) = Min(Same(Min(Same(i))))
  BY DEF BestMatch
<1> QED
  BY <1>1, <1>4, <1>5

LEMMA Quotient ==
  ASSUME NEW a \in Nat, NEW b \in Nat \ {0} PROVE a \div b \in Nat
  OBVIOUS

LEMMA SmallerNat ==
  ASSUME NEW m \in Nat, NEW n \in Nat PROVE Smaller(m, n) \in Nat
  BY DEF Smaller

\* The measurements that the document score is made of.
LEMMA Measured ==
  ASSUME NEW r \in Documents
  PROVE  /\ ela_score(r.image) \in Nat
         /\ copy_move_score(r.image) = 0
         /\ noise_inconsistency_score(r.image) \in Nat
<1>1. ela_score(r.image) \in Nat
  <2> DEFINE m == r.image.mean_diff
             x == r.image.max_diff
  <2>1. m \in Nat /\ x \in Nat
    BY DocumentsAssumption
  <2>2. (100 * m) \div 15 \in Nat
    BY <2>1
  <2>3. (100 * x) \div 255 \in Nat
    BY <2>1
  <2> HIDE DEF m, x
  <2>4. ((100 * m) \div 15 + (100 * x) \div 255) \div 2 \in Nat
    BY <2>2, <2>3
  <2> QED
    BY <2>4, SmallerNat DEF ela_score, m, x
<1>2. copy_move_score(r.image) = 0
  <2>1. DOMAIN r.image.keypoints \in SUBSET Nat
    BY DocumentsAssumption
  <2>2. Cardinality(Suspicious(r.image.keypoints)) = 0
    BY <2>1, CopiesGoUnseen, FS_EmptySet
  <2> QED
    BY <2>2 DEF copy_move_score, Smaller
<1>3. noise_inconsistency_score(r.image) \in Nat
  <2>1. r.image.deviation \div 2 \in Nat
    BY DocumentsAssumption
  <2> QED
    BY <2>1, SmallerNat DEF noise_inconsistency_score
<1> QED
  BY <1>1, <1>2, <1>3

LEMMA Remainder ==
  ASSUME NEW top \in Nat, NEW t \in Nat, NEW k \in Nat, NEW c \in Nat
  PROVE  AtLeastZero(top - t - k * c) \in 0 .. top
<1>1. k * c \in Nat
  OBVIOUS
<1> DEFINE d == k * c
<1> HIDE DEF d
<1>2. AtLeastZero(top - t - d) \in 0 .. top
  BY <1>1 DEF AtLeastZero, d
<1> QED
  BY <1>2 DEF d

LEMMA ScoreIsBounded ==
  ASSUME NEW e \in Nat, NEW n \in Nat, NEW others, IsFiniteSet(others)
  PROVE  run_forensics(e, 0, n, others).score \in 0 .. FullScore
<1> DEFINE flags == others
                     \cup (IF e > 60 THEN {"ELA_ANOMALY"} ELSE {})
                     \cup (IF 0 > 40 THEN {"COPY_MOVE_DETECTED"} ELSE {})
                     \cup (IF n > 50 THEN {"NOISE_INCONSISTENCY"} ELSE {})
           taken == (315 * e + 245 * 0 + 140 * n) \div 10
<1>1. IsFiniteSet(flags)
  BY FS_EmptySet, FS_Singleton, FS_Union
<1>2. Cardinality(flags) \in Nat
  BY <1>1, FS_CardinalityType
<1>3. taken \in Nat
  <2>1. 315 * e + 245 * 0 + 140 * n \in Nat
    OBVIOUS
  <2> QED
    BY <2>1, Quotient
<1>4. run_forensics(e, 0, n, others).score
        = AtLeastZero(FullScore - taken - 500 * Cardinality(flags))
  BY DEF run_forensics
<1> HIDE DEF flags, taken
<1>5. FullScore \in Nat /\ 500 \in Nat
  BY DEF FullScore
<1>6. \A k \in Nat : AtLeastZero(FullScore - taken - k * Cardinality(flags)) \in 0 .. FullScore
  BY <1>2, <1>3, <1>5, Remainder
<1> QED
  BY <1>4, <1>5, <1>6

LEMMA ForensicsScore ==
  ASSUME NEW r \in Documents, NEW reads
  PROVE  Forensics(r.image, r.form, reads).score \in 0 .. FullScore
<1> DEFINE others ==
      ExifFlags(r.image)
      \cup (IF IdValid(r.form.doc_type, r.form.pan_number) THEN {} ELSE {"ID_CHECKSUM_FAIL"})
      \cup FieldFlags(run_ocr(r.image, r.form.doc_type, reads), r.form)
<1>1. IsFiniteSet(ExifFlags(r.image))
  BY FS_EmptySet, FS_Singleton, FS_Union DEF ExifFlags
<1>2. IsFiniteSet(FieldFlags(run_ocr(r.image, r.form.doc_type, reads), r.form))
  BY FS_EmptySet, FS_Singleton, FS_Union DEF FieldFlags
<1>3. IsFiniteSet(others)
  <2>1. IsFiniteSet(IF IdValid(r.form.doc_type, r.form.pan_number) THEN {}
                    ELSE {"ID_CHECKSUM_FAIL"})
    BY FS_EmptySet, FS_Singleton
  <2> QED
    BY <1>1, <1>2, <2>1, FS_Union
<1>4. Forensics(r.image, r.form, reads)
        = run_forensics(ela_score(r.image), 0, noise_inconsistency_score(r.image), others)
  BY Measured DEF Forensics
<1> HIDE DEF others
<1>5. run_forensics(ela_score(r.image), 0, noise_inconsistency_score(r.image), others).score
        \in 0 .. FullScore
  BY <1>3, Measured, ScoreIsBounded, Zenon
<1> QED
  BY <1>4, <1>5, Zenon

-----------------------------------------------------------------------------
(* The models in memory.                                                   *)

\* What TypeOK says of the models and of the reply.
ModelsOK ==
  /\ files \subseteq Files
  /\ up \in BOOLEAN
  /\ ocr \in {"none", "start", "request"}
  /\ app \in {"unset", "loaded", "failed"}
  /\ fas \subseteq files \cap Networks
  /\ network \in {"unset", "random", "trained"}

ReplyOK(a) ==
  /\ IsDocument(a) => /\ a.request \in Documents
                      /\ a.result.score \in 0 .. FullScore
  /\ IsBiometric(a) => a.request \in Selfies

LEMMA TypeParts == /\ TypeOK <=> ModelsOK /\ ReplyOK(reply)
                   /\ TypeOK' <=> ModelsOK' /\ ReplyOK(reply')
  BY Zenon DEF TypeOK, ModelsOK, ReplyOK, IsDocument, IsBiometric

LEMMA DocumentReply ==
  ASSUME NEW r \in Documents, NEW reads
  PROVE  ReplyOK([of |-> "document", request |-> r,
                  result |-> Forensics(r.image, r.form, reads)])
<1> DEFINE score == Forensics(r.image, r.form, reads)
           a == [of |-> "document", request |-> r, result |-> score]
<1>1. score.score \in 0 .. FullScore
  BY ForensicsScore, Zenon
<1> HIDE DEF score
<1>2. a.of = "document" /\ a.request = r /\ a.result = score
  OBVIOUS
<1> HIDE DEF a
<1>3. a.result.score \in 0 .. FullScore
  BY <1>1, <1>2, Zenon
<1>4. ~IsBiometric(a)
  BY <1>2 DEF IsBiometric
<1>5. ReplyOK(a)
  BY <1>2, <1>3, <1>4, Zenon DEF ReplyOK
<1> QED
  BY <1>5 DEF a, score

LEMMA TypeNext == TypeOK /\ [Next]_vars => TypeOK'
<1> SUFFICES ASSUME ModelsOK, ReplyOK(reply), [Next]_vars PROVE ModelsOK' /\ ReplyOK(reply')
  BY TypeParts, Zenon
<1>1. ModelsOK'
  BY DEF Next, vars, models, Download, Start, Stop, AnalyseDocument, DocumentFails,
         AnalyseBiometric, BiometricFails, FaceApps, FasNetworks, DeepfakeNetworks,
         ModelsOK, Files
<1>2. ReplyOK(reply')
  <2>1. CASE reply' = reply
    BY <2>1, Zenon
  <2>2. ASSUME NEW r \in Documents, AnalyseDocument(r) PROVE ReplyOK(reply')
    BY <2>2, DocumentReply, Zenon DEF AnalyseDocument
  <2>3. CASE reply' = Nothing
    BY <2>3 DEF ReplyOK, IsDocument, IsBiometric
  <2>4. ASSUME NEW m \in Selfies, AnalyseBiometric(m) PROVE ReplyOK(reply')
    <3>1. reply'.of = "biometric" /\ reply'.request = m
      BY <2>4 DEF AnalyseBiometric
    <3>2. ~IsDocument(reply')
      BY <3>1 DEF IsDocument
    <3> QED
      BY <3>1, <3>2, Zenon DEF ReplyOK
  <2>5. (UNCHANGED vars \/ Start \/ Stop \/ \E f \in Files : Download(f)) => reply' = reply
    BY DEF vars, Start, Stop, Download
  <2>6. /\ \A r \in Documents : DocumentFails(r) => reply' = Nothing
        /\ \A m \in Selfies : BiometricFails(m) => reply' = Nothing
    BY DEF DocumentFails, BiometricFails
  <2> QED
    BY <2>1, <2>2, <2>3, <2>4, <2>5, <2>6, Zenon DEF Next
<1> QED
  BY <1>1, <1>2

\* Every reachable state is well typed: a score is at most 100, and a network in memory
\* came from a file (main.py, routes.py, run_forensics, _load_fas).
THEOREM MLTypeCorrect == Spec => []TypeOK
<1>1. Init => TypeOK
  <2>1. Init => ModelsOK
    BY DEF Init, ModelsOK
  <2>2. Init => ReplyOK(reply)
    BY Zenon DEF Init, ReplyOK, IsDocument, IsBiometric
  <2> QED
    BY <2>1, <2>2, TypeParts, Zenon
<1> QED
  BY <1>1, TypeNext, PTL DEF Spec

-----------------------------------------------------------------------------
(* What a biometric reply says.                                            *)

\* A reply to a biometric request is made of the models it used.
Answer(a) ==
  \E m \in Selfies, measures \in BOOLEAN, answering \in SUBSET Networks,
    net \in {"unset", "random", "trained"}, guess \in {0, 100} :
      /\ a.request = m
      /\ a.result = Biometrics(m, measures, answering, net, guess)
      /\ a.network = net
Answers(a) == IsBiometric(a) => Answer(a)

LEMMA AnswersNext == ModelsOK /\ Answers(reply) /\ [Next]_vars => Answers(reply')
<1> SUFFICES ASSUME ModelsOK, Answers(reply), [Next]_vars PROVE Answers(reply')
  OBVIOUS
<1>1. CASE reply' = reply
  BY <1>1, Zenon
<1>2. ASSUME NEW r \in Documents, AnalyseDocument(r) PROVE Answers(reply')
  <2>1. reply'.of = "document"
    BY <1>2 DEF AnalyseDocument
  <2> QED
    BY <2>1 DEF Answers, IsBiometric
<1>3. CASE reply' = Nothing
  BY <1>3 DEF Answers, IsBiometric
<1>4. ASSUME NEW m \in Selfies, AnalyseBiometric(m) PROVE Answers(reply')
  <2>1. PICK measures \in {FALSE, app' = "loaded"}, answering \in SUBSET fas',
             guess \in IF network' = "random" THEN {0, 100} ELSE {0} :
          reply' = [of |-> "biometric", request |-> m,
                    result |-> Biometrics(m, measures, answering, network', guess),
                    network |-> network']
    BY <1>4 DEF AnalyseBiometric
  <2>2. measures \in BOOLEAN /\ guess \in {0, 100}
    BY <2>1
  <2>3. network' \in {"unset", "random", "trained"} /\ answering \in SUBSET Networks
    BY <1>4, <2>1 DEF AnalyseBiometric, FasNetworks, DeepfakeNetworks, ModelsOK
  <2>4. /\ reply'.request = m
        /\ reply'.result = Biometrics(m, measures, answering, network', guess)
        /\ reply'.network = network'
    BY <2>1, Zenon
  <2>5. Answer(reply')
    <3> SUFFICES \E net \in {"unset", "random", "trained"} :
                   /\ reply'.request = m
                   /\ reply'.result = Biometrics(m, measures, answering, net, guess)
                   /\ reply'.network = net
      BY <2>2, <2>3 DEF Answer
    <3> USE <2>3
    <3> WITNESS network' \in {"unset", "random", "trained"}
    <3> QED
      BY <2>4, Zenon
  <2> QED
    BY <2>5 DEF Answers
<1>5. (UNCHANGED vars \/ Start \/ Stop \/ \E f \in Files : Download(f)) => reply' = reply
  BY DEF vars, Start, Stop, Download
<1>6. /\ \A r \in Documents : DocumentFails(r) => reply' = Nothing
      /\ \A m \in Selfies : BiometricFails(m) => reply' = Nothing
  BY DEF DocumentFails, BiometricFails
<1> QED
  BY <1>1, <1>2, <1>3, <1>4, <1>5, <1>6, Zenon DEF Next

LEMMA BiometricAnswers == Spec => [](IsBiometric(reply) => Answer(reply))
<1>1. Init => Answers(reply)
  BY Zenon DEF Init, Answers, IsBiometric
<1>2. TypeOK /\ Answers(reply) /\ [Next]_vars => Answers(reply)'
  BY AnswersNext, TypeParts, Zenon
<1>3. Answers(reply) => (IsBiometric(reply) => Answer(reply))
  BY DEF Answers
<1> QED
  BY <1>1, <1>2, <1>3, MLTypeCorrect, PTL DEF Spec

LEMMA StillFramesDoNotMove ==
  ASSUME NEW m \in Selfies, Still(m.frames)
  PROVE  ~LandmarksMove(m.frames)
<1> DEFINE frames == m.frames
           seen == {i \in DOMAIN frames : frames[i].opens /\ frames[i].face}
<1>1. ~Blink({frames[i].ear : i \in seen})
  <2> SUFFICES ASSUME NEW a \in {frames[i].ear : i \in seen}, NEW b \in {frames[i].ear : i \in seen},
                      a < 25, b > 25
               PROVE  FALSE
    BY DEF Blink
  <2>1. PICK i \in seen, j \in seen : a = frames[i].ear /\ b = frames[j].ear
    OBVIOUS
  <2>2. a = b /\ a \in Int
    BY <2>1, SelfiesAssumption DEF Still
  <2> QED
    BY <2>2
<1>2. ASSUME NEW i \in seen, NEW j \in seen PROVE ~ (frames[i].nose - frames[j].nose > 5)
  <2>1. frames[i].nose = frames[j].nose /\ frames[i].nose \in Int
    BY SelfiesAssumption DEF Still
  <2> QED
    BY <2>1
<1> QED
  BY <1>1, <1>2 DEF LandmarksMove

\* The greatest of some numbers from 1 to n is one of them.
LEMMA GreatestElement ==
  ASSUME NEW n \in Nat, NEW S \in SUBSET (1 .. n), S # {}
  PROVE  Max(S) \in S
<1> DEFINE above == {n - j : j \in S}
<1>1. above \in SUBSET Nat /\ above # {}
  OBVIOUS
<1>2. PICK k \in above : \A y \in above : k <= y
  BY <1>1, LeastElement
<1>3. PICK x \in S : k = n - x
  BY <1>2
<1>4. ASSUME NEW y \in S PROVE x >= y
  <2>1. n - y \in above
    OBVIOUS
  <2>2. n - x <= n - y
    BY <1>2, <1>3, <2>1
  <2> QED
    BY <2>2
<1> QED
  BY <1>3, <1>4, Zenon DEF Max

LEMMA StillPicturesDoNotMove ==
  ASSUME NEW m \in Selfies, Still(m.frames)
  PROVE  ~PictureMoves(m.frames)
<1> DEFINE frames == m.frames
           n == Len(frames)
           f == [i \in DOMAIN frames |-> Difference(frames, i)]
<1>1. n \in Nat /\ DOMAIN frames = 1 .. n
  BY SelfiesAssumption
<1>2. ASSUME NEW i \in 1 .. n PROVE Difference(frames, i) = 0
  <2> SUFFICES ASSUME i \in Compared(frames) PROVE Difference(frames, i) = 0
    BY DEF Difference
  <2> DEFINE j == Max(Readable(frames, i - 1))
  <2>1. Readable(frames, i - 1) \in SUBSET (1 .. i - 1) /\ Readable(frames, i - 1) # {}
    BY DEF Compared, Readable
  <2>2. i - 1 \in Nat /\ j \in Readable(frames, i - 1)
    BY <2>1, GreatestElement
  <2> HIDE DEF j
  <2>3. j \in DOMAIN frames /\ i \in DOMAIN frames
    BY <1>1, <2>1, <2>2
  <2>4. frames[i].grey = frames[j].grey /\ frames[i].grey \in Int
    BY <2>3, SelfiesAssumption DEF Still
  <2>5. Abs(frames[i].grey - frames[j].grey) = 0
    BY <2>4 DEF Abs
  <2> QED
    BY <2>5 DEF Difference, j
<1>3. f \in [1 .. n -> Nat] /\ \A i \in 1 .. n : f[i] <= 0
  BY <1>1, <1>2
<1>4. Cardinality(Compared(frames)) \in Nat
  <2>1. Compared(frames) \subseteq 1 .. n /\ IsFiniteSet(1 .. n)
    BY <1>1, FS_Interval DEF Compared
  <2> QED
    BY <2>1, FS_Subset, FS_CardinalityType
<1> HIDE DEF f
<1>5. Total(f, n) = 0
  <2>1. Total(f, n) \in Nat /\ Total(f, n) <= 0 * n
    BY <1>1, <1>3, TotalAtMost
  <2> QED
    BY <1>1, <2>1
<1>6. ~ (Total(f, n) > 15 * Cardinality(Compared(frames)))
  BY <1>4, <1>5
<1> QED
  BY <1>6 DEF PictureMoves, f

\* A video in which nothing moves does not pass the active challenge, with MediaPipe or
\* without (active_liveness_from_frames), whatever the eye, the head, the picture and
\* the networks measure.
THEOREM StillVideosFail == Spec => []StillVideoFails
<1>1. (IsBiometric(reply) => Answer(reply)) => StillVideoFails
  <2> SUFFICES ASSUME Answer(reply), reply.request.frames # <<>>, Still(reply.request.frames)
               PROVE  ~reply.result.liveness_combined
    BY DEF StillVideoFails
  <2>1. PICK m \in Selfies, measures \in BOOLEAN, answering \in SUBSET Networks,
             net \in {"unset", "random", "trained"}, guess \in {0, 100} :
          /\ reply.request = m
          /\ reply.result = Biometrics(m, measures, answering, net, guess)
    BY DEF Answer
  <2>2. ~Challenge(m.frames, Mediapipe)
    BY <2>1, StillFramesDoNotMove, StillPicturesDoNotMove DEF Challenge
  <2>3. reply.result.liveness_combined
          = (passive_liveness_score(m, answering).live /\ Challenge(m.frames, Mediapipe))
    BY <2>1 DEF Biometrics
  <2> QED
    BY <2>2, <2>3
<1> QED
  BY <1>1, BiometricAnswers, PTL

\* The frames that are sampled are frames of the video.
LEMMA SampledFrames ==
  ASSUME NEW m \in Selfies, NEW i \in 1 .. SampleSize(m.frames)
  PROVE  (i - 1) * Step(Len(m.frames)) + 1 \in DOMAIN m.frames
<1> DEFINE n == Len(m.frames)
           d == n \div 8
<1>1. n \in Nat /\ DOMAIN m.frames = 1 .. n
  BY SelfiesAssumption
<1> HIDE DEF n
<1>2. CASE n < 8
  BY <1>1, <1>2 DEF SampleSize, Step, n
<1>3. CASE ~ (n < 8)
  <2>1. i \in 1 .. 8 /\ Step(n) = d
    BY <1>3 DEF SampleSize, Step, n
  <2>2. d \in Nat /\ 8 * d <= n /\ n >= 8
    BY <1>1, <1>3
  <2> HIDE DEF d
  <2>3. i = 1 \/ i = 2 \/ i = 3 \/ i = 4 \/ i = 5 \/ i = 6 \/ i = 7 \/ i = 8
    BY <2>1
  <2>4. (i - 1) * d + 1 \in 1 .. n
    BY <1>1, <2>2, <2>3
  <2> QED
    BY <1>1, <2>1, <2>4 DEF n
<1> QED
  BY <1>2, <1>3

\* A mean of values that do not exceed b does not.
LEMMA Mean ==
  ASSUME NEW a \in Nat, NEW w \in Nat \ {0}, NEW b \in Nat, a <= b * w
  PROVE  a \div w \in Nat /\ a \div w <= b
<1> DEFINE q == a \div w
<1>1. q \in Nat /\ w * q <= a
  OBVIOUS
<1> HIDE DEF q
<1>2. ASSUME q > b PROVE FALSE
  <2>1. PICK d \in Nat : q = b + 1 + d
    <3> q - b - 1 \in Nat
      BY <1>1, <1>2
    <3> QED
      BY <1>1
  <2>2. w * q = b * w + w + w * d /\ w * d \in Nat
    BY <2>1
  <2> QED
    BY <1>1, <2>2
<1>3. q <= b
  BY <1>1, <1>2
<1> QED
  BY <1>1, <1>3 DEF q

\* The weights of the mean sum to one and so do those of network and texture.
LEMMA NetworkScoreBounded ==
  ASSUME NEW m \in Selfies, NEW net, NEW guess, net # "random",
         m.gan <= 55, m.fake <= 55, \A i \in DOMAIN m.frames : m.frames[i].fake <= 55
  PROVE  /\ NetworkScore(m, net, guess) \in Int
         /\ NetworkScore(m, net, guess) <= DeepfakeThreshold
<1> DEFINE frames == Sampled(m.frames)
           count == SampleSize(m.frames)
           f == [i \in 1 .. count |-> Predicted(frames[i], net, guess)]
           total == 2 * Predicted(m, net, guess) + Total(f, count)
           weight == Weights(count)
<1>1. count \in Nat
  BY SelfiesAssumption DEF SampleSize
<1>2. Predicted(m, net, guess) \in Nat /\ Predicted(m, net, guess) <= 55
  <2>1. m.fake \in 0 .. 100
    BY SelfiesAssumption
  <2> QED
    BY <2>1 DEF Predicted
<1>3. ASSUME NEW i \in 1 .. count
      PROVE  /\ Predicted(frames[i], net, guess) \in Nat
             /\ Predicted(frames[i], net, guess) <= 55
  <2> DEFINE j == (i - 1) * Step(Len(m.frames)) + 1
  <2>1. j \in DOMAIN m.frames
    BY SampledFrames
  <2>2. frames[i] = m.frames[j]
    BY DEF Sampled
  <2> HIDE DEF j, frames
  <2>3. m.frames[j].fake \in 0 .. 100 /\ m.frames[j].fake <= 55
    BY <2>1, SelfiesAssumption
  <2> QED
    BY <2>2, <2>3 DEF Predicted
<1>4. f \in [1 .. count -> Nat] /\ \A i \in 1 .. count : f[i] <= 55
  BY <1>3
<1> HIDE DEF f, count
<1>5. Total(f, count) \in Nat /\ Total(f, count) <= 55 * count
  BY <1>1, <1>4, TotalAtMost
<1>6. total \in Nat /\ total <= 55 * (count + 2)
  BY <1>1, <1>2, <1>5
<1>7. weight \in Nat \ {0} /\ weight = count + 2
  BY <1>1 DEF Weights
<1>8. NetworkScore(m, net, guess) = (85 * total) \div weight + 15 * m.gan
  BY DEF NetworkScore, f, count
<1> HIDE DEF total, weight
<1>9. 85 * total \in Nat /\ 85 * total <= 4675 * weight
  BY <1>6, <1>7
<1>10. (85 * total) \div weight \in Nat /\ (85 * total) \div weight <= 4675
  BY <1>7, <1>9, Mean
<1>11. m.gan \in Nat /\ 15 * m.gan <= 825
  <2>1. m.gan \in 0 .. 100
    BY SelfiesAssumption
  <2> QED
    BY <2>1
<1> QED
  BY <1>8, <1>10, <1>11 DEF DeepfakeThreshold

\* A selfie and a video in which neither the trained network nor the texture check sees
\* more than the threshold are not called a deepfake, for videos of any length
\* (run_deepfake_detection).
THEOREM RealFramesAreReal == Spec => []NoFakeFromRealFrames
<1>1. (IsBiometric(reply) => Answer(reply)) => NoFakeFromRealFrames
  <2> SUFFICES ASSUME Answer(reply), reply.network # "random",
                      reply.request.gan <= 55, reply.request.fake <= 55,
                      \A i \in DOMAIN reply.request.frames : reply.request.frames[i].fake <= 55
               PROVE  ~reply.result.is_deepfake
    BY DEF NoFakeFromRealFrames
  <2>1. PICK m \in Selfies, measures \in BOOLEAN, answering \in SUBSET Networks,
             net \in {"unset", "random", "trained"}, guess \in {0, 100} :
          /\ reply.request = m
          /\ reply.result = Biometrics(m, measures, answering, net, guess)
          /\ reply.network = net
    BY DEF Answer
  <2>2. reply.result.is_deepfake = (DeepfakeProbability(m, net, guess) > DeepfakeThreshold)
    BY <2>1 DEF Biometrics
  <2>3. net # "random"
    BY <2>1
  <2>4. DeepfakeProbability(m, net, guess) \in Int
        /\ DeepfakeProbability(m, net, guess) <= DeepfakeThreshold
    <3>1. CASE net = "unset"
      <4>1. m.gan \in 0 .. 100 /\ m.gan <= 55
        BY <2>1, SelfiesAssumption
      <4> QED
        BY <3>1, <4>1 DEF DeepfakeProbability, DeepfakeThreshold
    <3>2. CASE net # "unset"
      <4>1. NetworkScore(m, net, guess) \in Int /\ NetworkScore(m, net, guess) <= DeepfakeThreshold
        BY <2>1, <2>3, NetworkScoreBounded
      <4> QED
        BY <3>2, <4>1 DEF DeepfakeProbability
    <3> QED
      BY <3>1, <3>2
  <2>5. ~ (DeepfakeProbability(m, net, guess) > DeepfakeThreshold)
    BY <2>4 DEF DeepfakeThreshold
  <2> QED
    BY <2>2, <2>5
<1> QED
  BY <1>1, BiometricAnswers, PTL

-----------------------------------------------------------------------------
(* What a document reply says.                                             *)

\* A reply to a document request is the forensics of the image and the form in it.
Examined(a) ==
  \E r \in Documents : \E reads :
    a.request = r /\ a.result = Forensics(r.image, r.form, reads)
Examines(a) == IsDocument(a) => Examined(a)

LEMMA ExaminesNext == Examines(reply) /\ [Next]_vars => Examines(reply')
<1> SUFFICES ASSUME Examines(reply), [Next]_vars PROVE Examines(reply')
  OBVIOUS
<1>1. CASE reply' = reply
  BY <1>1, Zenon
<1>2. ASSUME NEW r \in Documents, AnalyseDocument(r) PROVE Examines(reply')
  <2>1. PICK reads \in {FALSE, "OpenCV" \in r.image.opens} :
          reply' = [of |-> "document", request |-> r,
                    result |-> Forensics(r.image, r.form, reads)]
    BY <1>2 DEF AnalyseDocument
  <2>2. reply'.request = r /\ reply'.result = Forensics(r.image, r.form, reads)
    BY <2>1, Zenon
  <2> QED
    BY <2>2, Zenon DEF Examines, Examined
<1>3. CASE reply' = Nothing
  BY <1>3 DEF Examines, IsDocument
<1>4. ASSUME NEW m \in Selfies, AnalyseBiometric(m) PROVE Examines(reply')
  <2>1. reply'.of = "biometric"
    BY <1>4 DEF AnalyseBiometric
  <2> QED
    BY <2>1 DEF Examines, IsDocument
<1>5. (UNCHANGED vars \/ Start \/ Stop \/ \E f \in Files : Download(f)) => reply' = reply
  BY DEF vars, Start, Stop, Download
<1>6. /\ \A r \in Documents : DocumentFails(r) => reply' = Nothing
      /\ \A m \in Selfies : BiometricFails(m) => reply' = Nothing
  BY DEF DocumentFails, BiometricFails
<1> QED
  BY <1>1, <1>2, <1>3, <1>4, <1>5, <1>6, Zenon DEF Next

LEMMA DocumentsExamined == Spec => []Examines(reply)
<1>1. Init => Examines(reply)
  BY Zenon DEF Init, Examines, IsDocument
<1>2. Examines(reply) /\ [Next]_vars => Examines(reply)'
  BY ExaminesNext, Zenon
<1> QED
  BY <1>1, <1>2, PTL DEF Spec

LEMMA QuotientMonotone ==
  ASSUME NEW a \in Nat, NEW b \in Nat, NEW d \in Nat \ {0}, a <= b
  PROVE  a \div d <= b \div d
  OBVIOUS

LEMMA SmallerMonotone ==
  ASSUME NEW m \in Nat, NEW a \in Nat, NEW b \in Nat, a <= b
  PROVE  Smaller(m, a) <= Smaller(m, b)
  BY DEF Smaller

\* Larger differences to the recompressed image are a larger error level.
LEMMA ElaMonotone ==
  ASSUME NEW p \in Documents, NEW q \in Documents, WorseImage(p.image, q.image)
  PROVE  ela_score(q.image) <= ela_score(p.image)
<1> DEFINE m(r) == r.image.mean_diff
           x(r) == r.image.max_diff
           ratio(r) == (100 * m(r)) \div 15 + (100 * x(r)) \div 255
<1>1. m(p) \in Nat /\ m(q) \in Nat /\ x(p) \in Nat /\ x(q) \in Nat
  BY DocumentsAssumption
<1>2. m(q) <= m(p) /\ x(q) <= x(p)
  BY <1>1 DEF WorseImage
<1> HIDE DEF m, x
<1>3. 100 * m(q) <= 100 * m(p) /\ 100 * x(q) <= 100 * x(p)
  BY <1>1, <1>2
<1>4. /\ 100 * m(q) \in Nat /\ 100 * m(p) \in Nat
      /\ 100 * x(q) \in Nat /\ 100 * x(p) \in Nat
  BY <1>1
<1>5. /\ (100 * m(q)) \div 15 <= (100 * m(p)) \div 15
      /\ (100 * m(q)) \div 15 \in Nat /\ (100 * m(p)) \div 15 \in Nat
  BY <1>3, <1>4, QuotientMonotone, Quotient
<1>6. /\ (100 * x(q)) \div 255 <= (100 * x(p)) \div 255
      /\ (100 * x(q)) \div 255 \in Nat /\ (100 * x(p)) \div 255 \in Nat
  BY <1>3, <1>4, QuotientMonotone, Quotient
<1>7. ratio(q) <= ratio(p) /\ ratio(q) \in Nat /\ ratio(p) \in Nat
  BY <1>5, <1>6
<1> HIDE DEF ratio
<1>8. /\ ratio(q) \div 2 <= ratio(p) \div 2
      /\ ratio(q) \div 2 \in Nat /\ ratio(p) \div 2 \in Nat
  BY <1>7, QuotientMonotone, Quotient
<1>9. Smaller(100, ratio(q) \div 2) <= Smaller(100, ratio(p) \div 2)
  BY <1>8, SmallerMonotone
<1> QED
  BY <1>9 DEF ela_score, ratio, m, x

LEMMA NoiseMonotone ==
  ASSUME NEW p \in Documents, NEW q \in Documents, WorseImage(p.image, q.image)
  PROVE  noise_inconsistency_score(q.image) <= noise_inconsistency_score(p.image)
<1>1. /\ p.image.deviation \in Nat /\ q.image.deviation \in Nat
      /\ p.image.blocks \in Nat /\ q.image.blocks \in Nat
  BY DocumentsAssumption
<1>2. /\ q.image.deviation <= p.image.deviation /\ q.image.blocks <= p.image.blocks
      /\ p.image.opens = q.image.opens
  BY <1>1 DEF WorseImage
<1> DEFINE v == q.image.deviation \div 2
           w == p.image.deviation \div 2
<1>3. v \in Nat /\ w \in Nat /\ v <= w
  BY <1>1, <1>2, QuotientMonotone, Quotient
<1> HIDE DEF v, w
<1>4. Smaller(100, v) <= Smaller(100, w) /\ 0 <= Smaller(100, w)
  BY <1>3, SmallerMonotone, SmallerNat
<1> QED
  BY <1>1, <1>2, <1>4 DEF noise_inconsistency_score, v, w

\* The conditions of a document that are not measured.
Conditions(r, reads) ==
  ExifFlags(r.image)
  \cup (IF IdValid(r.form.doc_type, r.form.pan_number) THEN {} ELSE {"ID_CHECKSUM_FAIL"})
  \cup FieldFlags(run_ocr(r.image, r.form.doc_type, reads), r.form)

\* What a document with these measurements and conditions is charged.
Raised(e, n, others) ==
  others \cup (IF e > 60 THEN {"ELA_ANOMALY"} ELSE {})
         \cup (IF n > 50 THEN {"NOISE_INCONSISTENCY"} ELSE {})

Charged(e, n, raised) ==
  AtLeastZero(FullScore - (315 * e + 245 * 0 + 140 * n) \div 10 - 500 * Cardinality(raised))

LEMMA ForensicsParts ==
  ASSUME NEW r \in Documents, NEW reads, NEW e, NEW n,
         e = ela_score(r.image), n = noise_inconsistency_score(r.image)
  PROVE  /\ Forensics(r.image, r.form, reads).flags = Raised(e, n, Conditions(r, reads))
         /\ Forensics(r.image, r.form, reads).score
              = Charged(e, n, Raised(e, n, Conditions(r, reads)))
<1> DEFINE others == Conditions(r, reads)
<1>1. Forensics(r.image, r.form, reads) = run_forensics(e, 0, n, others)
  BY Measured DEF Forensics, Conditions
<1> HIDE DEF others
<1>2. /\ run_forensics(e, 0, n, others).flags = Raised(e, n, others)
      /\ run_forensics(e, 0, n, others).score = Charged(e, n, Raised(e, n, others))
  <2> DEFINE flags == others
                        \cup (IF e > 60 THEN {"ELA_ANOMALY"} ELSE {})
                        \cup (IF 0 > 40 THEN {"COPY_MOVE_DETECTED"} ELSE {})
                        \cup (IF n > 50 THEN {"NOISE_INCONSISTENCY"} ELSE {})
  <2>1. flags = Raised(e, n, others)
    BY DEF Raised
  <2> HIDE DEF flags
  <2>2. /\ run_forensics(e, 0, n, others).flags = flags
        /\ run_forensics(e, 0, n, others).score = Charged(e, n, flags)
    BY Zenon DEF run_forensics, flags, Charged
  <2> QED
    BY <2>1, <2>2, Zenon
<1> QED
  BY <1>1, <1>2 DEF others

LEMMA MoreTakenScoresLower ==
  ASSUME NEW top \in Nat, NEW s \in Nat, NEW t \in Nat, s <= t, NEW k \in Nat,
         NEW b \in Nat, NEW c \in Nat, b <= c
  PROVE  AtLeastZero(top - t - k * c) <= AtLeastZero(top - s - k * b)
<1>1. k * b <= k * c /\ k * b \in Nat /\ k * c \in Nat
  <2>1. PICK d \in Nat : c = b + d
    OBVIOUS
  <2> QED
    BY <2>1
<1> DEFINE x == k * b
           y == k * c
<1> HIDE DEF x, y
<1>2. AtLeastZero(top - t - y) <= AtLeastZero(top - s - x)
  BY <1>1 DEF AtLeastZero, x, y
<1> QED
  BY <1>2 DEF x, y

\* The measurements raise flags of their own kinds: what the form disagrees with shows.
LEMMA MismatchesShow ==
  ASSUME NEW r \in Documents, NEW reads, NEW e, NEW n
  PROVE  Raised(e, n, Conditions(r, reads))
           \cap {"FIELD_MISMATCH:name", "FIELD_MISMATCH:dob"}
           = FieldFlags(run_ocr(r.image, r.form.doc_type, reads), r.form)
  BY DEF Raised, Conditions, ExifFlags, FieldFlags

\* A worse image with the same form, read no better, meets no fewer conditions.
LEMMA WorseConditions ==
  ASSUME NEW p \in Documents, NEW q \in Documents, NEW x, NEW y,
         WorseImage(p.image, q.image), p.form = q.form,
         FieldFlags(run_ocr(q.image, q.form.doc_type, y), q.form)
           \subseteq FieldFlags(run_ocr(p.image, p.form.doc_type, x), p.form)
  PROVE  Conditions(q, y) \subseteq Conditions(p, x)
<1>1. ExifFlags(q.image) \subseteq ExifFlags(p.image)
  BY DEF ExifFlags, WorseImage
<1> QED
  BY <1>1 DEF Conditions

LEMMA RaisedMonotone ==
  ASSUME NEW d \in Nat, NEW e \in Nat, NEW m \in Nat, NEW n \in Nat, d <= e, m <= n,
         NEW S, NEW T, S \subseteq T
  PROVE  Raised(d, m, S) \subseteq Raised(e, n, T)
  BY DEF Raised

LEMMA RaisedIsFinite ==
  ASSUME NEW r \in Documents, NEW reads, NEW e, NEW n
  PROVE  IsFiniteSet(Raised(e, n, Conditions(r, reads)))
<1>1. IsFiniteSet(ExifFlags(r.image))
  BY FS_EmptySet, FS_Singleton, FS_Union DEF ExifFlags
<1>2. IsFiniteSet(FieldFlags(run_ocr(r.image, r.form.doc_type, reads), r.form))
  BY FS_EmptySet, FS_Singleton, FS_Union DEF FieldFlags
<1>3. IsFiniteSet(IF IdValid(r.form.doc_type, r.form.pan_number) THEN {}
                  ELSE {"ID_CHECKSUM_FAIL"})
  BY FS_EmptySet, FS_Singleton
<1>4. IsFiniteSet(Conditions(r, reads))
  BY <1>1, <1>2, <1>3, FS_Union DEF Conditions
<1>5. /\ IsFiniteSet(IF e > 60 THEN {"ELA_ANOMALY"} ELSE {})
      /\ IsFiniteSet(IF n > 50 THEN {"NOISE_INCONSISTENCY"} ELSE {})
  BY FS_EmptySet, FS_Singleton
<1> QED
  BY <1>4, <1>5, FS_Union DEF Raised

LEMMA WorseScoresNoHigher ==
  ASSUME NEW p \in Documents, NEW q \in Documents, NEW x, NEW y,
         WorseImage(p.image, q.image), p.form = q.form,
         Forensics(q.image, q.form, y).flags \cap {"FIELD_MISMATCH:name", "FIELD_MISMATCH:dob"}
           \subseteq Forensics(p.image, p.form, x).flags
  PROVE  Forensics(p.image, p.form, x).score <= Forensics(q.image, q.form, y).score
<1> DEFINE d == ela_score(q.image)
           e == ela_score(p.image)
           m == noise_inconsistency_score(q.image)
           n == noise_inconsistency_score(p.image)
           S == Conditions(q, y)
           T == Conditions(p, x)
<1>1. d \in Nat /\ e \in Nat /\ m \in Nat /\ n \in Nat
  BY Measured
<1>2. d <= e /\ m <= n
  BY ElaMonotone, NoiseMonotone
<1>3. S \subseteq T
  <2>1. /\ Forensics(q.image, q.form, y).flags = Raised(d, m, S)
        /\ Forensics(p.image, p.form, x).flags = Raised(e, n, T)
    BY ForensicsParts
  <2>2. FieldFlags(run_ocr(q.image, q.form.doc_type, y), q.form)
          \subseteq Raised(e, n, T) \cap {"FIELD_MISMATCH:name", "FIELD_MISMATCH:dob"}
    BY <2>1, MismatchesShow
  <2>3. Raised(e, n, T) \cap {"FIELD_MISMATCH:name", "FIELD_MISMATCH:dob"}
          = FieldFlags(run_ocr(p.image, p.form.doc_type, x), p.form)
    BY MismatchesShow
  <2> QED
    BY <2>2, <2>3, WorseConditions
<1>4. IsFiniteSet(Raised(d, m, S)) /\ IsFiniteSet(Raised(e, n, T))
  BY RaisedIsFinite
<1>5. /\ Forensics(q.image, q.form, y).score = Charged(d, m, Raised(d, m, S))
      /\ Forensics(p.image, p.form, x).score = Charged(e, n, Raised(e, n, T))
  BY ForensicsParts
<1> HIDE DEF d, e, m, n, S, T
<1>6. Raised(d, m, S) \subseteq Raised(e, n, T)
  BY <1>1, <1>2, <1>3, RaisedMonotone
<1> DEFINE b == Cardinality(Raised(d, m, S))
           c == Cardinality(Raised(e, n, T))
           s == (315 * d + 245 * 0 + 140 * m) \div 10
           t == (315 * e + 245 * 0 + 140 * n) \div 10
<1>7. b \in Nat /\ c \in Nat /\ b <= c
  BY <1>4, <1>6, FS_CardinalityType, FS_Subset
<1>8. s \in Nat /\ t \in Nat /\ s <= t
  <2>1. /\ 315 * d + 245 * 0 + 140 * m \in Nat
        /\ 315 * e + 245 * 0 + 140 * n \in Nat
        /\ 315 * d + 245 * 0 + 140 * m <= 315 * e + 245 * 0 + 140 * n
    BY <1>1, <1>2
  <2> QED
    BY <2>1, Quotient, QuotientMonotone
<1> HIDE DEF b, c, s, t
<1> DEFINE fee == 500
<1>9. FullScore \in Nat /\ fee \in Nat
  BY DEF FullScore
<1>10. /\ Charged(d, m, Raised(d, m, S)) = AtLeastZero(FullScore - s - fee * b)
       /\ Charged(e, n, Raised(e, n, T)) = AtLeastZero(FullScore - t - fee * c)
  BY Zenon DEF Charged, b, c, s, t
<1> HIDE DEF fee
<1>11. AtLeastZero(FullScore - t - fee * c) <= AtLeastZero(FullScore - s - fee * b)
  BY <1>7, <1>8, <1>9, MoreTakenScoresLower
<1> HIDE DEF Charged
<1> QED
  BY <1>5, <1>10, <1>11, Zenon

\* A document with larger measurements and more conditions does not score higher than
\* the one asked about before it with the same form (run_forensics).
THEOREM WorseImagesScoreNoHigher == Spec => WorseImageNeverScoresHigher
<1>1. Examines(reply) /\ Examines(reply)' =>
        [/\ IsDocument(reply) /\ IsDocument(reply')
         /\ WorseImage(reply'.request.image, reply.request.image)
         /\ reply'.request.form = reply.request.form
         /\ FieldMismatches(reply) \subseteq FieldMismatches(reply')
         => reply'.result.score <= reply.result.score]_vars
  <2> SUFFICES ASSUME Examined(reply), Examined(reply'),
                      WorseImage(reply'.request.image, reply.request.image),
                      reply'.request.form = reply.request.form,
                      FieldMismatches(reply) \subseteq FieldMismatches(reply')
               PROVE  reply'.result.score <= reply.result.score
    BY DEF Examines
  <2>1. PICK q \in Documents : \E y :
          reply.request = q /\ reply.result = Forensics(q.image, q.form, y)
    BY DEF Examined
  <2>2. PICK p \in Documents : \E x :
          reply'.request = p /\ reply'.result = Forensics(p.image, p.form, x)
    BY DEF Examined
  <2> PICK y : reply.request = q /\ reply.result = Forensics(q.image, q.form, y)
    BY <2>1
  <2> PICK x : reply'.request = p /\ reply'.result = Forensics(p.image, p.form, x)
    BY <2>2
  <2>3. WorseImage(p.image, q.image) /\ p.form = q.form
    OBVIOUS
  <2>4. Forensics(q.image, q.form, y).flags \cap {"FIELD_MISMATCH:name", "FIELD_MISMATCH:dob"}
           \subseteq Forensics(p.image, p.form, x).flags
    BY DEF FieldMismatches
  <2>5. Forensics(p.image, p.form, x).score <= Forensics(q.image, q.form, y).score
    BY <2>3, <2>4, WorseScoresNoHigher
  <2> QED
    BY <2>5
<1> QED
  BY <1>1, DocumentsExamined, PTL DEF WorseImageNeverScoresHigher

\* No reply says that a region was copied: run_forensics raises the flag on the score of
\* copy_move_score, whose matches are always with themselves.
THEOREM NoCopyIsReported ==
  Spec => [](IsDocument(reply) => "COPY_MOVE_DETECTED" \notin reply.result.flags)
<1>1. Examines(reply) =>
        (IsDocument(reply) => "COPY_MOVE_DETECTED" \notin reply.result.flags)
  <2> SUFFICES ASSUME Examined(reply) PROVE "COPY_MOVE_DETECTED" \notin reply.result.flags
    BY DEF Examines
  <2>1. PICK r \in Documents : \E reads :
          reply.request = r /\ reply.result = Forensics(r.image, r.form, reads)
    BY DEF Examined
  <2> PICK reads : reply.request = r /\ reply.result = Forensics(r.image, r.form, reads)
    BY <2>1
  <2>2. "COPY_MOVE_DETECTED" \notin Conditions(r, reads)
    BY DEF Conditions, ExifFlags, FieldFlags
  <2>3. reply.result.flags
          = Raised(ela_score(r.image), noise_inconsistency_score(r.image), Conditions(r, reads))
    BY ForensicsParts
  <2> QED
    BY <2>2, <2>3 DEF Raised
<1> QED
  BY <1>1, DocumentsExamined, PTL

-----------------------------------------------------------------------------
(* The id number.                                                          *)

LEMMA AadhaarDigits ==
  ASSUME NEW p \in Seq(Nat), validate_aadhaar(p)
  PROVE  p \in [1 .. 12 -> Digits] /\ Len(p) = 12 /\ verhoeff_validate(p)
<1>1. Len(p) = 12 /\ verhoeff_validate(p) /\ \A i \in 1 .. 12 : p[i] < 10
  BY DEF validate_aadhaar
<1>2. p \in [1 .. Len(p) -> Nat]
  OBVIOUS
<1>3. p \in [1 .. 12 -> Nat]
  BY <1>1, <1>2, Zenon
<1>4. \A i \in 1 .. 12 : p[i] \in Digits
  <2>1. \A k \in Nat : k < 10 => k \in Digits
    BY DEF Digits
  <2> QED
    BY <1>1, <1>3, <2>1, Zenon
<1>5. p = [i \in 1 .. 12 |-> p[i]]
  BY <1>3
<1>6. p \in [1 .. 12 -> Digits]
  BY <1>4, <1>5, Zenon
<1> QED
  BY <1>1, <1>6

LEMMA SameDigits ==
  \A p, q \in [1 .. 12 -> Digits] : (\A j \in 1 .. 12 : p[j] = q[j]) => p = q
  OBVIOUS

\* No slip of one digit, and no two neighbours that changed places, leave a valid
\* number valid.
LEMMA NoTypoIsValid ==
  ASSUME NEW p \in Seq(Nat), NEW q \in Seq(Nat), validate_aadhaar(p), validate_aadhaar(q),
         q \in Typos(p)
  PROVE  q = p
<1> SUFFICES ASSUME q # p PROVE FALSE
  OBVIOUS
<1>1. /\ p \in [1 .. 12 -> Digits] /\ Len(p) = 12 /\ verhoeff_validate(p)
      /\ q \in [1 .. 12 -> Digits] /\ Len(q) = 12 /\ verhoeff_validate(q)
  BY AadhaarDigits
<1>2. ASSUME NEW i \in DOMAIN p, NEW d \in 0 .. 9, q = [p EXCEPT ![i] = d] PROVE FALSE
  <2>1. i \in 1 .. 12 /\ \A j \in (1 .. 12) \ {i} : p[j] = q[j]
    BY <1>1, <1>2
  <2>2. p[i] # q[i]
    <3> SUFFICES ASSUME p[i] = q[i] PROVE FALSE
      OBVIOUS
    <3>1. \A j \in 1 .. 12 : p[j] = q[j]
      BY <2>1
    <3>2. p \in [1 .. 12 -> Digits] /\ q \in [1 .. 12 -> Digits]
      BY <1>1
    <3>3. p = q
      BY <3>1, <3>2, SameDigits
    <3> QED
      BY <3>3
  <2> QED
    BY <1>1, <2>1, <2>2, WrongDigitDetected
<1>3. ASSUME NEW i \in 1 .. Len(p) - 1, q = [p EXCEPT ![i] = p[i + 1], ![i + 1] = p[i]]
      PROVE  FALSE
  <2>1. i \in 1 .. 12 - 1 /\ i \in 1 .. 12 /\ i + 1 \in 1 .. 12 /\ i # i + 1
    BY <1>1
  <2>2. q[i] = p[i + 1] /\ q[i + 1] = p[i] /\ \A j \in (1 .. 12) \ {i, i + 1} : p[j] = q[j]
    BY <1>1, <1>3, <2>1
  <2>3. p[i] # p[i + 1]
    <3> SUFFICES ASSUME p[i] = p[i + 1] PROVE FALSE
      OBVIOUS
    <3>1. \A j \in 1 .. 12 : p[j] = q[j]
      BY <2>1, <2>2
    <3>2. p \in [1 .. 12 -> Digits] /\ q \in [1 .. 12 -> Digits]
      BY <1>1
    <3>3. p = q
      BY <3>1, <3>2, SameDigits
    <3> QED
      BY <3>3
  <2> QED
    BY <1>1, <2>1, <2>2, <2>3, SwappedDigitsDetected
<1>4. \/ \E i \in DOMAIN p, d \in 0 .. 9 : q = [p EXCEPT ![i] = d]
      \/ \E i \in 1 .. Len(p) - 1 : q = [p EXCEPT ![i] = p[i + 1], ![i + 1] = p[i]]
  <2>1. CASE q \in Swaps(p)
    BY <2>1 DEF Swaps
  <2>2. CASE \E i \in DOMAIN p : q \in Slips(p, i)
    BY <2>2 DEF Slips
  <2> QED
    BY <2>1, <2>2 DEF Typos
<1> QED
  BY <1>2, <1>3, <1>4

\* Whoever mistypes a digit of an Aadhaar number or swaps two is told so, for every
\* number and at every place (validate_aadhaar, run_forensics).
THEOREM TyposAreCaught == Spec => []TypoIsCaught
<1>1. Examines(reply) => TypoIsCaught
  <2> DEFINE form == reply.request.form
             meant == reply.request.image.number
  <2> SUFFICES ASSUME Examined(reply), form.doc_type = "AADHAAR", validate_aadhaar(meant),
                      form.pan_number # meant, form.pan_number \in Typos(meant)
               PROVE  "ID_CHECKSUM_FAIL" \in reply.result.flags
    BY DEF Examines, TypoIsCaught
  <2>1. PICK r \in Documents : \E reads :
          reply.request = r /\ reply.result = Forensics(r.image, r.form, reads)
    BY DEF Examined
  <2> PICK reads : reply.request = r /\ reply.result = Forensics(r.image, r.form, reads)
    BY <2>1
  <2>2. meant \in Seq(Nat) /\ form.pan_number \in Seq(Nat)
    BY DocumentsAssumption
  <2>3. ~ validate_aadhaar(form.pan_number)
    BY <2>2, NoTypoIsValid
  <2>4. "ID_CHECKSUM_FAIL" \in Conditions(r, reads)
    BY <2>3 DEF Conditions, IdValid
  <2>5. reply.result.flags
          = Raised(ela_score(r.image), noise_inconsistency_score(r.image), Conditions(r, reads))
    BY ForensicsParts
  <2> QED
    BY <2>4, <2>5 DEF Raised
<1> QED
  BY <1>1, DocumentsExamined, PTL
=============================================================================
