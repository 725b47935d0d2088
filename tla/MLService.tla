------------------------------ MODULE MLService ------------------------------
(***************************************************************************)
(* The ML service: a single process that keeps its models in memory        *)
(* (ml-service/main.py and the loaders of ml-service/models/*.py) and      *)
(* answers the two analysis requests of the workers (api/routes.py).       *)
(*                                                                         *)
(* The handlers never await, so a request is answered in one step.  Models *)
(* are loaded at start or at first use; a load may fail.  Weight files can *)
(* arrive while the service runs.                                          *)
(***************************************************************************)
EXTENDS DocumentChecks, BiometricChecks

CONSTANTS
  Networks,    \* the networks of MiniFASNet, each with a weight file
  Documents,   \* document requests: [image, form]
  Selfies,     \* biometric requests: what is in their media
  Mediapipe,   \* whether MediaPipe is installed
  Nothing      \* no reply

Deepfake == "efficientnet_b4_deepfake"
Files == Networks \cup {Deepfake}

ASSUME NamesAssumption == Deepfake \notin Networks
ASSUME InstallationAssumption == Mediapipe \in BOOLEAN
ASSUME DocumentsAssumption ==
  \A r \in Documents : /\ r.image.mean_diff \in Nat /\ r.image.max_diff \in Nat
                       /\ r.image.deviation \in Nat /\ r.image.blocks \in Nat
                       /\ Len(r.image.keypoints) \in Nat
                       /\ DOMAIN r.image.keypoints = 1 .. Len(r.image.keypoints)
                       /\ r.image.number \in Seq(Nat) /\ r.form.pan_number \in Seq(Nat)
ASSUME SelfiesAssumption ==
  \A m \in Selfies : /\ Len(m.frames) \in Nat /\ DOMAIN m.frames = 1 .. Len(m.frames)
                     /\ \A i \in DOMAIN m.frames :
                          /\ m.frames[i].ear \in Int /\ m.frames[i].nose \in Int
                          /\ m.frames[i].grey \in Int /\ m.frames[i].fake \in 0 .. 100
                     /\ m.gan \in 0 .. 100 /\ m.fake \in 0 .. 100
                     /\ m.live \in [Networks -> 0 .. 100]

VARIABLES
  files,      \* the weight files on disk
  up,         \* whether the process serves requests
  ocr,        \* the call whose OCR engine lru_cache holds, if any
  app,        \* what lru_cache holds for the face model: its load may have failed
  fas,        \* _fas_models, the networks of MiniFASNet in memory
  network,    \* _deepfake_model: none, with the weights of its file, or with weights
              \* of which some or all are random
  reply       \* the last reply, with the request it answers

vars == <<files, up, ocr, app, fas, network, reply>>
models == <<ocr, app, fas, network>>

Init ==
  /\ files \in SUBSET Files
  /\ up = FALSE
  /\ ocr = "none"
  /\ app = "unset"
  /\ fas = {}
  /\ network = "unset"
  /\ reply = Nothing

\* scripts/download_models.sh
Download(f) ==
  /\ files' = files \cup {f}
  /\ UNCHANGED <<up, models, reply>>

\* _get_face_app: lru_cache keeps a failure as it keeps a model.
FaceApps(current) == IF current = "unset" THEN {"loaded", "failed"} ELSE {current}

\* _load_deepfake_model: without a weight file the network keeps the random weights it
\* was made with, and as strict=False leaves alone what a file does not name, a file
\* that does not fit leaves some of them random or all.  A failure is not kept.
DeepfakeNetworks(current) ==
  IF current # "unset" THEN {current}
  ELSE {"unset", "random"} \cup (IF Deepfake \in files THEN {"trained"} ELSE {})

\* _load_fas: a network in memory is kept, one on disk may load.
Unchecked(current) == {current \cup new : new \in SUBSET Networks} \* faulty variant
FasNetworks(current) == {current \cup new : new \in SUBSET (files \cap Networks)}

\* lifespan.  If the OCR engine cannot be made the service does not start.
Start ==
  /\ ~up
  /\ up' = TRUE
  /\ ocr' = "start"
  /\ app' \in FaceApps(app)
  /\ network' \in DeepfakeNetworks(network)
  /\ UNCHANGED <<files, fas, reply>>

\* The process ends, or dies.
Stop ==
  /\ up
  /\ up' = FALSE
  /\ ocr' = "none"
  /\ app' = "unset"
  /\ fas' = {}
  /\ network' = "unset"
  /\ UNCHANGED <<files, reply>>

\* analyse_document.  run_ocr names its arguments, the call at start did not: for
\* lru_cache, which keeps one engine, these are two calls.
AnalyseDocument(r) ==
  /\ up
  /\ "PIL" \in r.image.opens
  /\ ocr' = "request"
  /\ \E reads \in {FALSE, "OpenCV" \in r.image.opens} :
       reply' = [of |-> "document", request |-> r, result |-> Forensics(r.image, r.form, reads)]
  /\ UNCHANGED <<files, up, app, fas, network>>

\* The request has no reply but an error: no engine can be made, or a library raises.
DocumentFails(r) ==
  /\ up
  /\ ocr' \in {ocr, "request"}
  /\ reply' = Nothing
  /\ UNCHANGED <<files, up, app, fas, network>>

\* analyse_biometric
Biometrics(m, measures, answering, net, guess) ==
  LET face == run_face_match(m, measures)
      passive == passive_liveness_score(m, answering)
      passed == Challenge(m.frames, Mediapipe)
      fake == DeepfakeProbability(m, net, guess)
  IN [face_match_score |-> face.score,
      face_matched |-> face.matched,
      liveness_passive_score |-> passive.score,
      liveness_active_passed |-> passed,
      liveness_combined |-> passive.live /\ passed,
      deepfake_probability |-> fake,
      is_deepfake |-> fake > DeepfakeThreshold,
      errors |-> face.error \cup (IF net = "unset" THEN {"deepfake"} ELSE {})]

\* Each model is loaded if need be.  The networks of MiniFASNet are only looked for
\* when a face was found; each may raise; random weights answer anything.
AnalyseBiometric(m) ==
  /\ up
  /\ app' \in FaceApps(app)
  /\ fas' \in IF "box" \in m.faces THEN FasNetworks(fas) ELSE {fas}
  /\ network' \in DeepfakeNetworks(network)
  /\ \E measures \in {FALSE, app' = "loaded"}, answering \in SUBSET fas',
        guess \in IF network' = "random" THEN {0, 100} ELSE {0} :
       reply' = [of |-> "biometric", request |-> m,
                 result |-> Biometrics(m, measures, answering, network', guess),
                 network |-> network']
  /\ UNCHANGED <<files, up, ocr>>

\* The active check only catches a missing MediaPipe: when it raises, the face model and
\* MiniFASNet have been looked for and the deepfake network has not.
BiometricFails(m) ==
  /\ up
  /\ app' \in FaceApps(app)
  /\ fas' \in {fas} \cup IF "box" \in m.faces THEN FasNetworks(fas) ELSE {}
  /\ reply' = Nothing
  /\ UNCHANGED <<files, up, ocr, network>>

Next ==
  \/ \E f \in Files : Download(f)
  \/ Start \/ Stop
  \/ \E r \in Documents : AnalyseDocument(r) \/ DocumentFails(r)
  \/ \E m \in Selfies : AnalyseBiometric(m) \/ BiometricFails(m)

Spec == Init /\ [][Next]_vars

-----------------------------------------------------------------------------
(* Properties.                                                             *)

IsDocument(r) == r # Nothing /\ r.of = "document"
IsBiometric(r) == r # Nothing /\ r.of = "biometric"

\* Every variable holds a value of its kind; an authenticity score is at most 100 and
\* a biometric reply answers one of the requests.
TypeOK ==
  /\ files \subseteq Files
  /\ up \in BOOLEAN
  /\ ocr \in {"none", "start", "request"}
  /\ app \in {"unset", "loaded", "failed"}
  /\ fas \subseteq files \cap Networks
  /\ network \in {"unset", "random", "trained"}
  /\ IsDocument(reply) => /\ reply.request \in Documents
                          /\ reply.result.score \in 0 .. FullScore
  /\ IsBiometric(reply) => reply.request \in Selfies

\* The numbers that differ from n in one place, or by two neighbours that changed places.
Slips(n, i) == {[n EXCEPT ![i] = d] : d \in 0 .. 9}
Swaps(n) == {[n EXCEPT ![i] = n[i + 1], ![i + 1] = n[i]] : i \in 1 .. Len(n) - 1}
Typos(n) == Swaps(n) \cup UNION {Slips(n, i) : i \in DOMAIN n}

\* What the Verhoeff checksum is for: whoever mistypes one digit of a valid Aadhaar
\* number, or swaps two neighbours, is told so, wherever in the number it happens.
TypoIsCaught ==
  IsDocument(reply) =>
    LET form == reply.request.form
        meant == reply.request.image.number
    IN /\ form.doc_type = "AADHAAR"
       /\ validate_aadhaar(meant)
       /\ form.pan_number # meant
       /\ form.pan_number \in Typos(meant)
       => "ID_CHECKSUM_FAIL" \in reply.result.flags

\* A photograph held in front of the camera never passes the active challenge: with
\* MediaPipe or without, at whatever values it stands still, some change is needed.
Still(frames) ==
  \A i, j \in DOMAIN frames :
    /\ frames[i].ear = frames[j].ear
    /\ frames[i].nose = frames[j].nose
    /\ frames[i].grey = frames[j].grey
StillVideoFails ==
  IsBiometric(reply) =>
    LET frames == reply.request.frames IN
    frames # <<>> /\ Still(frames) => ~reply.result.liveness_combined

\* A selfie and a video in which neither the trained network nor the texture check
\* sees anything above the threshold are never called a deepfake: whatever frames
\* are sampled, the weights of the average sum to one.
NoFakeFromRealFrames ==
  IsBiometric(reply) =>
    LET m == reply.request IN
    /\ reply.network # "random"
    /\ m.gan <= 55 /\ m.fake <= 55
    /\ \A i \in DOMAIN m.frames : m.frames[i].fake <= 55
    => ~reply.result.is_deepfake

\* A document with larger measurements and more conditions, sent with the same form
\* and read no better, does not score higher than one asked about just before.
FieldMismatches(r) == r.result.flags \cap {"FIELD_MISMATCH:name", "FIELD_MISMATCH:dob"}
WorseImage(p, q) ==
  /\ p.mean_diff >= q.mean_diff
  /\ p.max_diff >= q.max_diff
  /\ p.blocks >= q.blocks /\ p.deviation >= q.deviation
  /\ q.exif \subseteq p.exif
  /\ p.keypoints = q.keypoints /\ p.opens = q.opens
WorseImageNeverScoresHigher ==
  [][/\ IsDocument(reply) /\ IsDocument(reply')
     /\ WorseImage(reply'.request.image, reply.request.image)
     /\ reply'.request.form = reply.request.form
     /\ FieldMismatches(reply) \subseteq FieldMismatches(reply')
     => reply'.result.score <= reply.result.score]_vars

\* What fusion.py:27-28 calls a mismatch of OCR and form: they say different things.
\* A document that carries the name and the date of birth of the form raises none.
MismatchIsReal ==
  IsDocument(reply) =>
    LET image == reply.request.image
        form == reply.request.form
    IN image.holder = form.name /\ image.born = form.born => FieldMismatches(reply) = {}

\* What scripts/download_models.sh:56 says when it could not get the weights of the
\* deepfake network: "Model will run in GAN-artifact-only fallback mode."  Without them
\* only the artifact score calls anybody's selfie a deepfake.
WithoutWeightsOnlyArtifacts ==
  IsBiometric(reply) /\ Deepfake \notin files =>
    (reply.result.is_deepfake
       <=> DeepfakeProbability(reply.request, "unset", 0) > DeepfakeThreshold)
=============================================================================
