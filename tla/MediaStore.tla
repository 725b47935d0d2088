----------------------------- MODULE MediaStore -----------------------------
(***************************************************************************)
(* upload_media of backend/storage/minio_client.py.  Uploads run in        *)
(* threads of an executor, several in each API process; the threads of a   *)
(* process share the client, which the first of them sets before it looks  *)
(* for the bucket.  Each call of MinIO is a step of its own.               *)
(***************************************************************************)
CONSTANTS
  Requests,    \* the requests that upload, one thread each at a time
  Processes    \* API processes

ASSUME StoreAssumption == Processes # {}

Media == {"document", "selfie"}

VARIABLES
  client,     \* _client, the processes where it is set
  bucket,     \* whether the bucket exists
  lifecycle,  \* whether it has the rule that purges it
  stored,     \* the objects in it
  place,      \* the process that serves each request
  call        \* what the upload thread of each request does next

storeVars == <<client, bucket, lifecycle, stored, place, call>>

StoreInit ==
  /\ client = {}
  /\ bucket = FALSE
  /\ lifecycle = FALSE
  /\ stored = {}
  /\ place = [r \in Requests |-> CHOOSE p \in Processes : TRUE]
  /\ call = [r \in Requests |-> "none"]

Goes(r, next) == call' = [call EXCEPT ![r] = next]

\* _get_client looks whether there is a client,
TestClient(r) ==
  /\ call[r] = "client"
  /\ Goes(r, IF place[r] \in client THEN "put" ELSE "connect")
  /\ UNCHANGED <<client, bucket, lifecycle, stored, place>>

\* and makes one.  Another thread may have done so since.
SetClient(r) ==
  /\ call[r] = "connect"
  /\ client' = client \cup {place[r]}
  /\ Goes(r, "exists")
  /\ UNCHANGED <<bucket, lifecycle, stored, place>>

\* bucket_exists
AlwaysMake == "make"                                       \* faulty variant
IfMissing == IF bucket THEN "put" ELSE "make"
BucketExists(r) ==
  /\ call[r] = "exists"
  /\ Goes(r, IfMissing)
  /\ UNCHANGED <<client, bucket, lifecycle, stored, place>>

\* make_bucket, which raises when another thread has made it
NoRule == "put"                                            \* faulty variants
StopsThere == "none"
AfterMake == "rule"
MakeBucket(r) ==
  /\ call[r] = "make" /\ ~bucket
  /\ bucket' = TRUE
  /\ Goes(r, AfterMake)
  /\ UNCHANGED <<client, lifecycle, stored, place>>

\* set_bucket_lifecycle
SetLifecycle(r) ==
  /\ call[r] = "rule"
  /\ lifecycle' = TRUE
  /\ Goes(r, "put")
  /\ UNCHANGED <<client, bucket, stored, place>>

\* put_object, which raises without a bucket
PutObject(r, medium) ==
  /\ call[r] = "put" /\ bucket
  /\ stored' = stored \cup {<<r, medium>>}
  /\ UNCHANGED <<client, bucket, lifecycle, place>>

Prepare(r) ==
  TestClient(r) \/ SetClient(r) \/ BucketExists(r) \/ MakeBucket(r) \/ SetLifecycle(r)

\* The call that r makes next is refused by MinIO.
Rejected(r) == \/ call[r] = "make" /\ bucket
               \/ call[r] = "put" /\ ~bucket

\* The calls of MinIO, in the order in which they are made.
MinioCalls == {"exists", "make", "rule", "put"}

\* The rule removes an object.
Purge(o) ==
  /\ lifecycle /\ o \in stored
  /\ stored' = stored \ {o}
  /\ UNCHANGED <<client, bucket, lifecycle, place, call>>
=============================================================================
