---------------------------- MODULE ObjectStore -----------------------------
(***************************************************************************)
(* StorageService (sonotxt-core/src/storage.rs): the bucket that the job   *)
(* worker of each API process makes when it starts, and the uploads of     *)
(* audio and vault items to it or to IPFS, with a pinning order at Crust.  *)
(*                                                                         *)
(* A start that finds the bucket leaves it as it is; one that makes it     *)
(* lets everybody read it in a second call.  What that call does not do is *)
(* not done later.                                                         *)
(***************************************************************************)
EXTENDS Requests

CONSTANT Files

VARIABLES s3,          \* there is an S3 client: default_storage is not "ipfs"
          crustToken,  \* crust_auth_token is set
          bucket,      \* "absent", "private" or "public"
          inBucket,    \* files in the bucket
          onIpfs,      \* files added to IPFS
          pinned,      \* files ordered to be pinned
          results,     \* the upload results that callers got
          startCut     \* a start ended between the bucket and its policy (history)

setting == <<s3, crustToken>>
remote == <<bucket, inBucket, onIpfs, pinned>>
storeVars == <<setting, remote, results, startCut>>

StartLocations == {"head", "create", "policy"}
UploadLocations == {"put", "add", "pin"}

StoreInit == /\ s3 \in BOOLEAN /\ crustToken \in BOOLEAN
             /\ bucket = "absent"
             /\ inBucket = {} /\ onIpfs = {} /\ pinned = {} /\ results = {}
             /\ startCut = FALSE

Result(f, backend, order) == [file |-> f, backend |-> backend, order |-> order]
-----------------------------------------------------------------------------
(* ensure_bucket_exists; its error is only logged.                         *)

BeginEnsure(h) == /\ s3
                  /\ Begin(h, "head", "start")
                  /\ UNCHANGED storeVars

HeadBucket(h) == /\ At(h, "head")
                 /\ IF bucket = "absent" THEN Goto(h, "create") ELSE End(h)
                 /\ UNCHANGED storeVars

\* Every error is taken for a missing bucket.
HeadFails(h) == /\ At(h, "head") /\ Fault
                /\ Moved(h, "create", local[h])
                /\ UNCHANGED storeVars

\* Mutant: the new bucket keeps the policy that MinIO gives it.
CreateBucket_Only(h) ==
    /\ At(h, "create")
    /\ End(h)
    /\ bucket' = IF bucket = "absent" THEN "private" ELSE bucket
    /\ UNCHANGED <<setting, inBucket, onIpfs, pinned, results, startCut>>

\* A bucket that is there is an error, and ends the start.
CreateBucket(h) ==
    /\ At(h, "create")
    /\ IF bucket = "absent"
       THEN bucket' = "private" /\ Goto(h, "policy")
       ELSE UNCHANGED bucket /\ End(h)
    /\ UNCHANGED <<setting, inBucket, onIpfs, pinned, results, startCut>>

PutPolicy(h) == /\ At(h, "policy")
                /\ bucket' = "public"
                /\ End(h)
                /\ UNCHANGED <<setting, inBucket, onIpfs, pinned, results, startCut>>

\* A call fails or the process ends.
CutStart(h) == /\ pc[h] \in StartLocations /\ Dropped(h)
               /\ startCut' = (startCut \/ At(h, "policy"))
               /\ UNCHANGED <<setting, remote, results>>
-----------------------------------------------------------------------------
(* upload                                                                  *)

\* Without a client an upload to the bucket is refused.
BeginUploadOf(h, f) == /\ \/ s3 /\ Begin(h, "put", f)
                          \/ Begin(h, "add", f)
                       /\ UNCHANGED storeVars

Report(f, backend, order) == results' = results \cup {Result(f, backend, order)}

PutInBucket(h) ==
    /\ At(h, "put")
    /\ IF bucket = "absent" THEN UNCHANGED <<inBucket, results>>
       ELSE inBucket' = inBucket \cup {local[h]} /\ Report(local[h], "minio", FALSE)
    /\ End(h)
    /\ UNCHANGED <<setting, bucket, onIpfs, pinned, startCut>>

AddToIpfs(h) ==
    /\ At(h, "add")
    /\ onIpfs' = onIpfs \cup {local[h]}
    /\ IF crustToken THEN Goto(h, "pin") /\ UNCHANGED results
                ELSE End(h) /\ Report(local[h], "ipfs", FALSE)
    /\ UNCHANGED <<setting, bucket, inBucket, pinned, startCut>>

PinToCrust(h) ==
    /\ At(h, "pin")
    /\ pinned' = pinned \cup {local[h]}
    /\ Report(local[h], "ipfs", TRUE)
    /\ End(h)
    /\ UNCHANGED <<setting, bucket, inBucket, onIpfs, startCut>>

\* The order is refused, or made and the answer lost: the upload succeeds
\* without one.
PinFails(h) ==
    /\ At(h, "pin") /\ Fault
    /\ pinned' \in {pinned, pinned \cup {local[h]}}
    /\ Report(local[h], "ipfs", FALSE)
    /\ Leave(h)
    /\ UNCHANGED <<setting, bucket, inBucket, onIpfs, startCut>>

\* A call fails or the upload is dropped; a file may have been stored.
CutUpload(h) ==
    /\ pc[h] \in UploadLocations
    /\ inBucket' \in {inBucket, inBucket \cup {f \in Files :
                                  At(h, "put") /\ bucket # "absent" /\ f = local[h]}}
    /\ onIpfs' \in {onIpfs, onIpfs \cup {f \in Files : At(h, "add") /\ f = local[h]}}
    /\ Dropped(h)
    /\ UNCHANGED <<setting, bucket, pinned, results, startCut>>

StoreNext == \E h \in Handlers :
    \/ BeginEnsure(h) \/ HeadBucket(h) \/ HeadFails(h) \/ CreateBucket(h) \/ PutPolicy(h)
    \/ CutStart(h)
    \/ \E f \in Files : BeginUploadOf(h, f)
    \/ PutInBucket(h) \/ AddToIpfs(h) \/ PinToCrust(h) \/ PinFails(h) \/ CutUpload(h)

StoreSpec == StoreInit /\ RequestsInit /\ [][StoreNext]_<<requests, storeVars>>
-----------------------------------------------------------------------------
(* Type correctness.                                                       *)
StoreTypeOK ==
    /\ RequestsTypeOK(StartLocations \cup UploadLocations, Files \cup {"start"})
    /\ \A h \in Handlers : pc[h] \in UploadLocations => local[h] \in Files
    /\ s3 \in BOOLEAN /\ crustToken \in BOOLEAN /\ startCut \in BOOLEAN
    /\ bucket \in {"absent", "private", "public"}
    /\ inBucket \subseteq Files /\ onIpfs \subseteq Files /\ pinned \subseteq Files
    /\ results \subseteq [file : Files, backend : {"minio", "ipfs"}, order : BOOLEAN]

(* What a caller is told of an upload is so.  A file in the bucket can be  *)
(* read by everybody, at the latest when the start that made the bucket    *)
(* is through, unless that start was cut short, which no later one makes   *)
(* good; an order number stands for a pinned file, and where orders are    *)
(* made, only one that failed is missing.                                  *)
UploadsReadable ==
    /\ \A t \in results : t.backend = "minio" =>
           /\ t.file \in inBucket
           /\ \/ bucket = "public" \/ startCut
              \/ bucket = "private" /\ \E h \in Handlers : At(h, "policy")
    /\ \A t \in results : t.backend = "ipfs" =>
           /\ t.file \in onIpfs
           /\ t.order => t.file \in pinned
           /\ ~t.order /\ crustToken => faults > 0
=============================================================================
