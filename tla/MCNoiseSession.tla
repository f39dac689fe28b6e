--------------------------- MODULE MCNoiseSession ---------------------------
(* Instances of NoiseSession for TLC. *)
EXTENDS NoiseSession

CONSTANTS asr1, asr2,  \* recordings
          note        \* a job notification

KindOf == [r \in Requests |-> IF r = note THEN "notify" ELSE "asr"]

\* A recording is longer than a chunk of 65000 bytes, a transcript is not.
ChunksOf == [r \in Requests |-> IF r = asr1 THEN 2 ELSE 1]
ReplyChunksOf == [r \in Requests |-> IF r = asr2 THEN 2 ELSE 1]
=============================================================================
