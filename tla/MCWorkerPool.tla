---------------------------- MODULE MCWorkerPool ----------------------------
(* Instances of WorkerPool for TLC. *)
EXTENDS WorkerPool

CONSTANTS request,  \* a call made by a request handler
          task      \* a call made by the job worker or a conversation task
=============================================================================
