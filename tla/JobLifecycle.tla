---------------------------- MODULE JobLifecycle ----------------------------
(***************************************************************************)
(* What the TTS job table promises to whoever submitted a job, independent *)
(* of processes, clocks, priorities and database errors: a job is queued   *)
(* once, and while it is young it is given to one attempt, whose verdict   *)
(* stands.  An old job may be queued again.  Where several API processes   *)
(* share the table, its former attempt may then still come in late, on top *)
(* of anything; a single process has no such attempts.  A completed job    *)
(* has its audio object at any age.                                        *)
(***************************************************************************)
CONSTANTS Jobs,
          Shared    \* several API processes work on the table

VARIABLES status,   \* the status column of the jobs table
          audio,    \* the jobs whose audio object is in the bucket
          old       \* the jobs old enough to be given up

lvars == <<status, audio, old>>

Init == /\ status = [j \in Jobs |-> "none"]
        /\ audio = {}
        /\ old = {}

Submit(j) == /\ status[j] = "none"
             /\ status' = [status EXCEPT ![j] = "queued"]
             /\ UNCHANGED <<audio, old>>

\* Time passes.
Age(S) == /\ \A j \in S : status[j] # "none"
          /\ old' = old \cup S
          /\ UNCHANGED <<status, audio>>

Claim(j) == /\ status[j] = "queued"
            /\ status' = [status EXCEPT ![j] = "processing"]
            /\ UNCHANGED <<audio, old>>

\* An attempt at j may be under way.
UnderWay(j) == status[j] = "processing" \/ (Shared /\ j \in old)

Store(j) == /\ UnderWay(j)
            /\ audio' = audio \cup {j}
            /\ UNCHANGED <<status, old>>

Complete(j) == /\ UnderWay(j)
               /\ j \in audio
               /\ status' = [status EXCEPT ![j] = "completed"]
               /\ UNCHANGED <<audio, old>>

Fail(j) == /\ UnderWay(j)
           /\ status' = [status EXCEPT ![j] = "failed"]
           /\ UNCHANGED <<audio, old>>

\* A restart gives up the attempts at old jobs, all in one step.
Requeue(S) == /\ \A j \in S : status[j] = "processing" /\ j \in old
              /\ status' = [j \in Jobs |-> IF j \in S THEN "queued" ELSE status[j]]
              /\ UNCHANGED <<audio, old>>

Next == \/ \E j \in Jobs : \/ Submit(j) \/ Claim(j) \/ Store(j)
                           \/ Complete(j) \/ Fail(j)
        \/ \E S \in SUBSET Jobs : Age(S) \/ Requeue(S)

Spec == Init /\ [][Next]_lvars
=============================================================================
