------------------------------ MODULE JobWatch ------------------------------
(***************************************************************************)
(* The status of a job as clients see it over a websocket                  *)
(* (sonotxt-api/src/routes/ws.rs): each socket asks for the row every half *)
(* second, sends what it found, and closes after a terminal answer.  The   *)
(* table is the abstract one of JobLifecycle, which the job queue          *)
(* implements: a watcher can rely on nothing else.                         *)
(***************************************************************************)
EXTENDS Naturals

CONSTANTS Jobs,
          Shared,      \* several API processes work on the table
          Watchers,    \* sockets
          MaxMisreads  \* bound on queries that fail

ASSUME WatchAssumption == Shared \in BOOLEAN /\ MaxMisreads \in Nat

VARIABLES status, audio, aged,  \* of JobLifecycle
          target,      \* the job of a socket
          link,        \* "closed", "open", "sending" or "told" (a terminal answer)
          told,        \* the last answer, "none" before the first
          misled,      \* sockets whose last answer was an error of the query (history)
          misreads

Table == INSTANCE JobLifecycle WITH old <- aged

jobTable == <<status, audio, aged>>
sockets == <<target, link, told, misled, misreads>>
watchVars == <<jobTable, sockets>>

Answers == {"none", "queued", "processing", "completed", "failed"}

WatchInit == /\ Table!Init
             /\ target \in [Watchers -> Jobs]
             /\ link = [w \in Watchers |-> "closed"]
             /\ told = [w \in Watchers |-> "none"]
             /\ misled = {} /\ misreads = 0

TableStep == Table!Next /\ UNCHANGED sockets

Connect(w, j) == /\ link[w] = "closed"
                 /\ target' = [target EXCEPT ![w] = j]
                 /\ link' = [link EXCEPT ![w] = "open"]
                 /\ told' = [told EXCEPT ![w] = "none"]
                 /\ misled' = misled \ {w}
                 /\ UNCHANGED <<jobTable, misreads>>

IsTerminal(a) == a \in {"completed", "failed"}

\* The answer to send; the row may change before it is sent.
Tell(w, a) == /\ told' = [told EXCEPT ![w] = a]
              /\ link' = [link EXCEPT ![w] = "sending"]

\* Mutant: the status is answered by what the worker has got so far.
Row_Early(w) == IF target[w] \in audio THEN "completed" ELSE status[target[w]]

\* get_job_status: no row is "Job not found".
Row(w) == IF status[target[w]] = "none" THEN "failed" ELSE status[target[w]]

Poll(w) == /\ link[w] = "open"
           /\ Tell(w, Row(w))
           /\ misled' = IF status[target[w]] = "none" THEN misled \cup {w} ELSE misled \ {w}
           /\ UNCHANGED <<jobTable, target, misreads>>

\* An error of the query is "Job not found" as well.
Misread(w) == /\ link[w] = "open"
              /\ misreads < MaxMisreads
              /\ misreads' = misreads + 1
              /\ misled' = misled \cup {w}
              /\ Tell(w, "failed")
              /\ UNCHANGED <<jobTable, target>>

\* A terminal answer closes the socket.
Send(w) == /\ link[w] = "sending"
           /\ link' = [link EXCEPT ![w] = IF IsTerminal(told[w]) THEN "told" ELSE "open"]
           /\ UNCHANGED <<jobTable, target, told, misled, misreads>>

\* The client has gone: the next send fails.
Disconnect(w) == /\ link[w] # "closed"
                 /\ link' = [link EXCEPT ![w] = "closed"]
                 /\ told' = [told EXCEPT ![w] = "none"]
                 /\ misled' = misled \ {w}
                 /\ UNCHANGED <<jobTable, target, misreads>>

WatchNext == \/ TableStep
             \/ \E w \in Watchers : \/ \E j \in Jobs : Connect(w, j)
                                    \/ Poll(w) \/ Misread(w) \/ Send(w) \/ Disconnect(w)

WatchSpec == WatchInit /\ [][WatchNext]_watchVars
-----------------------------------------------------------------------------
(* Type correctness.                                                       *)
WatchTypeOK == /\ status \in [Jobs -> Answers]
               /\ audio \subseteq Jobs /\ aged \subseteq Jobs
               /\ target \in [Watchers -> Jobs]
               /\ link \in [Watchers -> {"closed", "open", "sending", "told"}]
               /\ told \in [Watchers -> Answers]
               /\ misled \subseteq Watchers /\ misreads \in 0..MaxMisreads

(* A terminal answer is final: a client told that its job is completed or  *)
(* failed finds it so ever after, with the audio object it was given the   *)
(* address of, unless the query had failed or found no row yet, or the job *)
(* is an old one of a shared table, whose former holder may still write.   *)
ToldIsFinal == \A w \in Watchers :
    LET j == target[w] IN
    link[w] # "closed" /\ IsTerminal(told[w]) =>
        \/ told[w] = status[j] /\ (told[w] = "completed" => j \in audio)
        \/ w \in misled
        \/ Shared /\ j \in aged
=============================================================================
