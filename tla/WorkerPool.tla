----------------------------- MODULE WorkerPool -----------------------------
(***************************************************************************)
(* The pool of synthesis workers (sonotxt-api/src/services/worker_pool.rs) *)
(* with the calls that go through it at once: choice of a worker, load     *)
(* counters, timeouts, the retry of tts, the QUIC attempt of asr, and the  *)
(* loop that checks the health of the workers.                             *)
(*                                                                         *)
(* The flags and counters are relaxed atomics, read one at a time while    *)
(* other threads write them: every load is a step.  Workers are numbered   *)
(* in the order of the list, the order of every loop over them.            *)
(***************************************************************************)
EXTENDS Integers, FiniteSets

CONSTANTS NWorkers,   \* length of WORKER_URLS
          Connected,  \* workers with a QUIC connection
          Calls,      \* the calls of this instance, each made once
          Droppable   \* calls made by a request handler, which may be dropped

Workers == 1..NWorkers
Kinds == {"tts", "asr", "llm", "llm_stream"}

\* Handlers call tts, asr and llm; the job worker and the tasks that stream a
\* conversation call tts and llm_stream.
KindsOf(c) == IF c \in Droppable THEN {"tts", "asr", "llm"} ELSE {"tts", "llm_stream"}

MaxRetries == 1  \* max_retries

ASSUME WorkerPoolAssumption ==
    /\ NWorkers \in Nat \ {0}
    /\ Connected \subseteq Workers
    /\ IsFiniteSet(Calls)
    /\ Droppable \subseteq Calls

VARIABLES healthy,   \* the flag of each worker
          inflight,  \* its load counter
          leaked,    \* increments that will never be taken back
          kind,      \* the method each call is of
          pc,        \* where it is
          worker,    \* the worker it was given, 0 for none
          attempt,   \* attempts with_retry has behind it
          left,      \* workers the present pass of pick has yet to look at
          found,     \* the healthy ones it found
          low,       \* min_load, -1 before the first load
          least,     \* those that had it when looked at again
          stirred    \* calls that saw a load change while choosing by load

vars == <<healthy, inflight, leaked, kind, pc, worker,
          attempt, left, found, low, least, stirred>>
loads == <<inflight, leaked, stirred>>
choice == <<left, found, low, least>>

Locations == {"new", "healthy", "loads", "least", "quic", "send", "body",
              "pause", "ok", "failed", "panicked", "dropped"}
Ended == {"ok", "failed", "panicked", "dropped"}

Init == /\ healthy = [w \in Workers |-> TRUE]
        /\ inflight = [w \in Workers |-> 0]
        /\ leaked = [w \in Workers |-> 0]
        /\ kind \in [Calls -> Kinds]
        /\ \A c \in Calls : kind[c] \in KindsOf(c)
        /\ pc = [c \in Calls |-> "new"]
        /\ worker = [c \in Calls |-> 0]
        /\ attempt = [c \in Calls |-> 0]
        /\ left = [c \in Calls |-> {}]
        /\ found = [c \in Calls |-> {}]
        /\ low = [c \in Calls |-> -1]
        /\ least = [c \in Calls |-> {}]
        /\ stirred = {}
-----------------------------------------------------------------------------
At(c, loc) == pc[c] = loc
Goto(c, loc) == pc' = [pc EXCEPT ![c] = loc]

\* w is the next worker of the pass.
Looks(c, w) == w \in left[c] /\ \A v \in left[c] : w <= v
Look(c, w) == left' = [left EXCEPT ![c] = @ \ {w}]

\* A counter changes by a step of c: whoever is choosing by load may be misled.
Choosing == {c \in Calls : pc[c] \in {"loads", "least"}}
Stir(c) == stirred' = (stirred \cup Choosing) \ {c}

\* worker.inflight.fetch_add(1), and the request goes out.
Dispatch(c, w) == /\ inflight' = [inflight EXCEPT ![w] = @ + 1]
                  /\ Stir(c)
                  /\ UNCHANGED leaked
                  /\ Goto(c, "send")

\* pick returns w.  asr tries QUIC first, and does so uncounted.
Given(c, w) == /\ worker' = [worker EXCEPT ![c] = w]
               /\ IF kind[c] = "asr" /\ w \in Connected
                  THEN /\ Goto(c, "quic")
                       /\ stirred' = stirred \ {c}
                       /\ UNCHANGED <<inflight, leaked>>
                  ELSE Dispatch(c, w)
               /\ left' = [left EXCEPT ![c] = {}]
               /\ found' = [found EXCEPT ![c] = {}]
               /\ low' = [low EXCEPT ![c] = -1]
               /\ least' = [least EXCEPT ![c] = {}]
-----------------------------------------------------------------------------
(* WorkerPool::pick and pick_from                                          *)

Pick(c) == /\ At(c, "new") \/ At(c, "pause")
           /\ Goto(c, "healthy")
           /\ left' = [left EXCEPT ![c] = Workers]
           /\ UNCHANGED <<loads, healthy, kind, worker, attempt, found, low, least>>

\* filter(|w| w.healthy.load(Relaxed))
ReadHealthy(c, w) ==
    /\ At(c, "healthy")
    /\ Looks(c, w)
    /\ Look(c, w)
    /\ found' = IF healthy[w] THEN [found EXCEPT ![c] = @ \cup {w}] ELSE found
    /\ UNCHANGED <<loads, healthy, kind, pc, worker, attempt, low, least>>

\* "no healthy workers, trying all", round robin
PickAny(c) == /\ At(c, "healthy")
              /\ left[c] = {} /\ found[c] = {}
              /\ \E w \in Workers : Given(c, w)
              /\ UNCHANGED <<healthy, kind, attempt>>

BeginLoads(c) == /\ At(c, "healthy")
                 /\ left[c] = {} /\ found[c] # {}
                 /\ Goto(c, "loads")
                 /\ left' = [left EXCEPT ![c] = found[c]]
                 /\ UNCHANGED <<loads, healthy, kind, worker, attempt, found, low, least>>

\* map(|w| w.inflight.load(Relaxed)).min()
ReadLoad(c, w) ==
    /\ At(c, "loads")
    /\ Looks(c, w)
    /\ Look(c, w)
    /\ low' = IF low[c] = -1 \/ inflight[w] < low[c]
              THEN [low EXCEPT ![c] = inflight[w]] ELSE low
    /\ UNCHANGED <<loads, healthy, kind, pc, worker, attempt, found, least>>

BeginLeast(c) == /\ At(c, "loads")
                 /\ left[c] = {}
                 /\ Goto(c, "least")
                 /\ left' = [left EXCEPT ![c] = found[c]]
                 /\ UNCHANGED <<loads, healthy, kind, worker, attempt, found, low, least>>

\* Mutant: a worker counts as least loaded when it is not above min_load + 1.
CompareLoad_Loose(c, w) ==
    /\ At(c, "least")
    /\ Looks(c, w)
    /\ Look(c, w)
    /\ least' = IF inflight[w] <= low[c] + 1
                THEN [least EXCEPT ![c] = @ \cup {w}] ELSE least
    /\ UNCHANGED <<loads, healthy, kind, pc, worker, attempt, found, low>>

\* filter(|w| w.inflight.load(Relaxed) == min_load): a second load
CompareLoad(c, w) ==
    /\ At(c, "least")
    /\ Looks(c, w)
    /\ Look(c, w)
    /\ least' = IF inflight[w] = low[c]
                THEN [least EXCEPT ![c] = @ \cup {w}] ELSE least
    /\ UNCHANGED <<loads, healthy, kind, pc, worker, attempt, found, low>>

\* least[rr_counter % least.len()]
PickLeast(c) == /\ At(c, "least")
                /\ left[c] = {}
                /\ \E w \in least[c] : Given(c, w)
                /\ UNCHANGED <<healthy, kind, attempt>>

\* No load equals min_load any more: remainder by least.len() = 0 panics.
PickFails(c) == /\ At(c, "least")
                /\ left[c] = {} /\ least[c] = {}
                /\ Goto(c, "panicked")
                /\ UNCHANGED <<loads, healthy, kind, worker, attempt, choice>>
-----------------------------------------------------------------------------
(* The calls                                                               *)

\* encrypted_asr answers, with a transcript or with an error of the worker.
QuicAnswers(c) == /\ At(c, "quic")
                  /\ Goto(c, "ok") \/ Goto(c, "failed")
                  /\ UNCHANGED <<loads, healthy, kind, worker, attempt, choice>>

\* It fails or runs into asr_timeout: "HTTP fallback" to the same worker.
QuicFails(c) == /\ At(c, "quic")
                /\ Dispatch(c, worker[c])
                /\ UNCHANGED <<healthy, kind, worker, attempt, choice>>

\* worker.inflight.fetch_sub(1)
Uncount(c) == /\ inflight' = [inflight EXCEPT ![worker[c]] = @ - 1]
              /\ Stir(c)
              /\ UNCHANGED leaked

\* send().await returns a response with a good status; llm_stream hands it on.
Answered(c) == /\ At(c, "send")
               /\ Uncount(c)
               /\ Goto(c, IF kind[c] = "llm_stream" THEN "ok" ELSE "body")
               /\ UNCHANGED <<healthy, kind, worker, attempt, choice>>

\* Mutant: attempts are not counted.
AttemptFails_Uncounted(c) ==
    /\ IF kind[c] = "tts" THEN Goto(c, "pause") ELSE Goto(c, "failed")
    /\ UNCHANGED attempt

\* The error of a call: with_retry tries tts once more after 100 ms.
AttemptFails(c) == IF kind[c] = "tts" /\ attempt[c] < MaxRetries
                   THEN /\ Goto(c, "pause")
                        /\ attempt' = [attempt EXCEPT ![c] = @ + 1]
                   ELSE /\ Goto(c, "failed")
                        /\ UNCHANGED attempt

\* No connection, the timeout of the HTTP client, or a bad status.
Refused(c) == /\ At(c, "send")
              /\ Uncount(c)
              /\ AttemptFails(c)
              /\ UNCHANGED <<healthy, kind, worker, choice>>

BodyRead(c) == /\ At(c, "body")
               /\ Goto(c, "ok")
               /\ UNCHANGED <<loads, healthy, kind, worker, attempt, choice>>

BodyFails(c) == /\ At(c, "body")
                /\ AttemptFails(c)
                /\ UNCHANGED <<loads, healthy, kind, worker, choice>>

\* The future of c ends here: its fetch_sub never runs.
Abandon(c) == /\ leaked' = IF At(c, "send") THEN [leaked EXCEPT ![worker[c]] = @ + 1]
                                            ELSE leaked
              /\ UNCHANGED <<inflight, stirred>>

\* tokio::time::timeout around the call; llm_stream has none.
Timeout(c) == /\ At(c, "send") \/ At(c, "body")
              /\ kind[c] # "llm_stream"
              /\ Abandon(c)
              /\ AttemptFails(c)
              /\ UNCHANGED <<healthy, kind, worker, choice>>

\* The request times out or its client leaves: the handler is dropped at an
\* await.  There is none inside pick.
Drop(c) == /\ c \in Droppable
           /\ pc[c] \in {"quic", "send", "body", "pause"}
           /\ Abandon(c)
           /\ Goto(c, "dropped")
           /\ UNCHANGED <<healthy, kind, worker, attempt, choice>>
-----------------------------------------------------------------------------
(* Health                                                                  *)

\* health_check stores what the probe of a worker said, over QUIC or over
\* HTTP; it may say anything, and no call touches the flag.
CheckHealth(w) == /\ \E ok \in BOOLEAN : healthy' = [healthy EXCEPT ![w] = ok]
                  /\ UNCHANGED <<loads, kind, pc, worker, attempt, choice>>
-----------------------------------------------------------------------------
PickStep(c) == \/ \E w \in Workers : \/ ReadHealthy(c, w)
                                     \/ ReadLoad(c, w)
                                     \/ CompareLoad(c, w)
               \/ PickAny(c) \/ BeginLoads(c) \/ BeginLeast(c)
               \/ PickLeast(c) \/ PickFails(c)

CallStep(c) == \/ QuicAnswers(c) \/ QuicFails(c)
               \/ Answered(c) \/ Refused(c) \/ Timeout(c)
               \/ BodyRead(c) \/ BodyFails(c)

Next == \/ \E c \in Calls : Pick(c) \/ PickStep(c) \/ CallStep(c) \/ Drop(c)
        \/ \E w \in Workers : CheckHealth(w)

Spec == Init /\ [][Next]_vars

\* A call that has begun goes on: every await in it is bounded by a timeout,
\* that of the HTTP client at the latest.
Work(c) == ~At(c, "new") /\ (Pick(c) \/ PickStep(c) \/ CallStep(c))

FairSpec == Spec /\ \A c \in Calls : WF_vars(Work(c))
-----------------------------------------------------------------------------
(* Properties                                                              *)

\* Variables stay within their types.
TypeOK == /\ healthy \in [Workers -> BOOLEAN]
          /\ inflight \in [Workers -> Nat]
          /\ leaked \in [Workers -> Nat]
          /\ kind \in [Calls -> Kinds]
          /\ pc \in [Calls -> Locations]
          /\ worker \in [Calls -> Workers \cup {0}]
          /\ attempt \in [Calls -> 0..MaxRetries]
          /\ left \in [Calls -> SUBSET Workers]
          /\ found \in [Calls -> SUBSET Workers]
          /\ low \in [Calls -> Nat \cup {-1}]
          /\ least \in [Calls -> SUBSET Workers]
          /\ stirred \subseteq Calls

Sending(w) == {c \in Calls : At(c, "send") /\ worker[c] = w}

\* A load counter is the number of requests the worker has in hand, plus what
\* calls left behind that ended inside send().await.  (fetch_add and fetch_sub
\* around each send; the counter is unsigned and must not go below zero.)
LoadIsRequests == \A w \in Workers : inflight[w] = Cardinality(Sending(w)) + leaked[w]

\* pick panics, on an empty list of least loaded workers, only when another
\* call changed a counter between the two passes.
PanicOnlyByRace == \A c \in Calls : At(c, "panicked") => c \in stirred

\* Choosing by load gives a worker with the lowest counter of the healthy ones
\* found, and does not panic, unless a counter changed on the way.
LeastLoadedUnlessRace ==
    \A c \in Calls \ stirred :
        At(c, "least") /\ ~At(c, "least")'
            => /\ ~At(c, "panicked")'
               /\ \A w \in found[c] : inflight[worker'[c]] <= inflight[w]

\* The load is what it is taken for, and what is chosen by it is least loaded.
LoadBalanced == [][LoadIsRequests' /\ LeastLoadedUnlessRace]_vars

\* A call that has begun ends: with a result, an error, or a panic.
BegunCallEnds == \A c \in Calls : At(c, "healthy") ~> pc[c] \in Ended

\* "Callers don't pick workers manually - they call pool.tts(), pool.asr(),
\* pool.llm() and get back results": pick finds one of the healthy workers.
PickAnswers == \A c \in Calls : ~At(c, "panicked")
=============================================================================
