-------------------------- MODULE WorkerPoolProofs --------------------------
(***************************************************************************)
(* Proofs about WorkerPool for any number of workers and any finite set of *)
(* calls.                                                                  *)
(***************************************************************************)
EXTENDS WorkerPool, FiniteSetTheorems, TLAPS

\* A call that reached a worker knows which one.
Placed == \A c \in Calls : pc[c] \in {"quic", "send", "body"} => worker[c] \in Workers

\* The passes of pick stay within the healthy workers that were found.
Passes == \A c \in Calls : /\ left[c] \subseteq Workers /\ found[c] \subseteq Workers
                           /\ pc[c] \in {"loads", "least"} =>
                                 found[c] # {} /\ left[c] \subseteq found[c]

Shape == TypeOK /\ Placed /\ Passes

\* What pick knows as long as no counter changed since the first pass began.
Looked(c) == found[c] \ left[c]

MinSoFar(c) == IF low[c] = -1
               THEN Looked(c) = {}
               ELSE /\ \E w \in Looked(c) : inflight[w] = low[c]
                    /\ \A w \in Looked(c) : low[c] <= inflight[w]

LeastSoFar(c) == /\ \E w \in found[c] : inflight[w] = low[c]
                 /\ \A w \in found[c] : low[c] <= inflight[w]
                 /\ least[c] = {w \in Looked(c) : inflight[w] = low[c]}

Unstirred == \A c \in Calls \ stirred : /\ At(c, "loads") => MinSoFar(c)
                                        /\ At(c, "least") => LeastSoFar(c)
                                        /\ ~At(c, "panicked")

\* In "loads" a call has not begun the second pass.
Fresh == \A c \in Calls : /\ pc[c] \notin {"loads", "least", "panicked"} =>
                                c \notin stirred /\ low[c] = -1
                          /\ pc[c] \notin {"least", "panicked"} => least[c] = {}

USE DEF At, Goto, loads, choice
-----------------------------------------------------------------------------
\* Initially every variable has its type.
LEMMA InitShape == Init => Shape
BY WorkerPoolAssumption DEF Init, Shape, TypeOK, Placed, Passes, Workers, Locations, MaxRetries

\* The steps of one call, by what they do to its place and to the counters.
Passing(c) == \E w \in Workers : ReadHealthy(c, w) \/ ReadLoad(c, w) \/ CompareLoad(c, w)
Turning(c) == Pick(c) \/ BeginLoads(c) \/ BeginLeast(c) \/ PickFails(c)
Choosing1(c) == PickAny(c) \/ PickLeast(c)
Resting(c) == QuicAnswers(c) \/ BodyRead(c) \/ BodyFails(c)
Counting(c) == Answered(c) \/ Refused(c)
Leaving(c) == Timeout(c) \/ Drop(c)

\* Every action keeps the types, as long as no counter is taken below zero.
LEMMA NextShape ==
    ASSUME Shape, [Next]_vars,
           \A c \in Calls : At(c, "send") => inflight[worker[c]] > 0
    PROVE  Shape'
<1> USE DEF Shape, TypeOK, Placed, Passes, Locations, MaxRetries
<1>1. ASSUME NEW c \in Calls, Passing(c) PROVE Shape'
  BY <1>1 DEF Passing, ReadHealthy, ReadLoad, CompareLoad, Look, Looks
<1>2. ASSUME NEW c \in Calls, Turning(c) PROVE Shape'
  BY <1>2 DEF Turning, Pick, BeginLoads, BeginLeast, PickFails
<1>3. ASSUME NEW c \in Calls, Choosing1(c) PROVE Shape'
  <2>1. PICK w \in Workers : Given(c, w)
    BY <1>3 DEF Choosing1, PickAny, PickLeast
  <2>2. UNCHANGED <<healthy, kind, attempt>>
    BY <1>3 DEF Choosing1, PickAny, PickLeast
  <2>3. UNCHANGED leaked /\ stirred' \subseteq Calls
    BY <2>1 DEF Given, Dispatch, Stir, Choosing
  <2>4. inflight' \in [Workers -> Nat] /\ pc' \in [Calls -> Locations]
    BY <2>1 DEF Given, Dispatch
  <2>5. Placed'
    BY <2>1 DEF Given, Dispatch
  <2>6. Passes' /\ TypeOK'
    <3>1. /\ left' = [left EXCEPT ![c] = {}] /\ found' = [found EXCEPT ![c] = {}]
          /\ low' = [low EXCEPT ![c] = -1] /\ least' = [least EXCEPT ![c] = {}]
          /\ worker' = [worker EXCEPT ![c] = w]
          /\ pc' = [pc EXCEPT ![c] = "quic"] \/ pc' = [pc EXCEPT ![c] = "send"]
      BY <2>1 DEF Given, Dispatch
    <3>2. QED
      BY <2>2, <2>3, <2>4, <3>1
  <2>7. QED
    BY <2>5, <2>6
<1>4. ASSUME NEW c \in Calls, QuicFails(c) PROVE Shape'
  BY <1>4 DEF QuicFails, Dispatch, Stir, Choosing
<1>5. ASSUME NEW c \in Calls, Resting(c) PROVE Shape'
  BY <1>5 DEF Resting, QuicAnswers, BodyRead, BodyFails, AttemptFails
<1>6. ASSUME NEW c \in Calls, Counting(c) PROVE Shape'
  BY <1>6 DEF Counting, Answered, Refused, Uncount, Stir, Choosing, AttemptFails
<1>7. ASSUME NEW c \in Calls, Leaving(c) PROVE Shape'
  BY <1>7 DEF Leaving, Timeout, Drop, Abandon, AttemptFails
<1>8. ASSUME NEW w \in Workers, CheckHealth(w) PROVE Shape'
  BY <1>8 DEF CheckHealth
<1>9. CASE UNCHANGED vars
  BY <1>9 DEF vars
<1>10. QED
  BY <1>1, <1>2, <1>3, <1>4, <1>5, <1>6, <1>7, <1>8, <1>9
     DEF Next, PickStep, CallStep, Passing, Turning, Choosing1, Resting, Counting, Leaving
-----------------------------------------------------------------------------
(* The load counters                                                       *)

\* The calls in hand of a worker are finitely many.
LEMMA SendingFinite == \A w \in Workers : IsFiniteSet(Sending(w))
<1> TAKE w \in Workers
<1>1. Sending(w) \in SUBSET Calls
  BY DEF Sending
<1>2. QED
  BY <1>1, FS_Subset, WorkerPoolAssumption DEF WorkerPoolAssumption

\* A call in hand keeps its worker's counter above zero.
LEMMA CounterPositive ==
    ASSUME Shape, LoadIsRequests
    PROVE  \A c \in Calls : At(c, "send") => inflight[worker[c]] > 0
<1> SUFFICES ASSUME NEW c \in Calls, At(c, "send") PROVE inflight[worker[c]] > 0
  OBVIOUS
<1> DEFINE w == worker[c]
<1>1. w \in Workers /\ leaked[w] \in Nat /\ inflight[w] = Cardinality(Sending(w)) + leaked[w]
  BY DEF Shape, TypeOK, Placed, LoadIsRequests
<1>2. IsFiniteSet(Sending(w)) /\ Sending(w) # {}
  BY <1>1, SendingFinite DEF Sending
<1>3. Cardinality(Sending(w)) \in Nat /\ Cardinality(Sending(w)) # 0
  BY <1>2, FS_CardinalityType, FS_EmptySet
<1>4. QED
  BY <1>1, <1>3

\* How a step of one call changes the requests in hand.
LEMMA SendingStep ==
    ASSUME NEW c \in Calls, NEW loc, NEW y, TypeOK,
           pc' = [pc EXCEPT ![c] = loc], worker' = [worker EXCEPT ![c] = y],
           NEW w \in Workers
    PROVE  Sending(w)' = IF loc = "send" /\ y = w THEN Sending(w) \cup {c}
                                                  ELSE Sending(w) \ {c}
BY DEF Sending, TypeOK

\* The number of requests in hand after a step of one call.
LEMMA SendingCount ==
    ASSUME NEW c \in Calls, NEW loc, NEW y, TypeOK,
           pc' = [pc EXCEPT ![c] = loc], worker' = [worker EXCEPT ![c] = y],
           NEW w \in Workers
    PROVE  /\ Cardinality(Sending(w)) \in Nat
           /\ Cardinality(Sending(w)') =
                IF loc = "send" /\ y = w
                THEN IF c \in Sending(w) THEN Cardinality(Sending(w)) ELSE Cardinality(Sending(w)) + 1
                ELSE IF c \in Sending(w) THEN Cardinality(Sending(w)) - 1 ELSE Cardinality(Sending(w))
<1> DEFINE S == Sending(w)
<1>1. IsFiniteSet(S)
  BY SendingFinite
<1>2. Sending(w)' = IF loc = "send" /\ y = w THEN S \cup {c} ELSE S \ {c}
  BY SendingStep
<1> HIDE DEF S
<1>3. /\ Cardinality(S) \in Nat
      /\ Cardinality(S \cup {c}) = IF c \in S THEN Cardinality(S) ELSE Cardinality(S) + 1
      /\ Cardinality(S \ {c}) = IF c \in S THEN Cardinality(S) - 1 ELSE Cardinality(S)
  BY <1>1, FS_AddElement, FS_RemoveElement, FS_CardinalityType
<1>4. QED
  BY <1>2, <1>3 DEF S

\* A step of one call that leaves the counters alone and does not leave or
\* enter send().await.
LEMMA CountersKept ==
    ASSUME Shape, LoadIsRequests, NEW c \in Calls, ~At(c, "send"),
           NEW loc \in Locations \ {"send"}, NEW y,
           pc' = [pc EXCEPT ![c] = loc], worker' = [worker EXCEPT ![c] = y],
           UNCHANGED <<inflight, leaked>>
    PROVE  LoadIsRequests'
<1> SUFFICES ASSUME NEW w \in Workers
             PROVE  inflight'[w] = Cardinality(Sending(w)') + leaked'[w]
  BY DEF LoadIsRequests
<1>1. c \notin Sending(w)
  BY DEF Sending
<1>2. Cardinality(Sending(w)') = Cardinality(Sending(w))
  BY <1>1, SendingCount DEF Shape
<1>3. QED
  BY <1>2 DEF LoadIsRequests

\* Every action keeps counter and requests in step.
LEMMA NextLoads == Shape /\ LoadIsRequests /\ [Next]_vars => LoadIsRequests'
<1> SUFFICES ASSUME Shape, LoadIsRequests, [Next]_vars PROVE LoadIsRequests'
  OBVIOUS
<1> USE DEF Shape
\* A request goes out: one more counted, one more in hand.
<1>1. ASSUME NEW c \in Calls, NEW v \in Workers, ~At(c, "send"), Dispatch(c, v),
             worker' = [worker EXCEPT ![c] = v]
      PROVE  LoadIsRequests'
  <2> SUFFICES ASSUME NEW w \in Workers
               PROVE  inflight'[w] = Cardinality(Sending(w)') + leaked'[w]
    BY DEF LoadIsRequests
  <2>1. c \notin Sending(w)
    BY <1>1 DEF Sending
  <2>2. /\ Cardinality(Sending(w)) \in Nat
        /\ Cardinality(Sending(w)') = IF v = w THEN Cardinality(Sending(w)) + 1
                                               ELSE Cardinality(Sending(w))
    BY <1>1, <2>1, SendingCount DEF Dispatch
  <2>3. inflight'[w] = (IF v = w THEN inflight[w] + 1 ELSE inflight[w]) /\ leaked' = leaked
    BY <1>1 DEF Dispatch, TypeOK
  <2>4. inflight[w] = Cardinality(Sending(w)) + leaked[w] /\ leaked[w] \in Nat
    BY DEF LoadIsRequests, TypeOK
  <2>5. QED
    BY <2>2, <2>3, <2>4
<1>2. ASSUME NEW c \in Calls, PickAny(c) \/ PickLeast(c) PROVE LoadIsRequests'
  <2>1. PICK v \in Workers : Given(c, v)
    BY <1>2 DEF PickAny, PickLeast, TypeOK
  <2>2. ~At(c, "send") /\ worker' = [worker EXCEPT ![c] = v]
    BY <1>2, <2>1 DEF PickAny, PickLeast, Given
  <2>3. CASE Dispatch(c, v)
    BY <1>1, <2>2, <2>3
  <2>4. CASE pc' = [pc EXCEPT ![c] = "quic"] /\ UNCHANGED <<inflight, leaked>>
    BY <2>2, <2>4, CountersKept DEF Locations
  <2>5. QED
    BY <2>1, <2>3, <2>4 DEF Given
<1>3. ASSUME NEW c \in Calls, QuicFails(c) PROVE LoadIsRequests'
  <2>1. worker[c] \in Workers /\ worker' = [worker EXCEPT ![c] = worker[c]] /\ ~At(c, "send")
    BY <1>3 DEF QuicFails, Placed, TypeOK
  <2>2. QED
    BY <1>1, <1>3, <2>1 DEF QuicFails
\* send().await returns: one less counted, one less in hand.
<1>4. ASSUME NEW c \in Calls, Counting(c) PROVE LoadIsRequests'
  <2> SUFFICES ASSUME NEW w \in Workers
               PROVE  inflight'[w] = Cardinality(Sending(w)') + leaked'[w]
    BY DEF LoadIsRequests
  <2> DEFINE v == worker[c]
  <2>1. v \in Workers /\ worker' = [worker EXCEPT ![c] = v] /\ (c \in Sending(w) <=> v = w)
    BY <1>4 DEF Counting, Answered, Refused, Placed, TypeOK, Sending
  <2>2. PICK loc \in Locations \ {"send"} : pc' = [pc EXCEPT ![c] = loc]
    BY <1>4 DEF Counting, Answered, Refused, AttemptFails, Locations
  <2>3. /\ Cardinality(Sending(w)) \in Nat
        /\ Cardinality(Sending(w)') = IF v = w THEN Cardinality(Sending(w)) - 1
                                               ELSE Cardinality(Sending(w))
    BY <2>1, <2>2, SendingCount
  <2>4. inflight'[w] = (IF v = w THEN inflight[w] - 1 ELSE inflight[w]) /\ leaked' = leaked
    BY <1>4, <2>1 DEF Counting, Answered, Refused, Uncount, TypeOK
  <2>5. inflight[w] = Cardinality(Sending(w)) + leaked[w] /\ leaked[w] \in Nat /\ inflight[w] \in Nat
    BY DEF LoadIsRequests, TypeOK
  <2>6. QED
    BY <2>3, <2>4, <2>5
\* The future ends inside send().await: still counted, no longer in hand.
<1>5. ASSUME NEW c \in Calls, Leaving(c), At(c, "send") PROVE LoadIsRequests'
  <2> SUFFICES ASSUME NEW w \in Workers
               PROVE  inflight'[w] = Cardinality(Sending(w)') + leaked'[w]
    BY DEF LoadIsRequests
  <2> DEFINE v == worker[c]
  <2>1. v \in Workers /\ worker' = [worker EXCEPT ![c] = v] /\ (c \in Sending(w) <=> v = w)
    BY <1>5 DEF Leaving, Timeout, Drop, Placed, TypeOK, Sending
  <2>2. PICK loc \in Locations \ {"send"} : pc' = [pc EXCEPT ![c] = loc]
    BY <1>5 DEF Leaving, Timeout, Drop, AttemptFails, Locations
  <2>3. /\ Cardinality(Sending(w)) \in Nat
        /\ Cardinality(Sending(w)') = IF v = w THEN Cardinality(Sending(w)) - 1
                                               ELSE Cardinality(Sending(w))
    BY <2>1, <2>2, SendingCount
  <2>4. leaked'[w] = (IF v = w THEN leaked[w] + 1 ELSE leaked[w]) /\ inflight' = inflight
    BY <1>5, <2>1 DEF Leaving, Timeout, Drop, Abandon, TypeOK
  <2>5. inflight[w] = Cardinality(Sending(w)) + leaked[w] /\ leaked[w] \in Nat
    BY DEF LoadIsRequests, TypeOK
  <2>6. QED
    BY <2>3, <2>4, <2>5
<1>6. ASSUME NEW c \in Calls, ~At(c, "send"),
             Passing(c) \/ Turning(c) \/ Resting(c) \/ Leaving(c)
      PROVE  LoadIsRequests'
  <2>1. PICK loc \in Locations \ {"send"} : pc' = [pc EXCEPT ![c] = loc]
    BY <1>6 DEF Passing, ReadHealthy, ReadLoad, CompareLoad, Turning, Pick, BeginLoads,
                BeginLeast, PickFails, Resting, QuicAnswers, BodyRead, BodyFails, Leaving,
                Timeout, Drop, AttemptFails, Locations, TypeOK
  <2>2. worker' = [worker EXCEPT ![c] = worker[c]] /\ UNCHANGED <<inflight, leaked>>
    BY <1>6 DEF Passing, ReadHealthy, ReadLoad, CompareLoad, Turning, Pick, BeginLoads,
                BeginLeast, PickFails, Resting, QuicAnswers, BodyRead, BodyFails, Leaving,
                Timeout, Drop, Abandon, TypeOK
  <2>3. QED
    BY <1>6, <2>1, <2>2, CountersKept
<1>7. CASE UNCHANGED <<pc, worker, inflight, leaked>>
  BY <1>7 DEF LoadIsRequests, Sending
<1>8. QED
  <2>1. ASSUME NEW c \in Calls,
               Passing(c) \/ Turning(c) \/ Choosing1(c) \/ QuicFails(c)
                 \/ Resting(c) \/ Counting(c) \/ Leaving(c)
        PROVE  LoadIsRequests'
    <3>1. CASE At(c, "send")
      <4>1. Counting(c) \/ Leaving(c)
        BY <2>1, <3>1 DEF Passing, ReadHealthy, ReadLoad, CompareLoad, Turning, Pick,
                          BeginLoads, BeginLeast, PickFails, Choosing1, PickAny, PickLeast,
                          QuicFails, Resting, QuicAnswers, BodyRead, BodyFails
      <4>2. QED
        BY <1>4, <1>5, <3>1, <4>1
    <3>2. CASE ~At(c, "send")
      BY <1>2, <1>3, <1>4, <1>6, <2>1, <3>2 DEF Choosing1
    <3>3. QED
      BY <3>1, <3>2
  <2>2. QED
    BY <1>7, <2>1 DEF Next, vars, CheckHealth, PickStep, CallStep, Passing, Turning,
                      Choosing1, Resting, Counting, Leaving

LEMMA InitLoads == Init => LoadIsRequests
<1> SUFFICES ASSUME Init PROVE LoadIsRequests
  OBVIOUS
<1>1. \A w \in Workers : Sending(w) = {}
  BY DEF Init, Sending
<1>2. QED
  BY <1>1, FS_EmptySet DEF Init, LoadIsRequests

\* Types and counters are inductive together: no counter that is taken back is
\* zero.
THEOREM CountersInductive == Spec => [](Shape /\ LoadIsRequests)
<1>1. Init => Shape /\ LoadIsRequests
  BY InitShape, InitLoads
<1>2. Shape /\ LoadIsRequests /\ [Next]_vars => (Shape /\ LoadIsRequests)'
  BY CounterPositive, NextShape, NextLoads
<1>3. QED
  BY <1>1, <1>2, PTL DEF Spec

\* Variables stay within their types; no load counter goes below zero.
THEOREM TypeCorrect == Spec => []TypeOK
<1>1. Shape => TypeOK
  BY DEF Shape
<1>2. QED
  BY <1>1, CountersInductive, PTL

\* A load counter is the number of requests in hand plus what was left behind.
THEOREM LoadsExact == Spec => []LoadIsRequests
BY CountersInductive, PTL
-----------------------------------------------------------------------------
(* What pick knows                                                         *)

\* A step of c that changes no counter and nothing of the choice of others.
Quiet(c) == /\ inflight' = inflight /\ stirred' \in {stirred, stirred \ {c}}
            /\ \A d \in Calls \ {c} : UNCHANGED <<pc[d], left[d], found[d], low[d], least[d]>>

\* It keeps what the others know.
LEMMA OthersUnstirred ==
    ASSUME Unstirred, Fresh, NEW c \in Calls, Quiet(c),
           c \notin stirred' =>
              /\ pc'[c] = "loads" => MinSoFar(c)'
              /\ pc'[c] = "least" => LeastSoFar(c)'
              /\ pc'[c] # "panicked",
           /\ pc'[c] \notin {"loads", "least", "panicked"} =>
                 c \notin stirred' /\ low'[c] = -1
           /\ pc'[c] \notin {"least", "panicked"} => least'[c] = {}
    PROVE  Unstirred' /\ Fresh'
BY DEF Unstirred, Fresh, Quiet, MinSoFar, LeastSoFar, Looked

\* A step of c that changes a counter leaves no one choosing unstirred.
LEMMA AllStirred ==
    ASSUME Unstirred, Fresh, NEW c \in Calls, Stir(c),
           \A d \in Calls \ {c} : UNCHANGED <<pc[d], left[d], found[d], low[d], least[d]>>,
           pc'[c] \notin {"loads", "least", "panicked"}, low'[c] = -1, least'[c] = {}
    PROVE  Unstirred' /\ Fresh'
BY DEF Unstirred, Fresh, Stir, Choosing

\* Every action keeps what pick knows.
LEMMA NextUnstirred == Shape /\ Unstirred /\ Fresh /\ [Next]_vars => Unstirred' /\ Fresh'
<1> SUFFICES ASSUME Shape, Unstirred, Fresh, [Next]_vars PROVE Unstirred' /\ Fresh'
  OBVIOUS
<1> USE DEF Shape, TypeOK, Passes
<1>1. ASSUME NEW c \in Calls, NEW w \in Workers, ReadHealthy(c, w) PROVE Unstirred' /\ Fresh'
  BY <1>1, OthersUnstirred DEF ReadHealthy, Look, Quiet, Fresh
<1>2. ASSUME NEW c \in Calls, Turning(c) PROVE Unstirred' /\ Fresh'
  <2>1. CASE Pick(c)
    BY <2>1, OthersUnstirred DEF Pick, Quiet, Fresh
  <2>2. CASE BeginLoads(c)
    <3>1. low'[c] = -1 /\ pc'[c] = "loads" /\ left'[c] = found[c] /\ found'[c] = found[c]
      BY <2>2 DEF BeginLoads, Fresh
    <3>2. MinSoFar(c)'
      BY <3>1 DEF MinSoFar, Looked
    <3>3. QED
      BY <2>2, <3>1, <3>2, OthersUnstirred DEF BeginLoads, Quiet, Fresh
  \* The first pass is over: low is the minimum.
  <2>3. CASE BeginLeast(c)
    <3>1. /\ pc'[c] = "least" /\ left'[c] = found[c] /\ UNCHANGED <<found, low, least, inflight>>
          /\ least[c] = {} /\ left[c] = {} /\ found[c] # {} /\ At(c, "loads")
      BY <2>3 DEF BeginLeast, Fresh
    <3>2. c \notin stirred => LeastSoFar(c)'
      BY <3>1 DEF Unstirred, MinSoFar, LeastSoFar, Looked
    <3>3. QED
      BY <2>3, <3>1, <3>2, OthersUnstirred DEF BeginLeast, Quiet
  \* The second pass found nothing: impossible unless a counter changed.
  <2>4. CASE PickFails(c)
    <3>1. c \in stirred
      BY <2>4 DEF PickFails, Unstirred, LeastSoFar, Looked
    <3>2. QED
      BY <2>4, <3>1, OthersUnstirred DEF PickFails, Quiet
  <2>5. QED
    BY <1>2, <2>1, <2>2, <2>3, <2>4 DEF Turning
<1>3. ASSUME NEW c \in Calls, NEW w \in Workers, ReadLoad(c, w) PROVE Unstirred' /\ Fresh'
  <2>1. /\ At(c, "loads") /\ pc' = pc /\ UNCHANGED <<found, inflight, stirred, least>>
        /\ w \in left[c] /\ left'[c] = left[c] \ {w} /\ w \in found[c]
        /\ low'[c] = IF low[c] = -1 \/ inflight[w] < low[c] THEN inflight[w] ELSE low[c]
    BY <1>3 DEF ReadLoad, Look, Looks
  <2>2. Looked(c)' = Looked(c) \cup {w} /\ w \in Workers
    BY <2>1 DEF Looked
  <2>3. c \notin stirred => MinSoFar(c)'
    <3> SUFFICES ASSUME c \notin stirred PROVE MinSoFar(c)'
      OBVIOUS
    <3>1. MinSoFar(c)
      BY <2>1 DEF Unstirred
    <3>2. inflight[w] \in Nat /\ \A v \in Looked(c) : inflight[v] \in Nat
      BY <2>2 DEF Looked
    <3>3. QED
      BY <2>1, <2>2, <3>1, <3>2 DEF MinSoFar
  <2>4. least'[c] = {}
    BY <2>1 DEF Fresh
  <2>5. Quiet(c)
    BY <1>3 DEF ReadLoad, Look, Quiet
  <2>6. QED
    BY <2>1, <2>3, <2>4, <2>5, OthersUnstirred
<1>4. ASSUME NEW c \in Calls, NEW w \in Workers, CompareLoad(c, w) PROVE Unstirred' /\ Fresh'
  <2>1. /\ At(c, "least") /\ pc' = pc /\ UNCHANGED <<found, inflight, stirred, low>>
        /\ w \in left[c] /\ left'[c] = left[c] \ {w} /\ w \in found[c]
        /\ least'[c] = IF inflight[w] = low[c] THEN least[c] \cup {w} ELSE least[c]
    BY <1>4 DEF CompareLoad, Look, Looks
  <2>2. Looked(c)' = Looked(c) \cup {w}
    BY <2>1 DEF Looked
  <2>3. c \notin stirred => LeastSoFar(c)'
    BY <2>1, <2>2 DEF Unstirred, LeastSoFar
  <2>4. Quiet(c)
    BY <1>4 DEF CompareLoad, Look, Quiet
  <2>5. QED
    BY <2>1, <2>3, <2>4, OthersUnstirred
<1>5. ASSUME NEW c \in Calls, Choosing1(c) PROVE Unstirred' /\ Fresh'
  <2>1. PICK v \in Workers : Given(c, v)
    BY <1>5 DEF Choosing1, PickAny, PickLeast
  <2>2. /\ low'[c] = -1 /\ least'[c] = {} /\ pc'[c] \notin {"loads", "least", "panicked"}
        /\ \A d \in Calls \ {c} : UNCHANGED <<pc[d], left[d], found[d], low[d], least[d]>>
    BY <2>1 DEF Given, Dispatch
  <2>3. CASE Stir(c)
    BY <2>2, <2>3, AllStirred
  <2>4. CASE inflight' = inflight /\ stirred' = stirred \ {c}
    BY <2>2, <2>4, OthersUnstirred DEF Quiet
  <2>5. QED
    BY <2>1, <2>3, <2>4 DEF Given, Dispatch
<1>6. ASSUME NEW c \in Calls, QuicFails(c) \/ Counting(c) PROVE Unstirred' /\ Fresh'
  <2>1. Stir(c) /\ pc[c] \in {"quic", "send"} /\ UNCHANGED choice
    BY <1>6 DEF QuicFails, Dispatch, Counting, Answered, Refused, Uncount
  <2>2. /\ pc'[c] \notin {"loads", "least", "panicked"}
        /\ \A d \in Calls \ {c} : pc'[d] = pc[d]
    BY <1>6 DEF QuicFails, Dispatch, Counting, Answered, Refused, AttemptFails
  <2>3. low'[c] = -1 /\ least'[c] = {}
    BY <2>1 DEF Fresh
  <2>4. QED
    BY <2>1, <2>2, <2>3, AllStirred
<1>7. ASSUME NEW c \in Calls, Resting(c) \/ Leaving(c) PROVE Unstirred' /\ Fresh'
  <2>1. /\ UNCHANGED <<inflight, stirred, left, found, low, least>>
        /\ pc[c] \in {"quic", "send", "body", "pause"}
    BY <1>7 DEF Resting, QuicAnswers, BodyRead, BodyFails, Leaving, Timeout, Drop, Abandon
  <2>2. /\ pc'[c] \notin {"loads", "least", "panicked"}
        /\ \A d \in Calls \ {c} : pc'[d] = pc[d]
    BY <1>7 DEF Resting, QuicAnswers, BodyRead, BodyFails, Leaving, Timeout, Drop, AttemptFails
  <2>3. Quiet(c)
    BY <2>1, <2>2 DEF Quiet
  <2>4. QED
    BY <2>1, <2>2, <2>3, OthersUnstirred DEF Fresh
<1>8. CASE UNCHANGED <<pc, inflight, stirred, left, found, low, least>>
  BY <1>8 DEF Unstirred, Fresh, MinSoFar, LeastSoFar, Looked
<1>9. QED
  BY <1>1, <1>2, <1>3, <1>4, <1>5, <1>6, <1>7, <1>8
     DEF Next, vars, CheckHealth, PickStep, CallStep, Turning, Choosing1, Resting, Counting, Leaving

\* What pick knows holds in every reachable state.
THEOREM ChoiceInductive == Spec => [](Shape /\ Unstirred /\ Fresh)
<1>1. Init => Unstirred /\ Fresh
  BY DEF Init, Unstirred, Fresh
<1>2. QED
  BY <1>1, NextUnstirred, CountersInductive, PTL DEF Spec

\* pick panics only when a counter changed between its two passes.
THEOREM PanicsOnlyByRace == Spec => []PanicOnlyByRace
<1>1. Unstirred => PanicOnlyByRace
  BY DEF Unstirred, PanicOnlyByRace
<1>2. QED
  BY <1>1, ChoiceInductive, PTL

\* A choice by load that saw no counter change gives a least loaded worker,
\* and does not panic.
THEOREM ChoosesLeastLoaded == Spec => [][LeastLoadedUnlessRace]_vars
<1>1. Shape /\ Unstirred /\ [Next]_vars => LeastLoadedUnlessRace
  <2> SUFFICES ASSUME Shape, Unstirred, [Next]_vars, NEW c \in Calls \ stirred,
                      At(c, "least"), ~At(c, "least")'
               PROVE  /\ ~At(c, "panicked")'
                      /\ \A w \in found[c] : inflight[worker'[c]] <= inflight[w]
    BY DEF LeastLoadedUnlessRace
  <2>1. LeastSoFar(c)
    BY DEF Unstirred
  <2>2. ~PickFails(c)
    BY <2>1 DEF PickFails, LeastSoFar, Looked
  <2>3. PickLeast(c)
    BY <2>2 DEF Next, vars, PickStep, CallStep, Pick, ReadHealthy, ReadLoad, CompareLoad,
                PickAny, BeginLoads, BeginLeast, PickLeast, PickFails, QuicAnswers, QuicFails,
                Answered, Refused, Timeout, BodyRead, BodyFails, Drop, Dispatch, AttemptFails,
                Given, CheckHealth, Shape, TypeOK
  <2>4. worker'[c] \in least[c]
    BY <2>3 DEF PickLeast, Given, Shape, TypeOK
  <2>5. ~At(c, "panicked")'
    BY <2>3 DEF PickLeast, Given, Dispatch, At, Shape, TypeOK
  <2>6. QED
    BY <2>1, <2>4, <2>5 DEF LeastSoFar
<1>2. QED
  BY <1>1, ChoiceInductive, PTL DEF Spec

\* What the counters say, and that a choice follows them.
THEOREM LoadIsBalanced == Spec => LoadBalanced
BY LoadsExact, ChoosesLeastLoaded, PTL DEF LoadBalanced
=============================================================================
