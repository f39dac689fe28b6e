------------------------------ MODULE Requests ------------------------------
(***************************************************************************)
(* Requests in progress, as the modules of the endpoints use them: a       *)
(* handler is a future that runs from one await to the next, and what it   *)
(* has read before an await may have changed after it.  The future can be  *)
(* dropped at every await (TimeoutLayer in sonotxt-api/src/lib.rs, a       *)
(* client that leaves, a crash), and every statement can fail; both end    *)
(* the request where it stands.                                            *)
(***************************************************************************)
EXTENDS Integers

CONSTANTS Handlers,   \* concurrent requests
          Nothing,    \* no local data
          MaxFaults   \* bound on dropped requests and failed statements

ASSUME RequestsAssumption == MaxFaults \in Nat

VARIABLES pc,         \* the statement each request runs next
          local,      \* what it keeps across awaits
          faults

requests == <<pc, local, faults>>

RequestsInit == /\ pc = [h \in Handlers |-> "idle"]
                /\ local = [h \in Handlers |-> Nothing]
                /\ faults = 0

At(h, loc) == pc[h] = loc

\* The requests that run one of the statements locs for x.
Running(locs, x) == {h \in Handlers : pc[h] \in locs /\ local[h] = x}

\* The request h is at loc from now on, and keeps data.
Moved(h, loc, data) == /\ pc' = [pc EXCEPT ![h] = loc]
                       /\ local' = [local EXCEPT ![h] = data]

Begin(h, loc, data) == At(h, "idle") /\ Moved(h, loc, data) /\ UNCHANGED faults

Keep(h, loc, data) == Moved(h, loc, data) /\ UNCHANGED faults

Goto(h, loc) == Keep(h, loc, local[h])

Leave(h) == Moved(h, "idle", Nothing)

End(h) == Leave(h) /\ UNCHANGED faults

Fault == faults < MaxFaults /\ faults' = faults + 1

Dropped(h) == ~At(h, "idle") /\ Fault /\ Leave(h)

\* What every module keeps of pc and local: locations and data of its own.
RequestsTypeOK(locs, data) ==
    /\ pc \in [Handlers -> locs \cup {"idle"}]
    /\ local \in [Handlers -> data \cup {Nothing}]
    /\ faults \in 0..MaxFaults
    /\ \A h \in Handlers : At(h, "idle") \/ local[h] \in data
=============================================================================
