----------------------------- MODULE Handshake ------------------------------
(***************************************************************************)
(* How the API gets an encrypted session with a worker that is not on the  *)
(* same host: WorkerPool::new dials it once, QuicWorkerConn::connect asks  *)
(* for the attestation and shakes hands (sonotxt-api/src/services/         *)
(* quic_pool.rs), and the worker (sonotxt-worker/src/quic.rs) serves the   *)
(* connection with one task that accepts streams and one task per stream.  *)
(*                                                                         *)
(* The session is put into the worker's table by the task of a stream and  *)
(* taken out by the task of the connection; what joins them is a slot that *)
(* the former fills after it released the table.                           *)
(***************************************************************************)
EXTENDS Integers

CONSTANTS Connections, \* dialled by the starts of API processes, each once
          NoBundle,    \* no attestation yet
          MaxBoots,    \* bound on restarts of the worker
          MaxBreaks    \* bound on connections that end while the worker runs

ASSUME HandshakeAssumption == MaxBoots \in Nat /\ MaxBreaks \in Nat

VARIABLES dial,        \* the statement of connect, or "stored" in Worker.quic
          bundle,      \* the attestation received
          connection,  \* of a connection: "none", "up" or "down"
          streamTask,  \* the task of its last stream at the worker
          serving,     \* the task of the connection
          slot,        \* its session_id is Some
          boot,        \* the worker process, and so its static key
          noiseTable,  \* NoiseServer.sessions, by the connection that made them
          breaks,
          cutShort     \* connections that ended during a handshake (history)

dialVars == <<dial, bundle>>
workerVars == <<streamTask, serving, slot, boot, noiseTable, cutShort>>
handshakeVars == <<dialVars, connection, breaks, workerVars>>

Dialling == {"dialled", "attesting", "greeting", "complete"}
Dials == {"idle", "stored", "failed"} \cup Dialling
Tasks == {"none", "attest", "handshake", "read", "inserted", "recorded", "answered", "gone"}
Servings == {"none", "accepting", "removing", "done"}

HandshakeInit ==
    /\ dial = [c \in Connections |-> "idle"]
    /\ bundle = [c \in Connections |-> NoBundle]
    /\ connection = [c \in Connections |-> "none"]
    /\ streamTask = [c \in Connections |-> "none"]
    /\ serving = [c \in Connections |-> "none"]
    /\ slot = [c \in Connections |-> FALSE]
    /\ boot = 0 /\ noiseTable = {} /\ breaks = 0 /\ cutShort = {}

\* generate_attestation: the hash of the quote and the key is named by the key.
Attestation(key) == [key |-> key, binding |-> key, tee |-> "Insecure"]

\* verify_attestation
AttestationHolds(b) == b.binding = b.key /\ b.tee = "Insecure"

Up(c) == connection[c] = "up"
-----------------------------------------------------------------------------
(* The API                                                                 *)

\* endpoint.connect; the worker accepts and spawns handle_connection.
Dial(c) == /\ dial[c] = "idle"
           /\ dial' = [dial EXCEPT ![c] = "dialled"]
           /\ connection' = [connection EXCEPT ![c] = "up"]
           /\ serving' = [serving EXCEPT ![c] = "accepting"]
           /\ UNCHANGED <<bundle, breaks, streamTask, slot, boot, noiseTable, cutShort>>

\* open_bi and write_message; the worker spawns handle_stream.
SendMessage(c, from, to, msg) ==
    /\ dial[c] = from /\ Up(c)
    /\ dial' = [dial EXCEPT ![c] = to]
    /\ streamTask' = [streamTask EXCEPT ![c] = msg]
    /\ UNCHANGED <<connection, breaks, serving, slot, boot, noiseTable, cutShort>>

RequestAttestation(c) == SendMessage(c, "dialled", "attesting", "attest") /\ UNCHANGED bundle

\* verify_attestation, initiate_handshake with the attested key, and
\* send_noise_handshake.
Greet(c) == /\ streamTask[c] = "answered" /\ AttestationHolds(bundle[c])
            /\ SendMessage(c, "attesting", "greeting", "handshake")
            /\ UNCHANGED bundle

\* complete_handshake
Complete(c) == /\ dial[c] = "greeting" /\ streamTask[c] = "answered"
               /\ dial' = [dial EXCEPT ![c] = "complete"]
               /\ UNCHANGED <<bundle, connection, breaks, workerVars>>

\* *w.quic.write().await = Some(conn), whatever became of the connection.
Store(c) == /\ dial[c] = "complete"
            /\ dial' = [dial EXCEPT ![c] = "stored"]
            /\ UNCHANGED <<bundle, connection, breaks, workerVars>>

\* An error of connect: the pool uses HTTP from now on.
ConnectFails(c) == /\ dial[c] \in Dialling \ {"complete"} /\ connection[c] = "down"
                   /\ dial' = [dial EXCEPT ![c] = "failed"]
                   /\ UNCHANGED <<bundle, connection, breaks, workerVars>>
-----------------------------------------------------------------------------
(* The worker: handle_stream                                               *)

Task(c, from, to) == /\ streamTask[c] = from
                     /\ streamTask' = [streamTask EXCEPT ![c] = to]

Attest(c) == /\ Up(c) /\ Task(c, "attest", "answered")
             /\ bundle' = [bundle EXCEPT ![c] = Attestation(boot)]
             /\ UNCHANGED <<dial, connection, breaks, serving, slot, boot, noiseTable, cutShort>>

\* read_message: what has arrived can be read after the connection ended.
ReadHandshake(c) == /\ Task(c, "handshake", "read")
                    /\ UNCHANGED <<dialVars, connection, breaks, serving, slot, boot, noiseTable, cutShort>>

\* process_handshake under the write lock of the table.
ProcessHandshake(c) == /\ Task(c, "read", "inserted")
                       /\ bundle[c].key = boot
                       /\ noiseTable' = noiseTable \cup {c}
                       /\ UNCHANGED <<dialVars, connection, breaks, serving, slot, boot, cutShort>>

\* Mutant: the id of the session is only told to the client.
FillSlot_Forgotten(c) ==
    /\ Task(c, "inserted", "recorded")
    /\ UNCHANGED <<dialVars, connection, breaks, serving, slot, boot, noiseTable, cutShort>>

\* *session_id.write().await = Some(sid)
FillSlot(c) == /\ Task(c, "inserted", "recorded")
               /\ slot' = [slot EXCEPT ![c] = TRUE]
               /\ UNCHANGED <<dialVars, connection, breaks, serving, boot, noiseTable, cutShort>>

Respond(c) == /\ Up(c) /\ Task(c, "recorded", "answered")
              /\ UNCHANGED <<dialVars, connection, breaks, serving, slot, boot, noiseTable, cutShort>>

\* read_message or write_message fails.
StreamFails(c) == /\ connection[c] = "down"
                  /\ \E from \in {"attest", "handshake", "recorded"} : Task(c, from, "gone")
                  /\ UNCHANGED <<dialVars, connection, breaks, serving, slot, boot, noiseTable, cutShort>>

(* The worker: handle_connection                                           *)

\* accept_bi fails; the slot is read once.
LeaveLoop(c) ==
    /\ serving[c] = "accepting" /\ connection[c] = "down"
    /\ serving' = [serving EXCEPT ![c] = IF slot[c] THEN "removing" ELSE "done"]
    /\ cutShort' = cutShort \cup {d \in {c} : streamTask[c] \in {"handshake", "read", "inserted"}}
    /\ UNCHANGED <<dialVars, connection, breaks, streamTask, slot, boot, noiseTable>>

RemoveSession(c) == /\ serving[c] = "removing"
                    /\ serving' = [serving EXCEPT ![c] = "done"]
                    /\ noiseTable' = noiseTable \ {c}
                    /\ UNCHANGED <<dialVars, connection, breaks, streamTask, slot, boot, cutShort>>
-----------------------------------------------------------------------------
\* Thirty seconds without a packet, or the API process ends.
Break(c) == /\ Up(c) /\ breaks < MaxBreaks
            /\ connection' = [connection EXCEPT ![c] = "down"]
            /\ breaks' = breaks + 1
            /\ UNCHANGED <<dialVars, workerVars>>

\* The worker is started again: NoiseServer::new draws another key.
RestartWorker ==
    /\ boot < MaxBoots
    /\ boot' = boot + 1
    /\ noiseTable' = {}
    /\ connection' = [c \in Connections |-> IF Up(c) THEN "down" ELSE connection[c]]
    /\ streamTask' = [c \in Connections |-> IF streamTask[c] \in {"none", "answered"}
                                          THEN streamTask[c] ELSE "gone"]
    /\ serving' = [c \in Connections |-> IF serving[c] = "none" THEN "none" ELSE "done"]
    /\ UNCHANGED <<dialVars, breaks, slot, cutShort>>

HandshakeNext ==
    \/ RestartWorker
    \/ \E c \in Connections :
           \/ Dial(c) \/ RequestAttestation(c) \/ Greet(c) \/ Complete(c) \/ Store(c)
           \/ ConnectFails(c)
           \/ Attest(c) \/ ReadHandshake(c) \/ ProcessHandshake(c) \/ FillSlot(c) \/ Respond(c)
           \/ StreamFails(c)
           \/ LeaveLoop(c) \/ RemoveSession(c) \/ Break(c)

HandshakeSpec == HandshakeInit /\ [][HandshakeNext]_handshakeVars
-----------------------------------------------------------------------------
(* Type correctness.                                                       *)
HandshakeTypeOK ==
    /\ dial \in [Connections -> Dials]
    /\ bundle \in [Connections -> {Attestation(k) : k \in 0..MaxBoots} \cup {NoBundle}]
    /\ connection \in [Connections -> {"none", "up", "down"}]
    /\ streamTask \in [Connections -> Tasks]
    /\ serving \in [Connections -> Servings]
    /\ slot \in [Connections -> BOOLEAN]
    /\ boot \in 0..MaxBoots
    /\ noiseTable \subseteq Connections /\ cutShort \subseteq Connections
    /\ breaks \in 0..MaxBreaks

(* A stored connection that is up has its session at the worker, under the *)
(* key that was attested, and the worker's tasks find it: no request of it *)
(* is answered "no session".  And the worker forgets the session when the  *)
(* connection ends, unless it ended while its handshake was in hand.       *)
SessionPaired ==
    /\ \A c \in Connections :
           dial[c] = "stored" /\ Up(c) => c \in noiseTable /\ slot[c] /\ bundle[c].key = boot
    /\ \A c \in noiseTable : serving[c] = "done" => c \in cutShort
=============================================================================
