---------------------------- MODULE NoiseSession ----------------------------
(***************************************************************************)
(* One encrypted session between an API process and a worker: the requests *)
(* of QuicWorkerConn (sonotxt-api/src/services/quic_pool.rs), the streams  *)
(* of the worker (sonotxt-worker/src/quic.rs) and the two pairs of nonce   *)
(* counters of the Noise transport (sonotxt-core/src/noise.rs).            *)
(*                                                                         *)
(* A message is encrypted under a lock and written later, on a stream of   *)
(* its own; the other end takes streams up in any order.  Decryption works *)
(* only for the message whose nonce is next, and a failure does not advance*)
(* the counter.  The model starts with the session established; there is   *)
(* no other one: the pool connects once.                                   *)
(***************************************************************************)
EXTENDS Integers

CONSTANTS Requests,    \* the requests of this instance, each made once
          Kind,        \* asr, or notify for JobNotify
          Chunks,      \* chunks, and so nonces, of the message
          ReplyChunks  \* and of the reply

ASSUME NoiseSessionAssumption ==
    /\ Kind \in [Requests -> {"asr", "notify"}]
    /\ Chunks \in [Requests -> Nat \ {0}]
    /\ ReplyChunks \in [Requests -> Nat \ {0}]

VARIABLES open,      \* the QUIC connection is up
          sent,      \* sending nonce of the API
          expected,  \* receiving nonce of the worker
          replied,   \* sending nonce of the worker
          awaited,   \* receiving nonce of the API
          nonce,     \* first nonce of each message, -1 before it is encrypted
          reply,     \* first nonce of each reply
          pc,        \* where each request is
          stream,    \* where its stream is at the worker
          crowded    \* requests that were in hand together with another one

vars == <<open, sent, expected, replied, awaited, nonce, reply, pc, stream, crowded>>
up == <<sent, expected, nonce>>
down == <<replied, awaited, reply>>

Init == /\ open = TRUE
        /\ sent = 0 /\ expected = 0 /\ replied = 0 /\ awaited = 0
        /\ nonce = [r \in Requests |-> -1]
        /\ reply = [r \in Requests |-> -1]
        /\ pc = [r \in Requests |-> "new"]
        /\ stream = [r \in Requests |-> "none"]
        /\ crowded = {}
-----------------------------------------------------------------------------
At(r, loc) == pc[r] = loc
Goto(r, loc) == pc' = [pc EXCEPT ![r] = loc]
Turn(r, state) == stream' = [stream EXCEPT ![r] = state]

InHand == {r \in Requests : pc[r] \in {"encrypted", "sent"}}

(* The API                                                                 *)

\* noise.write().await.encrypt(...), under the lock
Encrypt(r) == /\ At(r, "new")
              /\ Goto(r, "encrypted")
              /\ nonce' = [nonce EXCEPT ![r] = sent]
              /\ sent' = sent + Chunks[r]
              /\ crowded' = IF InHand = {} THEN crowded ELSE crowded \cup InHand \cup {r}
              /\ UNCHANGED <<open, expected, down, stream>>

\* open_bi, write_message, finish
Write(r) == /\ At(r, "encrypted")
            /\ open
            /\ Goto(r, "sent")
            /\ Turn(r, "wire")
            /\ UNCHANGED <<open, up, down, crowded>>

\* read_message, then noise.write().await.decrypt(...)
TakeReply(r) == /\ At(r, "sent")
                /\ stream[r] = "answered" /\ reply[r] = awaited
                /\ awaited' = awaited + ReplyChunks[r]
                /\ Goto(r, "ok")
                /\ UNCHANGED <<open, up, replied, reply, stream, crowded>>

\* The reply does not decrypt.
RefuseReply(r) == /\ At(r, "sent")
                  /\ stream[r] = "answered" /\ reply[r] # awaited
                  /\ Goto(r, "failed")
                  /\ UNCHANGED <<open, up, down, stream, crowded>>

\* The worker closed the stream without a message: read_message fails.
NoReply(r) == /\ At(r, "sent")
              /\ stream[r] = "closed"
              /\ Goto(r, "failed")
              /\ UNCHANGED <<open, up, down, stream, crowded>>

LinkFails(r) == /\ r \in InHand
                /\ ~open
                /\ Goto(r, "failed")
                /\ UNCHANGED <<open, up, down, stream, crowded>>

\* asr_timeout, or the handler is dropped.
Drop(r) == /\ r \in InHand
           /\ Goto(r, "dropped")
           /\ UNCHANGED <<open, up, down, stream, crowded>>
-----------------------------------------------------------------------------
(* The worker: handle_stream                                               *)

\* Mutant: a message may be ahead of the counter.
Understand_Ahead(r) == /\ stream[r] = "wire" /\ open
                       /\ Kind[r] = "asr" /\ nonce[r] >= expected
                       /\ expected' = nonce[r] + Chunks[r]
                       /\ Turn(r, "running")
                       /\ UNCHANGED <<open, sent, nonce, down, pc, crowded>>

\* Mutant: the first chunk alone is counted.
Understand_OneChunk(r) == /\ stream[r] = "wire" /\ open
                          /\ Kind[r] = "asr" /\ nonce[r] = expected
                          /\ expected' = expected + 1
                          /\ Turn(r, "running")
                          /\ UNCHANGED <<open, sent, nonce, down, pc, crowded>>

\* decrypt: every chunk takes one nonce.
Understand(r) == /\ stream[r] = "wire" /\ open
                 /\ Kind[r] = "asr" /\ nonce[r] = expected
                 /\ expected' = expected + Chunks[r]
                 /\ Turn(r, "running")
                 /\ UNCHANGED <<open, sent, nonce, down, pc, crowded>>

\* decrypt fails at the first chunk and ends the stream.
Refuse(r) == /\ stream[r] = "wire" /\ open
             /\ Kind[r] = "asr" /\ nonce[r] # expected
             /\ Turn(r, "closed")
             /\ UNCHANGED <<open, up, down, pc, crowded>>

\* Mutant: the stream is neither answered nor finished.
Ignore_Open(r) == /\ stream[r] = "wire" /\ open
                  /\ Kind[r] = "notify"
                  /\ UNCHANGED vars

\* "unexpected QUIC message type": there is no arm for JobNotify, nothing is
\* decrypted, the stream is finished.
Ignore(r) == /\ stream[r] = "wire" /\ open
             /\ Kind[r] = "notify"
             /\ Turn(r, "closed")
             /\ UNCHANGED <<open, up, down, pc, crowded>>

\* run_asr has returned; encrypt under the lock, write_message.
Answer(r) == /\ stream[r] = "running" /\ open
             /\ reply' = [reply EXCEPT ![r] = replied]
             /\ replied' = replied + ReplyChunks[r]
             /\ Turn(r, "answered")
             /\ UNCHANGED <<open, up, awaited, pc, crowded>>

\* The connection ends; no code connects again.
Disconnect == /\ open
              /\ open' = FALSE
              /\ UNCHANGED <<up, down, pc, stream, crowded>>
-----------------------------------------------------------------------------
Api(r) == Write(r) \/ TakeReply(r) \/ RefuseReply(r) \/ NoReply(r) \/ LinkFails(r)
Worker(r) == Understand(r) \/ Refuse(r) \/ Ignore(r) \/ Answer(r)

Next == \/ \E r \in Requests : Encrypt(r) \/ Api(r) \/ Drop(r) \/ Worker(r)
        \/ Disconnect

Spec == Init /\ [][Next]_vars

\* Tasks on both sides go on; speech recognition has a timeout of 30 s.
Fairness == \A r \in Requests : WF_vars(Api(r)) /\ WF_vars(Worker(r))

FairSpec == Spec /\ Fairness
-----------------------------------------------------------------------------
(* Properties                                                              *)

\* Variables stay within their types.
TypeOK == /\ open \in BOOLEAN
          /\ {sent, expected, replied, awaited} \subseteq Nat
          /\ nonce \in [Requests -> Nat \cup {-1}]
          /\ reply \in [Requests -> Nat \cup {-1}]
          /\ pc \in [Requests -> {"new", "encrypted", "sent", "ok", "failed", "dropped"}]
          /\ stream \in [Requests -> {"none", "wire", "running", "answered", "closed"}]
          /\ crowded \subseteq Requests

Encrypted == {r \in Requests : nonce[r] >= 0}
Understood == {r \in Requests : stream[r] \in {"running", "answered"}}
Answered == {r \in Requests : reply[r] >= 0}

\* The worker understands a message only after all that were encrypted before
\* it, in that order: no gap and no replay, whatever the streams do.
WorkerInOrder == \A r \in Understood, q \in Encrypted : nonce[q] < nonce[r] => q \in Understood

\* The API likewise takes replies only in the order the worker encrypted them.
ApiInOrder == \A r \in Requests, q \in Answered :
                  At(r, "ok") /\ reply[q] < reply[r] => At(q, "ok")

\* Neither end decrypts out of order, though streams overtake one another and
\* callers vanish between the lock of a nonce and the write of its message.
InOrder == WorkerInOrder /\ ApiInOrder

\* A request whose message still gets to the worker's decryption.
Coming(r) == Kind[r] = "asr" /\ (At(r, "encrypted") \/ stream[r] = "wire")

\* The next message the worker can understand will never be presented.
Stuck == \E q \in Encrypted : nonce[q] = expected /\ ~Coming(q)

\* From then on the worker understands nothing in this session.
StuckForGood == [][Stuck => Stuck' /\ UNCHANGED expected]_vars

\* What puts the counters out of step: a notification, a request dropped on the
\* way, or two requests at once.
Disturbs(q) == Kind[q] = "notify" \/ At(q, "dropped") \/ q \in crowded

\* A request fails on an open connection only if it, or one encrypted before
\* it, disturbs the session.
FailureHasCause ==
    \A r \in Requests : open /\ Kind[r] = "asr" /\ At(r, "failed") =>
        \E q \in Encrypted : nonce[q] <= nonce[r] /\ Disturbs(q)

\* A request that has been encrypted ends, with an answer, an error or dropped.
EncryptedEnds == \A r \in Requests :
    At(r, "encrypted") ~> pc[r] \in {"ok", "failed", "dropped"}

\* "Transport: QUIC + Noise_NK (primary), HTTP (fallback)": where nothing is
\* dropped and one request is made at a time, an open session answers.
QuietSessionAnswers ==
    \A r \in Requests : open /\ Kind[r] = "asr" /\ At(r, "failed") =>
        crowded # {} \/ \E q \in Requests : At(q, "dropped")
=============================================================================
