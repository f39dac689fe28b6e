---------------------------- MODULE Conversation ----------------------------
(***************************************************************************)
(* A streamed conversation (converse_stream in                             *)
(* sonotxt-api/src/routes/converse.rs): a task of its own reads the answer *)
(* of the language model as it comes, cuts it into sentences, has each one *)
(* spoken, and sends events through a bounded channel to the response that *)
(* the client reads.  The model, the speech workers and the client are     *)
(* external.  The stream from the model comes in chunks of any size.       *)
(***************************************************************************)
EXTENDS Integers, Sequences

CONSTANTS SentenceCount,   \* of the model's answer
          Capacity         \* of the channel: 32

ASSUME ConversationAssumption == SentenceCount \in Nat /\ Capacity \in Nat \ {0}

VARIABLES turn,        \* what the task does next
          wire,        \* bytes of the model's answer still to come
          buffer,      \* decoded text that is no full event yet
          speaking,    \* the event being spoken or sent
          channel,     \* events on their way to the client
          heard,       \* events the client has got
          client,      \* "listening" or "gone"
          split,       \* sentences with a character cut by a chunk (history)
          silent,      \* sentences that could not be spoken (history)
          broken,      \* the stream of the model broke off, or never began (history)
          panicked     \* the task ended by a panic (history)

speakerTask == <<turn, wire, buffer, speaking>>
response == <<channel, heard, client>>
mishaps == <<split, silent, broken, panicked>>
conversationVars == <<speakerTask, response, mishaps>>

SentenceIds == 1..SentenceCount
Turns == {"transcript", "connect", "read", "parse", "speak", "send", "done", "ended"}

(* On the wire a sentence is an event and an empty line: here a text of    *)
(* one character of two bytes, and two line feeds.                         *)
Symbol(i, p) == [of |-> i, part |-> p]
LineFeed == Symbol(0, "feed")
Replacement == Symbol(0, "replacement")
Symbols == [of : 0..SentenceCount, part : {"first", "second", "feed", "replacement"}]

Sentence(i) == <<Symbol(i, "first"), Symbol(i, "second")>>

WireByte(k) == LET i == (k - 1) \div 4 + 1 IN
              IF k % 4 = 1 THEN Symbol(i, "first")
              ELSE IF k % 4 = 2 THEN Symbol(i, "second") ELSE LineFeed

ModelAnswer == [k \in 1..4 * SentenceCount |-> WireByte(k)]

\* nth is not in the code: it counts the events cut from the stream.
Event(e, n, t) == [event |-> e, nth |-> n, text |-> t]

NothingSaid == /\ wire = <<>> /\ buffer = <<>>
               /\ speaking = Event("audio", 0, <<>>)
               /\ channel = <<>> /\ heard = <<>> /\ client = "listening"
               /\ split = {} /\ silent = {} /\ broken = FALSE
               /\ panicked = FALSE

ConversationInit == turn = "transcript" /\ NothingSaid
-----------------------------------------------------------------------------
\* tx.send waits for room, and does nothing once the response was dropped.
SendEvent(e) == \/ client = "gone" /\ UNCHANGED channel
                \/ /\ client = "listening" /\ Len(channel) < Capacity
                   /\ channel' = Append(channel, e)

SendTranscript == /\ turn = "transcript"
                  /\ SendEvent(Event("transcript", 0, <<>>))
                  /\ turn' = "connect"
                  /\ UNCHANGED <<wire, buffer, speaking, heard, client, mishaps>>

\* Mutant: an error of the model ends the task.
ConnectModel_Return ==
    /\ turn = "connect"
    /\ \/ turn' = "read" /\ wire' = ModelAnswer /\ UNCHANGED broken
       \/ turn' = "ended" /\ broken' = TRUE /\ UNCHANGED wire
    /\ UNCHANGED <<buffer, speaking, response, split, silent, panicked>>

\* A panic in the pool, which may choose among no workers (pick_from, see
\* WorkerPool), ends the task: tx is dropped without "done".
Panics == turn' = "ended" /\ panicked' = TRUE

\* llm_stream
ConnectModel ==
    /\ turn = "connect"
    /\ \/ turn' = "read" /\ wire' = ModelAnswer /\ UNCHANGED <<broken, panicked>>
       \/ turn' = "done" /\ broken' = TRUE /\ UNCHANGED <<wire, panicked>>
       \/ Panics /\ UNCHANGED <<wire, broken>>
    /\ UNCHANGED <<buffer, speaking, response, split, silent>>

(* from_utf8_lossy, chunk by chunk: a byte whose character is not complete *)
(* in its own chunk is replaced.                                           *)
Decoded(chunk) ==
    [k \in 1..Len(chunk) |->
       IF \/ chunk[k].part = "first" /\ k = Len(chunk)
          \/ chunk[k].part = "second" /\ k = 1
       THEN Replacement ELSE chunk[k]]

ReadChunk(n) ==
    /\ turn = "read" /\ n <= Len(wire)
    /\ LET chunk == SubSeq(wire, 1, n) IN
       /\ buffer' = buffer \o Decoded(chunk)
       /\ split' = split \cup {i \in SentenceIds : chunk[n] = Symbol(i, "first")}
    /\ wire' = SubSeq(wire, n + 1, Len(wire))
    /\ turn' = "parse"
    /\ UNCHANGED <<speaking, response, silent, broken, panicked>>

StreamEnds == /\ turn = "read" /\ wire = <<>>
              /\ turn' = "done"
              /\ UNCHANGED <<wire, buffer, speaking, response, mishaps>>

\* The timeout of the HTTP client included.
StreamBreaks == /\ turn = "read"
                /\ turn' = "done" /\ broken' = TRUE
                /\ UNCHANGED <<wire, buffer, speaking, response, split, silent, panicked>>

EmptyLineAt(k) == k < Len(buffer) /\ buffer[k] = LineFeed /\ buffer[k + 1] = LineFeed
EventEnds(k) == EmptyLineAt(k) /\ \A j \in 1..k - 1 : ~EmptyLineAt(j)

\* while let Some(pos) = buffer.find("\n\n")
CutEvent ==
    /\ turn = "parse"
    /\ \/ \E k \in 1..Len(buffer) :
            /\ EventEnds(k)
            /\ speaking' = Event("audio", speaking.nth + 1, SubSeq(buffer, 1, k - 1))
            /\ buffer' = SubSeq(buffer, k + 2, Len(buffer))
            /\ turn' = "speak"
       \/ /\ \A k \in 1..Len(buffer) : ~EmptyLineAt(k)
          /\ turn' = "read"
          /\ UNCHANGED <<speaking, buffer>>
    /\ UNCHANGED <<wire, response, mishaps>>

\* A sentence that cannot be spoken is left out.
Speak == /\ turn = "speak"
         /\ \/ turn' = "send" /\ UNCHANGED <<silent, panicked>>
            \/ /\ silent' = silent \cup {speaking.nth}
               /\ Panics \/ (turn' = "parse" /\ UNCHANGED panicked)
         /\ UNCHANGED <<wire, buffer, speaking, response, split, broken>>

SendAudio == /\ turn = "send"
             /\ SendEvent(speaking)
             /\ turn' = "parse"
             /\ UNCHANGED <<wire, buffer, speaking, heard, client, mishaps>>

SendDone == /\ turn = "done"
            /\ SendEvent(Event("done", 0, <<>>))
            /\ turn' = "ended"
            /\ UNCHANGED <<wire, buffer, speaking, heard, client, mishaps>>
-----------------------------------------------------------------------------
Hear == /\ client = "listening" /\ channel # <<>>
        /\ heard' = Append(heard, Head(channel))
        /\ channel' = Tail(channel)
        /\ UNCHANGED <<speakerTask, client, mishaps>>

\* The response is dropped and the channel with it; the task goes on.
HangUp == /\ client = "listening"
          /\ client' = "gone"
          /\ channel' = <<>>
          /\ UNCHANGED <<speakerTask, heard, mishaps>>

TaskStep == \/ SendTranscript \/ ConnectModel \/ (\E n \in 1..Len(wire) : ReadChunk(n))
            \/ StreamEnds \/ StreamBreaks \/ CutEvent \/ Speak \/ SendAudio \/ SendDone

ConversationNext == TaskStep \/ Hear \/ HangUp

(* The task is polled, a call of a worker returns (each has a timeout, as  *)
(* has the stream), and a client that listens reads.                       *)
ConversationFairness == WF_conversationVars(TaskStep) /\ WF_conversationVars(Hear)

ConversationSpec == ConversationInit /\ [][ConversationNext]_conversationVars
                    /\ ConversationFairness
-----------------------------------------------------------------------------
(* Type correctness.                                                       *)
Events == [event : {"transcript", "audio", "done"}, nth : Nat, text : Seq(Symbols)]

ConversationTypeOK ==
    /\ turn \in Turns
    /\ wire \in Seq(Symbols) /\ buffer \in Seq(Symbols)
    /\ speaking \in Events
    /\ channel \in Seq(Events) /\ heard \in Seq(Events)
    /\ client \in {"listening", "gone"}
    /\ split \subseteq SentenceIds /\ silent \subseteq Nat
    /\ broken \in BOOLEAN /\ panicked \in BOOLEAN

\* What the client has got or is about to get.
Said == heard \o channel
IsAudio(k) == Said[k].event = "audio"

(* However the model's answer is cut into chunks, and however fast the     *)
(* client reads: the transcript comes first and "done" last, the sentences *)
(* in between in their order and each once; a sentence is spoken as the    *)
(* model wrote it unless a chunk ended within one of its characters; and   *)
(* after "done" none is missing that could be spoken, unless the stream of *)
(* the model broke off.                                                    *)
StreamFaithful ==
    /\ Said # <<>> => Said[1].event = "transcript"
    /\ \A k \in 2..Len(Said) : IsAudio(k) \/ (Said[k].event = "done" /\ k = Len(Said))
    /\ \A k \in 2..Len(Said) : IsAudio(k) =>
         /\ Said[k].nth \in split \/ Said[k].text = Sentence(Said[k].nth)
         /\ \A j \in 2..k - 1 : Said[j].nth < Said[k].nth
    /\ (\E k \in 2..Len(Said) : Said[k].event = "done") =>
         broken \/ \A i \in SentenceIds \ silent : \E k \in 2..Len(Said) : Said[k].nth = i

(* The response ends for a client that goes on listening, even though the  *)
(* task waits for room in the channel and the model or a worker may fail:  *)
(* with "done", or, if the task panicked, with the last event it had sent. *)
ListenerServed ==
    heard # <<>> ~> \/ client = "gone"
                    \/ \E k \in 1..Len(heard) : heard[k].event = "done"
                    \/ panicked /\ channel = <<>>

(* What a listener gets, and that it gets it.                              *)
ConversationServed == []StreamFaithful /\ ListenerServed
=============================================================================
