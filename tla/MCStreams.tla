----------------------------- MODULE MCStreams -----------------------------
(* Instance for TLC of the modules whose tasks talk over streams: the      *)
(* encrypted session of MCNoiseSession, the handshakes before it, and a    *)
(* conversation.  Each behaviour is one of one part, which StreamsInit     *)
(* chooses, and the others stand still.                                    *)
EXTENDS MCNoiseSession, Handshake, Conversation

VARIABLE part

StreamsInit == /\ part \in {"session", "handshake", "conversation"}
               /\ Init /\ HandshakeInit
               /\ IF part = "conversation" THEN ConversationInit ELSE turn = "ended" /\ NothingSaid

Session  == part = "session" /\ Next /\ UNCHANGED <<part, handshakeVars, conversationVars>>
Shake    == part = "handshake" /\ HandshakeNext /\ UNCHANGED <<part, vars, conversationVars>>
Converse == part = "conversation" /\ ConversationNext /\ UNCHANGED <<part, vars, handshakeVars>>

StreamsNext == Session \/ Shake \/ Converse

\* What is fair in one part is not enabled in the others.
StreamsSpec == /\ StreamsInit /\ [][StreamsNext]_<<part, vars, handshakeVars, conversationVars>>
               /\ Fairness /\ ConversationFairness
=============================================================================
