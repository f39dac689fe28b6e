------------------------------- MODULE Calls --------------------------------
(***************************************************************************)
(* Signalling between the peers of a call (sonotxt-api/src/routes/p2p.rs): *)
(* a map from codes to sessions, each with a broadcast channel and a count *)
(* of peers, and one task per socket that joins, relays and leaves.  The   *)
(* lock of the map is taken anew for each step; codes are drawn at random, *)
(* so that a code may name another session later.                          *)
(***************************************************************************)
EXTENDS Integers, FiniteSets

CONSTANTS Codes,       \* six random characters
          Sockets,
          Sessions,    \* the channels, in the order of their creation
          NoSession    \* "not in the map", "no channel", "no code"

ASSUME CallsAssumption == /\ Sessions \subseteq Nat
                          /\ NoSession \notin Sessions
                          /\ IsFiniteSet(Sockets)

VARIABLES session,     \* SESSIONS: the channel under a code
          peers,       \* peer_count of a session
          created,     \* sessions that were created
          old,         \* sessions older than two hours
          phase,       \* of a socket: "idle", "joined", "relaying" or "leaving"
          code,        \* the code it came with
          rx,          \* the channel it reads from
          tx,          \* the channel it writes to
          reused       \* codes that named a second session (history)

sessionVars == <<session, peers, created, old, reused>>
socketVars == <<phase, code, rx, tx>>
callVars == <<sessionVars, socketVars>>

Phases == {"idle", "joined", "relaying", "leaving"}

CallsInit == /\ session = [c \in Codes |-> NoSession]
             /\ peers = [n \in Sessions |-> 0]
             /\ created = {} /\ old = {} /\ reused = {}
             /\ phase = [s \in Sockets |-> "idle"]
             /\ code = [s \in Sockets |-> NoSession]
             /\ rx = [s \in Sockets |-> NoSession]
             /\ tx = [s \in Sockets |-> NoSession]

Known(c) == session[c] # NoSession
-----------------------------------------------------------------------------
\* create_session: insert, whatever was there, and drop the old sessions.
Create(c, n) ==
    /\ n \notin created /\ \A m \in Sessions : m < n => m \in created
    /\ created' = created \cup {n}
    /\ session' = [d \in Codes |-> IF d = c THEN n
                                   ELSE IF session[d] \in old THEN NoSession ELSE session[d]]
    /\ reused' = reused \cup {d \in {c} : \E s \in Sockets : phase[s] # "idle" /\ code[s] = d}
    /\ UNCHANGED <<peers, old, socketVars>>

\* Two hours pass.
Age(n) == /\ n \in created \ old
          /\ old' = old \cup {n}
          /\ UNCHANGED <<session, peers, created, reused, socketVars>>

HasRoom(n) == peers[n] < 2

\* Unknown or full sessions answer with an error and close.  The rest of the
\* block, the messages to both peers included, runs under the write lock.
Join(s, c) ==
    LET n == session[c] IN
    /\ phase[s] = "idle" /\ tx[s] = NoSession
    /\ Known(c) /\ HasRoom(n)
    /\ peers' = [peers EXCEPT ![n] = @ + 1]
    /\ phase' = [phase EXCEPT ![s] = "joined"]
    /\ code' = [code EXCEPT ![s] = c]
    /\ rx' = [rx EXCEPT ![s] = n]
    /\ UNCHANGED <<session, created, old, reused, tx>>

Gone(s) == /\ phase' = [phase EXCEPT ![s] = "idle"]
           /\ code' = [code EXCEPT ![s] = NoSession]
           /\ rx' = [rx EXCEPT ![s] = NoSession]

\* The sender is looked up by the code again.
Attach(s) ==
    /\ phase[s] = "joined"
    /\ IF Known(code[s])
       THEN /\ phase' = [phase EXCEPT ![s] = "relaying"]
            /\ tx' = [tx EXCEPT ![s] = session[code[s]]]
            /\ UNCHANGED <<code, rx>>
       ELSE Gone(s) /\ UNCHANGED tx
    /\ UNCHANGED sessionVars

\* Mutant: the task returns when the client is gone, before the count.
Close_Return(s) ==
    /\ phase[s] = "relaying"
    /\ Gone(s)
    /\ tx' = [tx EXCEPT ![s] = NoSession]
    /\ UNCHANGED sessionVars

\* The client is gone: send_task ends, and nothing is written any more.
Close(s) ==
    /\ phase[s] = "relaying"
    /\ phase' = [phase EXCEPT ![s] = "leaving"]
    /\ tx' = [tx EXCEPT ![s] = NoSession]
    /\ UNCHANGED <<sessionVars, code, rx>>

\* recv_task ends, 64 messages behind; select! leaves send_task running.
Lag(s) ==
    /\ phase[s] = "relaying"
    /\ phase' = [phase EXCEPT ![s] = "leaving"]
    /\ UNCHANGED <<sessionVars, code, rx, tx>>

\* The count of whatever session has the code now; an empty one is removed.
LeaveCall(s) ==
    LET n == session[code[s]] IN
    /\ phase[s] = "leaving"
    /\ IF Known(code[s])
       THEN /\ peers' = [peers EXCEPT ![n] = IF @ > 0 THEN @ - 1 ELSE 0]
            /\ session' = [session EXCEPT ![code[s]] = IF peers'[n] = 0 THEN NoSession ELSE @]
       ELSE UNCHANGED <<peers, session>>
    /\ Gone(s)
    /\ UNCHANGED <<created, old, reused, tx>>

\* The client of a socket that lagged leaves at last.
CloseLate(s) ==
    /\ phase[s] = "idle" /\ tx[s] # NoSession
    /\ tx' = [tx EXCEPT ![s] = NoSession]
    /\ UNCHANGED <<sessionVars, phase, code, rx>>

CallsNext ==
    \/ \E c \in Codes, n \in Sessions : Create(c, n)
    \/ \E n \in Sessions : Age(n)
    \/ \E s \in Sockets : \/ \E c \in Codes : Join(s, c)
                          \/ Attach(s) \/ Close(s) \/ Lag(s) \/ LeaveCall(s) \/ CloseLate(s)

CallsSpec == CallsInit /\ [][CallsNext]_callVars
-----------------------------------------------------------------------------
(* Type correctness.                                                       *)
CallsTypeOK ==
    /\ session \in [Codes -> Sessions \cup {NoSession}]
    /\ peers \in [Sessions -> 0..2]
    /\ created \subseteq Sessions /\ old \subseteq created /\ reused \subseteq Codes
    /\ phase \in [Sockets -> Phases]
    /\ code \in [Sockets -> Codes \cup {NoSession}]
    /\ rx \in [Sockets -> Sessions \cup {NoSession}]
    /\ tx \in [Sockets -> Sessions \cup {NoSession}]

\* Sockets that count as peers of the session under code c.
PeersOf(c) == {s \in Sockets : phase[s] # "idle" /\ code[s] = c}

(* The sockets under one code are the peers of one session: it counts      *)
(* them, though they leave by the code and not by the channel they joined, *)
(* and each writes to the channel the other reads from, whoever came and   *)
(* went before and even after two hours.  A code that gets a second        *)
(* session while sockets of the first remain splits them.                  *)
CallTally == \A c \in Codes \ reused :
    /\ Known(c) => /\ peers[session[c]] = Cardinality(PeersOf(c))
                   /\ \A s \in PeersOf(c) : rx[s] = session[c]
    /\ \A s, t \in PeersOf(c) : phase[s] = "relaying" => tx[s] = rx[t]
=============================================================================
