---------------------------- MODULE SonoChannels ----------------------------
(***************************************************************************)
(* The payment channels of sonotxt-api/src/services/sono.rs: a contract on *)
(* chain holds what users put into their channels, the service keeps a     *)
(* table of them in memory and charges against it.  A listener fills the   *)
(* table, once from the recent past (sync_channels), then from what new    *)
(* blocks report (poll_events); settle closes a channel by a transaction.  *)
(*                                                                         *)
(* The chain is the sequence of its states: chain[b][u] is the deposit of  *)
(* u's channel after block b, 0 without one.  What the contract reports of *)
(* a block is how its state differs from the one before.                   *)
(*                                                                         *)
(* charge is called by check_and_charge (services/billing.rs:97-114) for a *)
(* request with a wallet address, which no handler passes at this commit;  *)
(* without it every tally is 0.                                            *)
(***************************************************************************)
EXTENDS Integers, Sequences, FiniteSetsExt

CONSTANTS Users,       \* those with a channel to this service
          MaxDeposit,  \* bound: the most one channel holds
          MaxBlock,    \* bound: the length of the chain
          SyncBack,    \* sync_channels looks back this many blocks (1000)
          PollBack,    \* and the first poll this many (100)
          MaxFaults    \* bound: failed calls, dropped handlers, crashes

ASSUME SonoChannelsAssumption ==
    /\ MaxDeposit \in Nat \ {0} /\ MaxBlock \in Nat \ {0}
    /\ SyncBack \in Nat /\ PollBack \in Nat /\ MaxFaults \in Nat

VARIABLES chain,    \* the states of the contract, block by block
          close,    \* the last cooperativeClose of each user: none, sent, mined, void
          offer,    \* the amount it settles
          tracked,  \* keys of the table
          deposit,  \* ChannelState.deposit
          spent,    \* ChannelState.spent
          settler,  \* the settle handler of each user: idle, waiting, closed
          place,    \* where the listener is
          todo,     \* openings <<user, block>> sync_channels still looks up
          found,    \* what getChannel answered, until it is in the table
          last,     \* last_block
          upTo,     \* current_block of the poll in progress
          since,    \* the table takes account of every block up to this one,
                    \* until the first poll is through
          missed,   \* users the listener lost sight of, see CaughtUpIsExact
          faults

onchain == <<chain, close, offer>>
table == <<tracked, deposit, spent>>
listener == <<place, todo, found, last, upTo, since>>
vars == <<onchain, table, settler, listener, missed, faults>>

Passes == {"opened", "topped", "settled"}
Places == {"down", "start", "sync", "idle"} \cup Passes
Answers == [user : Users, deposit : 1..MaxDeposit, spent : 0..MaxDeposit]

Init == /\ chain = <<[u \in Users |-> 0]>>
        /\ close = [u \in Users |-> "none"]
        /\ offer = [u \in Users |-> 0]
        /\ tracked = {}
        /\ deposit = [u \in Users |-> 0]
        /\ spent = [u \in Users |-> 0]
        /\ settler = [u \in Users |-> "idle"]
        /\ place = "down" /\ todo = {} /\ found = {}
        /\ last = 0 /\ upTo = 0 /\ since = 0
        /\ missed = {}
        /\ faults = 0
-----------------------------------------------------------------------------
Block == Len(chain)
Now(u) == chain[Block][u]
IsOpen(u) == Now(u) > 0

\* What block b reports of u.
Opened(u, b) == chain[b-1][u] = 0 /\ chain[b][u] > 0
ToppedUp(u, b) == chain[b-1][u] > 0 /\ chain[b][u] > chain[b-1][u]
Settled(u, b) == chain[b-1][u] > 0 /\ chain[b][u] = 0

\* Blocks a..b, without the first, which reports nothing.
Window(a, b) == {k \in 2..Block : a <= k /\ k <= b}

\* Mutant: the last block of the poll before is read again.
From_LastAgain == IF last = 0 THEN upTo - PollBack ELSE last

\* Mutant: the block after the last one read is passed over.
From_OneTooFar == IF last = 0 THEN upTo - PollBack ELSE last + 2

\* First block of the poll in progress.
From == IF last = 0 THEN upTo - PollBack ELSE last + 1
Polled == Window(From, upTo)

\* settle holds the read lock of the table while it waits for its transaction.
LockFree == \A u \in Users : settler[u] # "waiting"
Fault == faults < MaxFaults /\ faults' = faults + 1
-----------------------------------------------------------------------------
(* The contract: external, as far as sono.rs uses it                       *)

Mine(u, amount) == /\ Block < MaxBlock
                   /\ chain' = Append(chain, [chain[Block] EXCEPT ![u] = amount])

Open(u) == /\ ~IsOpen(u)
           /\ \E amount \in 1..MaxDeposit : Mine(u, amount)
           /\ UNCHANGED <<close, offer, table, settler, listener, missed, faults>>

TopUp(u) == /\ IsOpen(u)
            /\ \E amount \in Now(u) + 1 .. MaxDeposit : Mine(u, amount)
            /\ UNCHANGED <<close, offer, table, settler, listener, missed, faults>>

\* A channel settled without the service: a close under way comes too late.
UserClose(u) == /\ IsOpen(u)
                /\ Mine(u, 0)
                /\ close' = [close EXCEPT ![u] = IF @ = "sent" THEN "void" ELSE @]
                /\ UNCHANGED <<offer, table, settler, listener, missed, faults>>

OtherBlock == /\ Block < MaxBlock
              /\ chain' = Append(chain, chain[Block])
              /\ UNCHANGED <<close, offer, table, settler, listener, missed, faults>>

CloseMined(u) == /\ close[u] = "sent"
                 /\ IsOpen(u) /\ offer[u] <= Now(u)
                 /\ Mine(u, 0)
                 /\ close' = [close EXCEPT ![u] = "mined"]
                 /\ UNCHANGED <<offer, table, settler, listener, missed, faults>>

\* The contract rejects the signature, or the transaction never gets in.
CloseVoid(u) == /\ close[u] = "sent"
                /\ close' = [close EXCEPT ![u] = "void"]
                /\ UNCHANGED <<chain, offer, table, settler, listener, missed, faults>>
-----------------------------------------------------------------------------
(* Requests: charge and settle                                             *)

Charge(u) == /\ LockFree
             /\ u \in tracked
             /\ spent[u] + 1 <= deposit[u]
             /\ spent' = [spent EXCEPT ![u] = @ + 1]
             /\ UNCHANGED <<onchain, tracked, deposit, settler, listener, missed, faults>>

\* One close per user is under way at a time.
Settle(u) == /\ u \in tracked
             /\ settler[u] = "idle" /\ close[u] # "sent"
             /\ settler' = [settler EXCEPT ![u] = "waiting"]
             /\ close' = [close EXCEPT ![u] = IF IsOpen(u) THEN "sent" ELSE "void"]
             /\ offer' = [offer EXCEPT ![u] = spent[u]]
             /\ UNCHANGED <<chain, table, listener, missed, faults>>

\* get_receipt returns; drop(channels) releases the lock.
Receipt(u) == /\ settler[u] = "waiting" /\ close[u] = "mined"
              /\ settler' = [settler EXCEPT ![u] = "closed"]
              /\ UNCHANGED <<onchain, table, listener, missed, faults>>

SettleFails(u) == /\ settler[u] = "waiting" /\ close[u] = "void"
                  /\ settler' = [settler EXCEPT ![u] = "idle"]
                  /\ UNCHANGED <<onchain, table, listener, missed, faults>>

\* write().await.remove(user).  The user may have opened another channel.
Forget(u) == /\ settler[u] = "closed"
             /\ LockFree
             /\ settler' = [settler EXCEPT ![u] = "idle"]
             /\ tracked' = tracked \ {u}
             /\ missed' = IF IsOpen(u) THEN missed \cup {u} ELSE missed
             /\ UNCHANGED <<onchain, deposit, spent, listener, faults>>

\* The RPC node does not answer or the handler is dropped; the transaction is out.
Drop(u) == /\ settler[u] # "idle"
           /\ Fault
           /\ settler' = [settler EXCEPT ![u] = "idle"]
           /\ UNCHANGED <<onchain, table, listener, missed>>
-----------------------------------------------------------------------------
(* The listener                                                            *)

Start == /\ place = "down"
         /\ place' = "start"
         /\ UNCHANGED <<onchain, table, settler, todo, found, last, upTo, since, missed, faults>>

\* get_block_number and get_logs of sync_channels
BeginSync ==
    LET logs == {log \in Users \X Window(Block - SyncBack, Block) : Opened(log[1], log[2])}
    IN /\ place = "start"
       /\ place' = "sync"
       /\ since' = Block
       /\ todo' = logs
       /\ missed' = {u \in Users : IsOpen(u) /\ \A log \in logs : log[1] # u}
       /\ UNCHANGED <<onchain, table, settler, found, last, upTo, faults>>

\* A failed sync is logged, no more.
SyncFails == /\ place = "start"
             /\ Fault
             /\ place' = "idle"
             /\ since' = Block
             /\ missed' = {u \in Users : IsOpen(u)}
             /\ UNCHANGED <<onchain, table, settler, todo, found, last, upTo>>

\* getChannel: the channel of a log as it is now.  What the contract has down as
\* spent is its own affair.
LookUp == /\ place = "sync" /\ found = {}
          /\ \E log \in todo :
                LET u == log[1]
                IN /\ todo' = todo \ {log}
                   /\ IF IsOpen(u)
                      THEN \E s \in 0..Now(u) :
                              found' = {[user |-> u, deposit |-> Now(u), spent |-> s]}
                      ELSE UNCHANGED found
          /\ UNCHANGED <<onchain, table, settler, place, last, upTo, since, missed, faults>>

\* write().await and or_insert, of what the chain may no longer say
SyncChannel == /\ LockFree
               /\ \E ch \in found :
                     /\ found' = found \ {ch}
                     /\ IF ch.user \notin tracked
                        THEN /\ tracked' = tracked \cup {ch.user}
                             /\ deposit' = [deposit EXCEPT ![ch.user] = ch.deposit]
                             /\ spent' = [spent EXCEPT ![ch.user] = ch.spent]
                             /\ missed' = missed \ {ch.user}
                        ELSE UNCHANGED <<table, missed>>
               /\ UNCHANGED <<onchain, settler, place, todo, last, upTo, since, faults>>

\* getChannel fails: the log is passed over.
SyncSkips == /\ place = "sync" /\ found = {}
             /\ Fault
             /\ \E log \in todo :
                   LET u == log[1]
                   IN /\ todo' = todo \ {log}
                      /\ missed' = IF IsOpen(u) /\ u \notin tracked THEN missed \cup {u} ELSE missed
             /\ UNCHANGED <<onchain, table, settler, place, found, last, upTo, since>>

SyncEnds == /\ place = "sync" /\ todo = {} /\ found = {}
            /\ place' = "idle"
            /\ UNCHANGED <<onchain, table, settler, todo, found, last, upTo, since, missed, faults>>

\* What changed before the first block of the first poll, since the sync, is not seen.
Skipped(u) == \E b \in Window(since + 1, Block - PollBack - 1) : chain[b][u] # chain[b-1][u]

BeginPoll == /\ place = "idle"
             /\ Block > last
             /\ place' = "opened"
             /\ upTo' = Block
             /\ missed' = IF last = 0 THEN missed \cup {u \in Users : Skipped(u)} ELSE missed
             /\ UNCHANGED <<onchain, table, settler, todo, found, last, since, faults>>

\* The ChannelOpened events of the window: the last one of a user decides.
PassOpened ==
    LET at(u) == {b \in Polled : Opened(u, b)}
        new == {u \in Users : at(u) # {}}
    IN /\ place = "opened"
       /\ LockFree \/ new = {}
       /\ place' = "topped"
       /\ tracked' = tracked \cup new
       /\ deposit' = [u \in Users |-> IF u \in new THEN chain[Max(at(u))][u] ELSE deposit[u]]
       /\ spent' = [u \in Users |-> IF u \in new THEN 0 ELSE spent[u]]
       /\ missed' = missed \ new
       /\ UNCHANGED <<onchain, settler, todo, found, last, upTo, since, faults>>

\* The ChannelToppedUp events
PassTopped ==
    LET at(u) == {b \in Polled : ToppedUp(u, b)}
    IN /\ place = "topped"
       /\ LockFree \/ \A u \in Users : at(u) = {}
       /\ place' = "settled"
       /\ deposit' = [u \in Users |-> IF u \in tracked /\ at(u) # {}
                                      THEN chain[Max(at(u))][u] ELSE deposit[u]]
       /\ UNCHANGED <<onchain, tracked, spent, settler, todo, found, last, upTo, since, missed, faults>>

\* The ChannelSettled events, also those from before an opening in the same window.
PassSettled ==
    LET gone == {u \in Users : \E b \in Polled : Settled(u, b)}
    IN /\ place = "settled"
       /\ LockFree \/ gone = {}
       /\ place' = "idle"
       /\ last' = upTo
       /\ tracked' = tracked \ gone
       /\ missed' = (missed \ gone) \cup {u \in gone : chain[upTo][u] > 0}
       /\ UNCHANGED <<onchain, deposit, spent, settler, todo, found, upTo, since, faults>>

\* Mutant: the window counts as read although a query failed.
PollFails_Advances == /\ place \in Passes
                      /\ Fault
                      /\ place' = "idle"
                      /\ last' = upTo
                      /\ UNCHANGED <<onchain, table, settler, todo, found, upTo, since, missed>>

\* A query of the passes fails: what was done stays, last_block does not move.  In a
\* first poll the openings read again may have put the table back to their blocks.
PollFails == /\ place \in Passes
             /\ Fault
             /\ place' = "idle"
             /\ since' = IF last > 0 \/ since < From THEN since
                         ELSE IF From > 0 THEN From - 1 ELSE 0
             /\ UNCHANGED <<onchain, table, settler, todo, found, last, upTo, missed>>

\* The process ends: the table and last_block are in memory.
Crash == /\ place # "down"
         /\ Fault
         /\ place' = "down" /\ todo' = {} /\ found' = {}
         /\ last' = 0 /\ upTo' = 0 /\ since' = 0
         /\ tracked' = {}
         /\ settler' = [u \in Users |-> "idle"]
         /\ missed' = {}
         /\ UNCHANGED <<onchain, deposit, spent>>
-----------------------------------------------------------------------------
ChainStep == \/ OtherBlock
             \/ \E u \in Users : \/ Open(u) \/ TopUp(u) \/ UserClose(u)
                                 \/ CloseMined(u) \/ CloseVoid(u)

RequestStep == \E u \in Users : \/ Charge(u) \/ Settle(u) \/ Receipt(u)
                                \/ SettleFails(u) \/ Forget(u) \/ Drop(u)

Listen == \/ BeginSync \/ LookUp \/ SyncChannel \/ SyncEnds
          \/ BeginPoll \/ PassOpened \/ PassTopped \/ PassSettled

Next == ChainStep \/ RequestStep \/ Listen \/ Start \/ SyncFails \/ SyncSkips \/ PollFails
        \/ Crash

Spec == Init /\ [][Next]_vars

\* The listener is a task of its own and every query of it returns.  A wait for a
\* transaction, and with it the read lock, ends with the timeout of the request
\* (lib.rs:85-87) at the latest.
FairSpec == /\ Spec
            /\ WF_vars(Listen)
            /\ \A u \in Users : WF_vars(Receipt(u) \/ SettleFails(u) \/ CloseVoid(u))
-----------------------------------------------------------------------------
(* Properties                                                              *)

\* The types of the variables; no deposit is above the bound.
TypeOK == /\ chain \in Seq([Users -> 0..MaxDeposit]) /\ Block \in 1..MaxBlock
          /\ close \in [Users -> {"none", "sent", "mined", "void"}]
          /\ offer \in [Users -> 0..MaxDeposit]
          /\ tracked \subseteq Users
          /\ deposit \in [Users -> 0..MaxDeposit]
          /\ spent \in [Users -> 0..MaxDeposit]
          /\ settler \in [Users -> {"idle", "waiting", "closed"}]
          /\ place \in Places
          /\ todo \subseteq Users \X (2..Block)
          /\ found \subseteq Answers
          /\ last \in 0..Block /\ upTo \in 0..Block /\ since \in 0..Block
          /\ missed \subseteq Users
          /\ faults \in 0..MaxFaults

\* A listener that has read every block and waits for the next one has the open
\* channels in its table, and no others, with the deposits they have on chain
\* (start_listener, sync_channels, poll_events).  Lost sight of are only users
\* whose channel was opened before the blocks the first look goes back to, whose
\* look-up failed, whose channel changed between the sync, or a first poll that
\* failed, and the window of the next, or who opened another channel before the
\* close of the former one was taken out of the table.
CaughtUpIsExact ==
    place = "idle" /\ last = Block =>
        \A u \in Users \ missed : /\ u \in tracked <=> IsOpen(u)
                                  /\ u \in tracked => deposit[u] = Now(u)

\* While settle waits for its transaction the channel stays in the table and its
\* tally does not move: a close that is waited for settles all that was charged.
SettlesWhatWasSpent ==
    \A u \in Users : settler[u] = "waiting" => u \in tracked /\ offer[u] = spent[u]

\* The table is right where it counts: when the listener has caught up, and
\* while a close is waited for.
TableIsRight == CaughtUpIsExact /\ SettlesWhatWasSpent

\* The tally of a tracked channel goes back only for an opening in a block no
\* earlier poll had read, unless a call failed or the process has yet to finish
\* its first poll (which reads openings again that sync_channels delivered).
TallyKept ==
    [][\A u \in tracked \cap tracked' : spent'[u] < spent[u] =>
          \/ faults > 0 \/ last = 0
          \/ \E b \in Window(last + 1, Block) : Opened(u, b)]_vars

\* An opened channel is found by the listener, or closed, unless it was lost sight
\* of or something failed.
OpenedIsTracked ==
    \A u \in Users : (IsOpen(u) /\ place # "down") ~>
                        (u \in tracked \/ ~IsOpen(u) \/ u \in missed \/ faults > 0)
=============================================================================
