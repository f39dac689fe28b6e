------------------------ MODULE SonoChannelsProofs ------------------------
(***************************************************************************)
(* Proofs about SonoChannels for any set of users and any look-backs: the  *)
(* lock of settle, the tally, and that a listener that has caught up has   *)
(* the table right.                                                        *)
(***************************************************************************)
EXTENDS SonoChannels, SumProofs, TLAPS

States == [Users -> 0..MaxDeposit]

\* A deposit only grows, or goes back to 0 at once.
ChainShape == \A u \in Users, b \in 2..Block : chain[b][u] >= chain[b-1][u] \/ chain[b][u] = 0

\* Before sync_channels the table is empty and nothing was read.
Asleep == /\ place \in {"down", "start"} => /\ tracked = {}
                                            /\ \A u \in Users : settler[u] = "idle"
          /\ place \in {"down", "start", "sync"} => last = 0
          /\ place \in Passes => last < upTo
          /\ found # {} => place = "sync"

\* The table says of u what the chain said after block k.
Knows(u, k) == /\ u \in tracked <=> chain[k][u] > 0
               /\ u \in tracked => deposit[u] = chain[k][u]

Base == IF last = 0 THEN since ELSE last

\* What the look-ups found was so once since the sync began.
FoundOnce == \A ch \in found : \E k \in 1..Block : k >= since /\ chain[k][ch.user] = ch.deposit

\* sync_channels is through with u.
Looked(u) == (\A log \in todo : log[1] # u) /\ (\A ch \in found : ch.user # u)

KnowsSynced(u) == u \in tracked \/ Looked(u) => \E k \in 1..Block : k >= since /\ Knows(u, k)

KnowsIdle(u) == \E k \in 1..Block : k >= Base /\ Knows(u, k)

\* Within a poll: no older than the window, and no newer unless settle took u out.
Within(u, k) == k >= From - 1 /\ (u \in tracked => k <= upTo) /\ Knows(u, k)

KnowsOpened(u) == \E k \in 1..Block : Within(u, k)

KnowsTopped(u) == \E k \in 1..Block : /\ Within(u, k)
                                      /\ \A m \in Polled : m > k => ~Opened(u, m)

KnowsSettled(u) == \E k \in 1..Block : /\ Within(u, k)
                                       /\ (\A m \in Polled : ~Settled(u, m)) => k >= upTo

Sight == \A u \in Users \ missed : /\ place = "sync" => KnowsSynced(u)
                                   /\ place = "idle" => KnowsIdle(u)
                                   /\ place = "opened" => KnowsOpened(u)
                                   /\ place = "topped" => KnowsTopped(u)
                                   /\ place = "settled" => KnowsSettled(u)

IInv == TypeOK /\ ChainShape /\ Asleep /\ SettlesWhatWasSpent /\ FoundOnce /\ Sight

USE SonoChannelsAssumption
-----------------------------------------------------------------------------
(* Facts about numbers and windows                                         *)

\* Max picks the greatest of a nonempty set of block numbers.
LEMMA MaxIsGreatest ==
    ASSUME NEW n \in Nat, NEW S \in SUBSET (1..n), S # {}
    PROVE  Max(S) \in S /\ \A j \in S : j <= Max(S)
<1> DEFINE T == {k \in Nat : n - k \in S}
<1>1. PICK j \in S : TRUE
  OBVIOUS
<1>2. n - j \in T
  OBVIOUS
<1>3. PICK x \in T : \A y \in T : x <= y
  BY <1>2, HasLeast
<1>4. \A i \in S : i <= n - x
  <2> TAKE i \in S
  <2>1. n - i \in T
    OBVIOUS
  <2>2. x <= n - i
    BY <1>3, <2>1
  <2>3. x \in Nat /\ i \in Nat
    OBVIOUS
  <2> QED
    BY <2>2, <2>3
<1>5. \E k \in S : \A i \in S : i <= k
  BY <1>3, <1>4
<1> QED
  BY <1>5 DEF Max

\* What holds at a and not at b > a ceases to hold at some block in between.
LEMMA FirstChange ==
    ASSUME NEW a \in Nat, NEW b \in Nat, a <= b, NEW S, a \in S, b \notin S
    PROVE  \E m \in a+1..b : m - 1 \in S /\ m \notin S
<1> DEFINE T == {k \in a+1..b : k \notin S}
<1>1. b \in T /\ T \in SUBSET Nat
  OBVIOUS
<1>2. PICK m \in T : \A y \in T : m <= y
  BY <1>1, HasLeast
<1>3. m - 1 \in S
  <2>1. m - 1 \notin T
    BY <1>2
  <2> QED
    BY <1>2, <2>1
<1> QED
  BY <1>2, <1>3

\* A channel stays open as long as no block settles it,
LEMMA StaysOpen ==
    ASSUME TypeOK, NEW u \in Users, NEW a \in 1..Block, NEW b \in 1..Block, a <= b,
           chain[a][u] > 0, \A m \in a+1..b : ~Settled(u, m)
    PROVE  chain[b][u] > 0
<1> DEFINE S == {k \in 1..Block : chain[k][u] > 0}
<1>1. SUFFICES ASSUME b \notin S PROVE FALSE
  OBVIOUS
<1>2. Block \in Nat /\ a \in Nat /\ b \in Nat /\ a \in S
  BY DEF TypeOK, Block
<1> HIDE DEF S
<1>3. PICK m \in a+1..b : m - 1 \in S /\ m \notin S
  BY <1>1, <1>2, FirstChange
<1>4. m \in 2..Block /\ m - 1 \in 1..Block
  BY <1>2, <1>3
<1>5. \A k \in 1..Block : chain[k][u] \in Nat
  BY DEF TypeOK, Block
<1> QED
  BY <1>3, <1>4, <1>5 DEF S, Settled, Block

\* stays closed as long as no block opens it,
LEMMA StaysClosed ==
    ASSUME TypeOK, NEW u \in Users, NEW a \in 1..Block, NEW b \in 1..Block, a <= b,
           chain[a][u] = 0, \A m \in a+1..b : ~Opened(u, m)
    PROVE  chain[b][u] = 0
<1> DEFINE S == {k \in 1..Block : chain[k][u] = 0}
<1>1. SUFFICES ASSUME b \notin S PROVE FALSE
  OBVIOUS
<1>2. Block \in Nat /\ a \in Nat /\ b \in Nat /\ a \in S
  BY DEF TypeOK, Block
<1> HIDE DEF S
<1>3. PICK m \in a+1..b : m - 1 \in S /\ m \notin S
  BY <1>1, <1>2, FirstChange
<1>4. m \in 2..Block /\ m - 1 \in 1..Block
  BY <1>2, <1>3
<1>5. \A k \in 1..Block : chain[k][u] \in Nat
  BY DEF TypeOK, Block
<1> QED
  BY <1>3, <1>4, <1>5 DEF S, Opened, Block

\* and keeps its deposit as long as no block changes it.
LEMMA StaysTheSame ==
    ASSUME TypeOK, NEW u \in Users, NEW a \in 1..Block, NEW b \in 1..Block, a <= b,
           \A m \in a+1..b : chain[m][u] = chain[m-1][u]
    PROVE  chain[b][u] = chain[a][u]
<1> DEFINE S == {k \in 1..Block : chain[k][u] = chain[a][u]}
<1>1. SUFFICES ASSUME b \notin S PROVE FALSE
  OBVIOUS
<1>2. Block \in Nat /\ a \in Nat /\ b \in Nat /\ a \in S
  BY DEF TypeOK, Block
<1> HIDE DEF S
<1>3. PICK m \in a+1..b : m - 1 \in S /\ m \notin S
  BY <1>1, <1>2, FirstChange
<1>4. m \in 2..Block /\ m - 1 \in 1..Block
  BY <1>2, <1>3
<1>5. \A k \in 1..Block : chain[k][u] \in Nat
  BY DEF TypeOK, Block
<1> QED
  BY <1>3, <1>4, <1>5 DEF S, Block
-----------------------------------------------------------------------------
(* The initial state and the types                                         *)

LEMMA InitIInv == Init => IInv
<1> SUFFICES ASSUME Init PROVE IInv
  OBVIOUS
<1>1. Block = 1 /\ chain[1] = [u \in Users |-> 0] /\ chain \in Seq(States)
  BY DEF Init, Block, States
<1> QED
  BY <1>1 DEF Init, IInv, TypeOK, ChainShape, Asleep, SettlesWhatWasSpent, Sight,
              FoundOnce, States, Places, Passes

\* One more block leaves those before it alone.
Grows == /\ Block' = Block + 1
         /\ \A b \in 1..Block : chain'[b] = chain[b]
         /\ chain' \in Seq(States)

LEMMA AppendGrows ==
    ASSUME TypeOK, NEW s \in States, chain' = Append(chain, s)
    PROVE  Grows /\ chain'[Block + 1] = s
<1>1. chain \in Seq(States)
  BY DEF TypeOK, States
<1> QED
  BY <1>1 DEF Grows, Block

\* Every step of the chain adds a block that keeps its shape.
LEMMA ChainGrows ==
    ASSUME TypeOK, ChainShape,
           \/ OtherBlock
           \/ \E u \in Users : Open(u) \/ TopUp(u) \/ UserClose(u) \/ CloseMined(u)
    PROVE  Grows /\ ChainShape' /\ Block < MaxBlock
<1>0. Block \in Nat \ {0} /\ \A b \in 1..Block : chain[b] \in States
  BY DEF TypeOK, States, Block
<1>1. PICK s \in States : /\ chain' = Append(chain, s) /\ Block < MaxBlock
                          /\ \A v \in Users : s[v] >= chain[Block][v] \/ s[v] = 0
  <2>1. CASE OtherBlock
    BY <1>0, <2>1 DEF OtherBlock, States
  <2>2. ASSUME NEW u \in Users, NEW amount \in 0..MaxDeposit, Mine(u, amount),
               amount >= Now(u) \/ amount = 0
        PROVE  \E s \in States : /\ chain' = Append(chain, s) /\ Block < MaxBlock
                                  /\ \A v \in Users : s[v] >= chain[Block][v] \/ s[v] = 0
    <3> DEFINE s == [chain[Block] EXCEPT ![u] = amount]
    <3>1. s \in States /\ \A v \in Users : s[v] >= chain[Block][v] \/ s[v] = 0
      BY <1>0, <2>2 DEF States, Now
    <3> QED
      BY <2>2, <3>1 DEF Mine
  <2>3. ASSUME NEW u \in Users, Open(u) \/ TopUp(u) \/ UserClose(u) \/ CloseMined(u)
        PROVE  \E amount \in 0..MaxDeposit : Mine(u, amount) /\ (amount >= Now(u) \/ amount = 0)
    <3>1. Now(u) \in 0..MaxDeposit
      BY <1>0 DEF Now, States
    <3> QED
      BY <2>3, <3>1 DEF Open, TopUp, UserClose, CloseMined, IsOpen
  <2> QED
    BY <2>1, <2>2, <2>3
<1>2. Grows /\ chain'[Block + 1] = s
  BY <1>1, AppendGrows
<1>3. ChainShape'
  <2> SUFFICES ASSUME NEW u \in Users, NEW b \in 2..Block'
               PROVE  chain'[b][u] >= chain'[b-1][u] \/ chain'[b][u] = 0
    BY DEF ChainShape
  <2>1. CASE b \in 2..Block
    <3>1. chain'[b] = chain[b] /\ chain'[b-1] = chain[b-1]
      BY <1>0, <1>2, <2>1 DEF Grows
    <3> QED
      BY <2>1, <3>1 DEF ChainShape
  <2>2. CASE b = Block + 1
    <3>1. chain'[b] = s /\ b - 1 = Block /\ chain'[b-1] = chain[Block]
      BY <1>0, <1>2, <2>2 DEF Grows
    <3> QED
      BY <1>1, <3>1
  <2> QED
    BY <1>0, <1>2, <2>1, <2>2 DEF Grows
<1> QED
  BY <1>1, <1>2, <1>3

\* Every action keeps the types.
LEMMA NextType == ASSUME TypeOK, ChainShape, Asleep, [Next]_vars PROVE TypeOK'
<1>0. Block \in 1..MaxBlock /\ \A b \in 1..Block : chain[b] \in States
  BY DEF TypeOK, States, Block
<1>1. CASE OtherBlock \/ \E u \in Users : Open(u) \/ TopUp(u) \/ UserClose(u) \/ CloseMined(u)
  <2>1. Grows /\ Block < MaxBlock
    BY <1>1, ChainGrows
  <2>2. chain' \in Seq([Users -> 0..MaxDeposit]) /\ Block' \in 1..MaxBlock
    BY <1>0, <2>1 DEF Grows, States
  <2>3. UNCHANGED <<offer, table, settler, listener, missed, faults>>
    BY <1>1 DEF OtherBlock, Open, TopUp, UserClose, CloseMined
  <2>4. close' \in [Users -> {"none", "sent", "mined", "void"}]
    BY <1>1 DEF TypeOK, OtherBlock, Open, TopUp, UserClose, CloseMined
  <2> QED
    BY <1>0, <2>1, <2>2, <2>3, <2>4 DEF TypeOK, table, listener, Grows
<1>2. ASSUME NEW u \in Users,
             CloseVoid(u) \/ Charge(u) \/ Settle(u) \/ Receipt(u) \/ SettleFails(u)
             \/ Forget(u) \/ Drop(u)
      PROVE  TypeOK'
  <2>1. CASE CloseVoid(u) \/ Receipt(u) \/ SettleFails(u)
    BY <1>0, <2>1 DEF TypeOK, CloseVoid, Receipt, SettleFails, onchain, table, listener, Block
  <2>2. CASE Charge(u)
    BY <1>0, <2>2 DEF TypeOK, Charge, onchain, listener, Block
  <2>3. CASE Settle(u)
    BY <1>0, <2>3 DEF TypeOK, Settle, table, listener, Block
  <2>4. CASE Forget(u)
    BY <1>0, <2>4 DEF TypeOK, Forget, onchain, listener, Block
  <2>5. CASE Drop(u)
    BY <1>0, <2>5 DEF TypeOK, Drop, Fault, onchain, table, listener, Block
  <2> QED
    BY <1>2, <2>1, <2>2, <2>3, <2>4, <2>5
<1>3. CASE LookUp \/ SyncChannel \/ SyncSkips
  <2>1. CASE LookUp
    <3>1. PICK log \in todo :
             /\ todo' = todo \ {log}
             /\ \/ \E s \in 0..Now(log[1]) :
                      /\ IsOpen(log[1])
                      /\ found' = {[user |-> log[1], deposit |-> Now(log[1]), spent |-> s]}
                \/ UNCHANGED found
      BY <2>1 DEF LookUp
    <3>2. log[1] \in Users
      BY <3>1 DEF TypeOK
    <3>3. Now(log[1]) \in 0..MaxDeposit
      BY <1>0, <3>2 DEF Now, States
    <3>4. found' \subseteq Answers
      BY <3>1, <3>2, <3>3 DEF TypeOK, Answers, IsOpen
    <3> QED
      BY <1>0, <2>1, <3>1, <3>4 DEF TypeOK, LookUp, onchain, table, Block
  <2>2. CASE SyncChannel
    <3>1. PICK ch \in found :
             /\ found' = found \ {ch}
             /\ \/ /\ tracked' = tracked \cup {ch.user}
                   /\ deposit' = [deposit EXCEPT ![ch.user] = ch.deposit]
                   /\ spent' = [spent EXCEPT ![ch.user] = ch.spent]
                   /\ missed' = missed \ {ch.user}
                \/ UNCHANGED <<tracked, deposit, spent, missed>>
      BY <2>2 DEF SyncChannel, table
    <3>2. ch.user \in Users /\ ch.deposit \in 0..MaxDeposit /\ ch.spent \in 0..MaxDeposit
      BY <3>1 DEF TypeOK, Answers
    <3>3. /\ tracked' \subseteq Users /\ missed' \subseteq Users
          /\ deposit' \in [Users -> 0..MaxDeposit]
          /\ spent' \in [Users -> 0..MaxDeposit]
      BY <3>1, <3>2 DEF TypeOK
    <3> QED
      BY <1>0, <2>2, <3>1, <3>3 DEF TypeOK, SyncChannel, onchain, Block
  <2>3. CASE SyncSkips
    <3>1. PICK log \in todo :
             /\ todo' = todo \ {log}
             /\ missed' = missed \/ missed' = missed \cup {log[1]}
      BY <2>3 DEF SyncSkips
    <3>2. log[1] \in Users
      BY <3>1 DEF TypeOK
    <3>3. missed' \subseteq Users /\ todo' \subseteq Users \X (2..Block)
      BY <3>1, <3>2 DEF TypeOK
    <3>4. faults' \in 0..MaxFaults
      BY <2>3 DEF SyncSkips, Fault, TypeOK
    <3>5. UNCHANGED <<onchain, table, settler, place, found, last, upTo, since>>
      BY <2>3 DEF SyncSkips
    <3> QED
      BY <1>0, <3>3, <3>4, <3>5 DEF TypeOK, onchain, table, Block
  <2> QED
    BY <1>3, <2>1, <2>2, <2>3
<1>4. CASE Start \/ BeginSync \/ SyncFails \/ SyncEnds \/ BeginPoll
  <2>1. CASE Start \/ SyncEnds
    BY <1>0, <2>1 DEF TypeOK, Start, SyncEnds, onchain, table, Block, Places
  <2>2. CASE BeginSync
    <3>1. todo' \subseteq Users \X (2..Block)
      BY <2>2 DEF BeginSync, Window
    <3>2. missed' \subseteq Users
      BY <2>2 DEF BeginSync
    <3> QED
      BY <1>0, <2>2, <3>1, <3>2 DEF TypeOK, BeginSync, onchain, table, Block, Places
  <2>3. CASE SyncFails
    BY <1>0, <2>3 DEF TypeOK, SyncFails, Fault, onchain, table, Block, Places
  <2>4. CASE BeginPoll
    BY <1>0, <2>4 DEF TypeOK, BeginPoll, onchain, table, Block, Places, Passes
  <2> QED
    BY <1>4, <2>1, <2>2, <2>3, <2>4
<1>5. CASE PassOpened
  <2> DEFINE at(u) == {b \in Polled : Opened(u, b)}
  <2>1. ASSUME NEW u \in Users, at(u) # {} PROVE chain[Max(at(u))][u] \in 0..MaxDeposit
    <3>1. at(u) \in SUBSET (1..Block)
      BY <1>0 DEF Polled, Window
    <3> HIDE DEF at
    <3>2. Max(at(u)) \in 1..Block
      BY <1>0, <2>1, <3>1, MaxIsGreatest
    <3> QED
      BY <1>0, <3>2 DEF States
  <2> HIDE DEF at
  <2>2. deposit' \in [Users -> 0..MaxDeposit]
    BY <1>5, <2>1 DEF PassOpened, TypeOK, at
  <2>3. spent' \in [Users -> 0..MaxDeposit] /\ tracked' \subseteq Users /\ missed' \subseteq Users
    BY <1>5 DEF PassOpened, TypeOK
  <2> QED
    BY <1>0, <1>5, <2>2, <2>3 DEF PassOpened, TypeOK, onchain, Block, Places, Passes
<1>6. CASE PassTopped
  <2> DEFINE at(u) == {b \in Polled : ToppedUp(u, b)}
  <2>1. ASSUME NEW u \in Users, at(u) # {} PROVE chain[Max(at(u))][u] \in 0..MaxDeposit
    <3>1. at(u) \in SUBSET (1..Block)
      BY <1>0 DEF Polled, Window
    <3> HIDE DEF at
    <3>2. Max(at(u)) \in 1..Block
      BY <1>0, <2>1, <3>1, MaxIsGreatest
    <3> QED
      BY <1>0, <3>2 DEF States
  <2> HIDE DEF at
  <2>2. deposit' \in [Users -> 0..MaxDeposit]
    BY <1>6, <2>1 DEF PassTopped, TypeOK, at
  <2> QED
    BY <1>0, <1>6, <2>2 DEF PassTopped, TypeOK, onchain, Block, Places, Passes
<1>7. CASE PassSettled
  BY <1>0, <1>7 DEF PassSettled, TypeOK, onchain, Block, Places, Passes
<1>8. CASE PollFails
  BY <1>0, <1>8 DEF PollFails, TypeOK, onchain, table, Fault, Block, Places, Passes, From
<1>9. CASE Crash
  BY <1>0, <1>9 DEF Crash, TypeOK, onchain, Fault, Block, Places
<1>10. CASE UNCHANGED vars
  BY <1>10 DEF TypeOK, vars, onchain, table, listener, Block
<1> QED
  BY <1>1, <1>2, <1>3, <1>4, <1>5, <1>6, <1>7, <1>8, <1>9, <1>10
  DEF Next, ChainStep, RequestStep, Listen
-----------------------------------------------------------------------------
(* The lock and the tally                                                  *)

\* Every action keeps what is known of the time before the table is filled.
LEMMA NextAsleep == ASSUME TypeOK, Asleep, [Next]_vars PROVE Asleep'
<1>1. ASSUME NEW u \in Users, Open(u) \/ TopUp(u) \/ UserClose(u) \/ CloseMined(u) \/ CloseVoid(u)
      PROVE  Asleep'
  BY <1>1 DEF Asleep, Open, TopUp, UserClose, CloseMined, CloseVoid, table, listener
<1>2. ASSUME NEW u \in Users, Charge(u) \/ Settle(u) \/ Receipt(u) \/ SettleFails(u)
                              \/ Forget(u) \/ Drop(u)
      PROVE  Asleep'
  BY <1>2 DEF TypeOK, Asleep, Charge, Settle, Receipt, SettleFails, Forget, Drop, table, listener
<1>3. CASE LookUp \/ SyncChannel \/ SyncSkips
  <2>1. place' = place /\ last' = last /\ upTo' = upTo /\ place \notin {"down", "start"}
        /\ place \notin Passes /\ (found' # {} => place = "sync")
    BY <1>3 DEF Asleep, LookUp, SyncChannel, SyncSkips, Passes
  <2> QED
    BY <2>1 DEF Asleep
<1>4. CASE OtherBlock \/ Start \/ BeginSync \/ SyncFails \/ SyncEnds \/ BeginPoll
  BY <1>4 DEF TypeOK, Asleep, OtherBlock, Start, BeginSync, SyncFails, SyncEnds, BeginPoll,
              table, listener, Passes, Block
<1>5. CASE PassOpened \/ PassTopped \/ PassSettled
  BY <1>5 DEF Asleep, PassOpened, PassTopped, PassSettled, Passes
<1>6. CASE PollFails \/ Crash
  BY <1>6 DEF TypeOK, Asleep, PollFails, Crash, table, Passes
<1>7. CASE UNCHANGED vars
  BY <1>7 DEF Asleep, vars, table, listener
<1> QED
  BY <1>1, <1>2, <1>3, <1>4, <1>5, <1>6, <1>7 DEF Next, ChainStep, RequestStep, Listen

\* Every action leaves a channel alone whose close is waited for.
LEMMA NextLock ==
    ASSUME TypeOK, Asleep, SettlesWhatWasSpent, [Next]_vars
    PROVE  SettlesWhatWasSpent'
<1>1. ASSUME NEW u \in Users, Open(u) \/ TopUp(u) \/ UserClose(u) \/ CloseMined(u) \/ CloseVoid(u)
      PROVE  SettlesWhatWasSpent'
  BY <1>1 DEF SettlesWhatWasSpent, Open, TopUp, UserClose, CloseMined, CloseVoid, table
<1>2. ASSUME NEW u \in Users, Charge(u) \/ Settle(u) \/ Receipt(u) \/ SettleFails(u)
                              \/ Forget(u) \/ Drop(u)
      PROVE  SettlesWhatWasSpent'
  BY <1>2 DEF TypeOK, SettlesWhatWasSpent, LockFree, Charge, Settle, Receipt, SettleFails, Forget,
              Drop, onchain, table
<1>3. CASE LookUp \/ SyncChannel \/ SyncSkips
  BY <1>3 DEF SettlesWhatWasSpent, LockFree, LookUp, SyncChannel, SyncSkips, onchain, table
<1>4. CASE OtherBlock \/ Start \/ BeginSync \/ SyncFails \/ SyncEnds \/ BeginPoll \/ PollFails
  BY <1>4 DEF SettlesWhatWasSpent, OtherBlock, Start, BeginSync, SyncFails, SyncEnds, BeginPoll,
              PollFails, onchain, table
<1>5. CASE PassOpened
  <2> DEFINE new == {u \in Users : {b \in Polled : Opened(u, b)} # {}}
  <2>1. CASE LockFree
    BY <1>5, <2>1 DEF SettlesWhatWasSpent, LockFree, PassOpened
  <2>2. CASE new = {}
    <3>1. tracked \subseteq tracked' /\ spent' = [u \in Users |-> spent[u]]
      BY <1>5, <2>2 DEF PassOpened
    <3> QED
      BY <1>5, <3>1 DEF SettlesWhatWasSpent, PassOpened, onchain
  <2> QED
    BY <1>5, <2>1, <2>2 DEF PassOpened
<1>6. CASE PassTopped
  BY <1>6 DEF SettlesWhatWasSpent, PassTopped, onchain
<1>7. CASE PassSettled
  BY <1>7 DEF SettlesWhatWasSpent, LockFree, PassSettled, onchain
<1>8. CASE Crash
  BY <1>8 DEF SettlesWhatWasSpent, Crash
<1>9. CASE UNCHANGED vars
  BY <1>9 DEF SettlesWhatWasSpent, vars, onchain, table
<1> QED
  BY <1>1, <1>2, <1>3, <1>4, <1>5, <1>6, <1>7, <1>8, <1>9 DEF Next, ChainStep, RequestStep, Listen

\* A step that takes back the tally of a channel read an opening in a new block.
LEMMA StepKeepsTally ==
    ASSUME TypeOK, Asleep, [Next]_vars, NEW u \in tracked \cap tracked', spent'[u] < spent[u]
    PROVE  \/ faults > 0 \/ last = 0
           \/ \E b \in Window(last + 1, Block) : Opened(u, b)
<1>0. u \in Users /\ spent[u] \in Nat
  BY DEF TypeOK
<1>1. CASE PassOpened
  <2>1. {b \in Polled : Opened(u, b)} # {}
    BY <1>0, <1>1 DEF PassOpened
  <2>2. PICK b \in Polled : Opened(u, b)
    BY <2>1
  <2>3. CASE last # 0
    <3>1. b \in Window(last + 1, Block)
      BY <2>2, <2>3 DEF Polled, Window, From
    <3> QED
      BY <2>2, <3>1
  <2> QED
    BY <2>3
<1>2. CASE Crash
  BY <1>2 DEF Crash
<1>3. ASSUME SyncChannel PROVE FALSE
  <2>1. spent' = spent \/ \E v, s : v # u /\ spent' = [spent EXCEPT ![v] = s]
    BY <1>3 DEF SyncChannel, table
  <2> QED
    BY <1>0, <2>1 DEF TypeOK
<1>4. ASSUME NEW v \in Users, Charge(v) PROVE FALSE
  BY <1>0, <1>4 DEF Charge, TypeOK
<1>5. CASE \/ UNCHANGED vars
           \/ ChainStep
           \/ \E v \in Users : Settle(v) \/ Receipt(v) \/ SettleFails(v) \/ Forget(v) \/ Drop(v)
           \/ LookUp \/ SyncSkips \/ BeginSync \/ SyncEnds \/ BeginPoll \/ PassTopped \/ PassSettled
           \/ Start \/ SyncFails \/ PollFails
  <2>1. spent' = spent
    BY <1>5 DEF vars, table, ChainStep, Open, TopUp, UserClose, CloseMined, CloseVoid, OtherBlock,
                Settle, Receipt, SettleFails, Forget, Drop, LookUp, SyncSkips, BeginSync,
                SyncEnds, BeginPoll, PassTopped, PassSettled, Start, SyncFails, PollFails
  <2> QED
    BY <1>0, <2>1
<1> QED
  BY <1>1, <1>2, <1>3, <1>4, <1>5 DEF Next, RequestStep, Listen
-----------------------------------------------------------------------------
(* What the table knows                                                    *)

\* The chain went on or stood still: what the table says of the past is as true.
Elapsed == UNCHANGED chain \/ Grows

LEMMA PastStays ==
    ASSUME TypeOK, Elapsed
    PROVE  /\ Block' \in Nat /\ Block' >= Block
           /\ \A b \in 1..Block : b \in 1..Block' /\ chain'[b] = chain[b]
BY DEF TypeOK, Elapsed, Grows, Block

\* Steps outside of the listener that leave the entries of the table alone.
LEMMA SightFrame ==
    ASSUME TypeOK, Sight, Elapsed, UNCHANGED <<tracked, deposit, listener, missed>>
    PROVE  Sight'
<1> SUFFICES ASSUME NEW u \in Users \ missed
             PROVE  /\ place = "sync" => KnowsSynced(u)'
                    /\ place = "idle" => KnowsIdle(u)'
                    /\ place = "opened" => KnowsOpened(u)'
                    /\ place = "topped" => KnowsTopped(u)'
                    /\ place = "settled" => KnowsSettled(u)'
  BY DEF Sight, listener
<1>0. Block \in Nat /\ upTo \in 0..Block
  BY DEF TypeOK, Block
<1>1. /\ Block' \in Nat /\ Block' >= Block /\ Block \in Nat /\ upTo \in 0..Block
      /\ \A b \in 1..Block : b \in 1..Block' /\ chain'[b] = chain[b]
  BY <1>0, PastStays
<1>2. From' = From /\ Base' = Base
  BY DEF From, Base, listener
<1>3. Polled' = Polled
  BY <1>1, <1>2 DEF Polled, Window, listener
<1>4. \A m \in Polled : /\ m \in 1..Block /\ m - 1 \in 1..Block
  BY <1>1 DEF Polled, Window
<1>5. \A m \in Polled : /\ Opened(u, m)' <=> Opened(u, m)
                        /\ Settled(u, m)' <=> Settled(u, m)
  BY <1>1, <1>4 DEF Opened, Settled
<1>6. \A k \in 1..Block : /\ k \in 1..Block'
                          /\ Knows(u, k)' <=> Knows(u, k)
                          /\ Within(u, k)' <=> Within(u, k)
  BY <1>1, <1>2 DEF Knows, Within, listener
<1> QED
  BY <1>2, <1>3, <1>5, <1>6
  DEF Sight, KnowsSynced, Looked, KnowsIdle, KnowsOpened, KnowsTopped, KnowsSettled, listener

\* What was not open and is not in the table is known as of now.
LEMMA ClosedIsKnown ==
    ASSUME TypeOK, NEW u \in Users, ~IsOpen(u)
    PROVE  Block \in 1..Block /\ chain[Block][u] = 0
BY DEF TypeOK, IsOpen, Now, Block

\* Every action leaves what was found as true of the past as it was.
LEMMA NextFound ==
    ASSUME TypeOK, ChainShape, Asleep, FoundOnce, [Next]_vars
    PROVE  FoundOnce'
<1>0. Block \in Nat \ {0} /\ since <= Block /\ \A b \in 1..Block : chain[b] \in States
  BY DEF TypeOK, States, Block
<1>1. ASSUME Elapsed, found' \subseteq found, since' = since PROVE FoundOnce'
  <2> SUFFICES ASSUME NEW ch \in found'
               PROVE  \E k \in 1..Block' : k >= since /\ chain'[k][ch.user] = ch.deposit
    BY <1>1 DEF FoundOnce
  <2>1. PICK k \in 1..Block : k >= since /\ chain[k][ch.user] = ch.deposit
    BY <1>1 DEF FoundOnce
  <2> QED
    BY <1>1, <2>1, PastStays
<1>2. ASSUME found' = {} PROVE FoundOnce'
  BY <1>2 DEF FoundOnce
<1>3. CASE LookUp
  <2> SUFFICES ASSUME NEW ch \in found'
               PROVE  \E k \in 1..Block : k >= since /\ chain[k][ch.user] = ch.deposit
    BY <1>3 DEF FoundOnce, LookUp, onchain, Block
  <2>1. PICK log \in todo : \E s : ch = [user |-> log[1], deposit |-> Now(log[1]), spent |-> s]
    BY <1>3 DEF LookUp, Asleep
  <2>2. chain[Block][ch.user] = ch.deposit
    BY <2>1 DEF Now
  <2> QED
    BY <1>0, <2>2
<1>4. CASE OtherBlock \/ \E u \in Users : Open(u) \/ TopUp(u) \/ UserClose(u) \/ CloseMined(u)
  <2>1. Grows
    BY <1>4, ChainGrows
  <2>2. UNCHANGED listener
    BY <1>4 DEF OtherBlock, Open, TopUp, UserClose, CloseMined
  <2> QED
    BY <1>1, <2>1, <2>2 DEF Elapsed, listener
<1>5. ASSUME NEW u \in Users,
             CloseVoid(u) \/ Charge(u) \/ Settle(u) \/ Receipt(u) \/ SettleFails(u)
             \/ Forget(u) \/ Drop(u)
      PROVE  FoundOnce'
  <2>1. UNCHANGED <<chain, listener>>
    BY <1>5 DEF CloseVoid, Charge, Settle, Receipt, SettleFails, Forget, Drop, onchain
  <2> QED
    BY <1>1, <2>1 DEF Elapsed, listener
<1>6. CASE SyncChannel
  <2>1. found' \subseteq found /\ UNCHANGED <<chain, since>>
    BY <1>6 DEF SyncChannel, onchain
  <2> QED
    BY <1>1, <2>1 DEF Elapsed
<1>7. CASE SyncSkips \/ SyncEnds \/ Crash
  BY <1>2, <1>7 DEF SyncSkips, SyncEnds, Crash
<1>8. CASE Start \/ BeginSync \/ SyncFails \/ BeginPoll \/ PassOpened \/ PassTopped \/ PassSettled
           \/ PollFails
  <2>1. place # "sync" /\ found' = found
    BY <1>8 DEF Start, BeginSync, SyncFails, BeginPoll, PassOpened, PassTopped, PassSettled,
                PollFails, Passes
  <2> QED
    BY <1>2, <2>1 DEF Asleep
<1>9. CASE UNCHANGED vars
  BY <1>1, <1>9 DEF vars, onchain, listener, Elapsed
<1> QED
  BY <1>3, <1>4, <1>5, <1>6, <1>7, <1>8, <1>9 DEF Next, ChainStep, RequestStep, Listen

\* settle takes u out of the table.
LEMMA ForgetSight ==
    ASSUME TypeOK, Sight, Asleep, NEW u \in Users, Forget(u)
    PROVE  Sight'
<1> SUFFICES ASSUME NEW v \in Users \ missed'
             PROVE  /\ place = "sync" => KnowsSynced(v)'
                    /\ place = "idle" => KnowsIdle(v)'
                    /\ place = "opened" => KnowsOpened(v)'
                    /\ place = "topped" => KnowsTopped(v)'
                    /\ place = "settled" => KnowsSettled(v)'
  BY DEF Sight, Forget, listener
<1>1. /\ Block' = Block /\ From' = From /\ Base' = Base /\ Polled' = Polled
      /\ UNCHANGED <<chain, deposit, listener>>
  BY DEF Forget, Block, From, Base, Polled, Window, onchain, listener
<1>2. CASE v = u
  <2>1. ~IsOpen(u)
    BY <1>2 DEF Forget
  <2>2. Block \in 1..Block /\ chain[Block][u] = 0 /\ u \notin tracked'
    BY <2>1, ClosedIsKnown DEF Forget
  <2>3. Knows(u, Block)'
    BY <1>1, <2>2 DEF Knows
  <2>4. since <= Block /\ last <= Block /\ upTo <= Block /\ Base <= Block
    BY DEF TypeOK, Base
  <2>5. place \in Passes => From - 1 <= Block
    BY <2>4 DEF From, TypeOK, Asleep
  <2> QED
    BY <1>1, <1>2, <2>2, <2>3, <2>4, <2>5
    DEF KnowsSynced, Looked, KnowsIdle, KnowsOpened, KnowsTopped, KnowsSettled, Within, listener,
        Polled, Window, Passes, TypeOK
<1>3. CASE v # u
  <2>1. v \notin missed
    BY DEF Forget
  <2>2. v \in tracked' <=> v \in tracked
    BY <1>3 DEF Forget
  <2>3. \A k : (Knows(v, k)' <=> Knows(v, k)) /\ (Within(v, k)' <=> Within(v, k))
    BY <1>1, <2>2 DEF Knows, Within, listener
  <2>4. Looked(v)' <=> Looked(v)
    BY <1>1 DEF Looked, listener
  <2>5. place = "sync" => KnowsSynced(v)'
    BY <1>1, <2>1, <2>2, <2>3, <2>4 DEF Sight, KnowsSynced, listener
  <2> QED
    BY <1>1, <2>1, <2>3, <2>5
    DEF Sight, KnowsIdle, KnowsOpened, KnowsTopped, KnowsSettled, Opened, Settled, listener
<1> QED
  BY <1>2, <1>3
\* The steps of sync_channels.
LEMMA SyncSight ==
    ASSUME TypeOK, Asleep, FoundOnce, Sight,
           BeginSync \/ LookUp \/ SyncChannel \/ SyncSkips \/ SyncFails \/ SyncEnds
    PROVE  Sight'
<1>0. /\ Block \in Nat \ {0} /\ Block \in 1..Block /\ since <= Block
      /\ \A b \in 1..Block : chain[b] \in States
  BY DEF TypeOK, States, Block
<1>1. CASE BeginSync
  <2> SUFFICES ASSUME NEW u \in Users \ missed', u \in tracked' \/ Looked(u)'
               PROVE  \E k \in 1..Block' : k >= since' /\ Knows(u, k)'
    BY <1>1 DEF BeginSync, Sight, KnowsSynced
  <2>0. u \notin tracked' /\ UNCHANGED chain /\ since' = Block
    BY <1>1 DEF BeginSync, Asleep, onchain, table
  <2>1. ~IsOpen(u)
    <3>1. \A log \in todo' : log[1] # u
      BY <2>0 DEF Looked
    <3> QED
      BY <1>1, <3>1 DEF BeginSync
  <2>2. chain[Block][u] = 0
    BY <2>1, ClosedIsKnown
  <2> QED
    BY <1>0, <2>0, <2>2 DEF Knows, Block
<1>2. CASE SyncFails
  <2> SUFFICES ASSUME NEW u \in Users \ missed'
               PROVE  \E k \in 1..Block' : k >= Base' /\ Knows(u, k)'
    BY <1>2 DEF SyncFails, Sight, KnowsIdle
  <2>1. ~IsOpen(u) /\ u \notin tracked' /\ UNCHANGED chain /\ since' = Block /\ last' = 0
    BY <1>2 DEF SyncFails, Asleep, onchain, table
  <2>2. chain[Block][u] = 0
    BY <2>1, ClosedIsKnown
  <2> QED
    BY <1>0, <2>1, <2>2 DEF Knows, Block, Base
<1>3. CASE SyncEnds
  BY <1>3 DEF SyncEnds, Asleep, Sight, KnowsSynced, Looked, KnowsIdle, Knows, Base, Block, onchain, table
\* A log that is passed over, or whose channel was closed, leaves u as it is now.
<1>4. ASSUME NEW log \in todo, place = "sync", place' = place, todo' = todo \ {log},
             UNCHANGED <<chain, tracked, deposit, since>>, missed \subseteq missed',
             IsOpen(log[1]) /\ log[1] \notin tracked
                => log[1] \in missed' \/ \E ch \in found' : ch.user = log[1],
             found = {}
      PROVE  Sight'
  <2> SUFFICES ASSUME NEW v \in Users \ missed', v \in tracked \/ Looked(v)'
               PROVE  \E k \in 1..Block : k >= since /\ Knows(v, k)'
    BY <1>4 DEF Sight, KnowsSynced, Block
  <2>0. v \in Users \ missed /\ \A k : Knows(v, k)' <=> Knows(v, k)
    BY <1>4 DEF Knows
  <2>1. CASE v \in tracked \/ Looked(v)
    <3>1. PICK k \in 1..Block : k >= since /\ Knows(v, k)
      BY <1>4, <2>0, <2>1 DEF Sight, KnowsSynced
    <3> QED
      BY <2>0, <3>1
  <2>2. CASE v \notin tracked /\ ~Looked(v)
    <3>1. v = log[1]
      BY <1>4, <2>2 DEF Looked
    <3>2. ~IsOpen(v)
      BY <1>4, <2>2, <3>1 DEF Looked
    <3>3. chain[Block][v] = 0
      BY <3>2, ClosedIsKnown
    <3>4. Knows(v, Block)
      BY <2>2, <3>3 DEF Knows
    <3> QED
      BY <1>0, <2>0, <3>4
  <2> QED
    BY <2>1, <2>2
<1>5. CASE LookUp
  <2>1. PICK log \in todo :
           /\ todo' = todo \ {log}
           /\ IF IsOpen(log[1])
              THEN \E s \in 0..Now(log[1]) :
                      found' = {[user |-> log[1], deposit |-> Now(log[1]), spent |-> s]}
              ELSE UNCHANGED found
    BY <1>5 DEF LookUp
  <2>2. ASSUME IsOpen(log[1]) PROVE \E ch \in found' : ch.user = log[1]
    <3>1. PICK s \in 0..Now(log[1]) :
             found' = {[user |-> log[1], deposit |-> Now(log[1]), spent |-> s]}
      BY <2>1, <2>2
    <3>2. [user |-> log[1], deposit |-> Now(log[1]), spent |-> s] \in found'
      BY <3>1
    <3> QED
      BY <3>2
  <2> QED
    BY <1>4, <1>5, <2>1, <2>2 DEF LookUp, onchain, table
<1>6. CASE SyncSkips
  <2>1. PICK log \in todo :
           /\ todo' = todo \ {log}
           /\ missed \subseteq missed'
           /\ IsOpen(log[1]) /\ log[1] \notin tracked => log[1] \in missed'
    BY <1>6 DEF SyncSkips
  <2> QED
    BY <1>4, <1>6, <2>1 DEF SyncSkips, onchain, table
<1>7. CASE SyncChannel
  <2>1. PICK ch \in found :
           /\ found' = found \ {ch}
           /\ IF ch.user \notin tracked
              THEN /\ tracked' = tracked \cup {ch.user}
                   /\ deposit' = [deposit EXCEPT ![ch.user] = ch.deposit]
                   /\ missed' = missed \ {ch.user}
              ELSE UNCHANGED <<tracked, deposit, missed>>
    BY <1>7 DEF SyncChannel, table
  <2>2. UNCHANGED <<chain, place, todo, since>> /\ ch.user \in Users /\ ch.deposit > 0
    BY <1>7, <2>1 DEF SyncChannel, onchain, TypeOK, Answers
  <2> SUFFICES ASSUME place = "sync", NEW v \in Users \ missed', v \in tracked' \/ Looked(v)'
               PROVE  \E k \in 1..Block : k >= since /\ Knows(v, k)'
    BY <1>7, <2>1, <2>2 DEF Sight, KnowsSynced, Block, Asleep
  <2>3. CASE v = ch.user /\ v \notin tracked
    <3>1. PICK k \in 1..Block : k >= since /\ chain[k][v] = ch.deposit
      BY <2>1, <2>3 DEF FoundOnce
    <3>2. v \in tracked' /\ deposit'[v] = ch.deposit
      BY <2>1, <2>3 DEF TypeOK
    <3> QED
      BY <2>2, <3>1, <3>2 DEF Knows
  <2>4. CASE v # ch.user \/ v \in tracked
    <3>1. v \notin missed /\ (v \in tracked' <=> v \in tracked) /\ deposit'[v] = deposit[v]
      BY <2>1, <2>4 DEF TypeOK
    <3>2. v \in tracked \/ Looked(v)
      BY <2>1, <2>2, <2>4, <3>1 DEF Looked
    <3>3. PICK k \in 1..Block : k >= since /\ Knows(v, k)
      BY <3>1, <3>2 DEF Sight, KnowsSynced
    <3> QED
      BY <2>2, <3>1, <3>3 DEF Knows
  <2> QED
    BY <2>3, <2>4
<1> QED
  BY <1>1, <1>2, <1>3, <1>5, <1>6, <1>7

\* A poll begins with what the idle listener knows, brought up to its window.
LEMMA BeginPollSight == ASSUME TypeOK, Asleep, Sight, BeginPoll PROVE Sight'
<1> SUFFICES ASSUME NEW u \in Users \ missed'
             PROVE  \E k \in 1..Block' : Within(u, k)'
  BY DEF BeginPoll, Sight, KnowsOpened
<1>0. /\ Block \in Nat \ {0} /\ last \in Nat /\ since \in Nat
      /\ \A b \in 1..Block : chain[b] \in States
  BY DEF TypeOK, States, Block
<1>1. /\ UNCHANGED <<chain, tracked, deposit, last>> /\ upTo' = Block /\ Block' = Block
      /\ u \notin missed
  BY DEF BeginPoll, onchain, table, Block
<1>2. PICK k \in 1..Block : k >= Base /\ Knows(u, k)
  BY <1>1 DEF BeginPoll, Sight, KnowsIdle
<1>3. CASE last # 0 \/ k >= Block - PollBack - 1
  <2>1. k >= From' - 1
    BY <1>0, <1>1, <1>2, <1>3 DEF From, Base
  <2> QED
    BY <1>1, <1>2, <2>1 DEF Within, Knows
<1>4. CASE last = 0 /\ k < Block - PollBack - 1
  <2> DEFINE j == Block - PollBack - 1
  <2>1. j \in 1..Block /\ k <= j /\ k >= since
    BY <1>0, <1>2, <1>4 DEF Base
  <2>2. \A m \in k+1..j : chain[m][u] = chain[m-1][u]
    <3> TAKE m \in k+1..j
    <3>1. m \in Window(since + 1, Block - PollBack - 1)
      BY <1>0, <2>1 DEF Window
    <3> QED
      BY <1>4, <3>1 DEF BeginPoll, Skipped
  <2>3. chain[j][u] = chain[k][u]
    BY <2>1, <2>2, StaysTheSame
  <2>4. j >= From' - 1 /\ j <= upTo'
    BY <1>0, <1>1, <1>4, <2>1 DEF From
  <2> QED
    BY <1>1, <1>2, <2>1, <2>3, <2>4 DEF Within, Knows
<1> QED
  BY <1>0, <1>3, <1>4

\* What a window says is about blocks of the chain.
LEMMA WindowFacts ==
    ASSUME TypeOK, Asleep, place \in Passes
    PROVE  /\ Block \in Nat \ {0} /\ upTo \in 1..Block /\ last \in Nat /\ last < upTo
           /\ From \in Int /\ From <= upTo
           /\ Polled \in SUBSET (1..Block)
           /\ \A m \in Int : m \in Polled <=> m >= 2 /\ From <= m /\ m <= upTo
           /\ \A b \in 1..Block, u \in Users : chain[b][u] \in Nat
BY DEF TypeOK, Asleep, From, Polled, Window, Block
\* The openings of the window are in the table, each user's last one.
LEMMA PassOpenedSight == ASSUME TypeOK, Asleep, Sight, PassOpened PROVE Sight'
<1> SUFFICES ASSUME NEW u \in Users \ missed'
             PROVE  \E k \in 1..Block : /\ Within(u, k)'
                                        /\ \A m \in Polled : m > k => ~Opened(u, m)
  <2>1. Block' = Block /\ Polled' = Polled /\ chain' = chain /\ place' = "topped"
    BY DEF PassOpened, Block, Polled, Window, From, onchain
  <2> QED
    BY <2>1 DEF Sight, KnowsTopped, Opened
<1> DEFINE at == {b \in Polled : Opened(u, b)}
<1>1. /\ UNCHANGED <<chain, upTo, last>> /\ place \in Passes /\ From' = From
      /\ u \in tracked' <=> (u \in tracked \/ at # {})
      /\ deposit'[u] = IF at # {} THEN chain[Max(at)][u] ELSE deposit[u]
      /\ at = {} => u \notin missed
  BY DEF PassOpened, onchain, Passes, From
<1>2. CASE at # {}
  <2>1. at \in SUBSET (1..Block) /\ Block \in Nat
    BY <1>1, WindowFacts
  <2>2. PICK n \in at : n = Max(at) /\ \A m \in at : m <= n
    BY <1>2, <2>1, MaxIsGreatest
  <2>3. Opened(u, n) /\ n \in Polled
    BY <2>2
  <2>4. n \in 1..Block /\ From <= n /\ n <= upTo /\ From \in Int
    BY <1>1, <2>3, WindowFacts
  <2>5. Within(u, n)'
    <3> HIDE DEF at
    <3> QED
      BY <1>1, <1>2, <2>2, <2>3, <2>4 DEF Within, Knows, Opened
  <2>6. \A m \in Polled : m > n => ~Opened(u, m)
    <3> TAKE m \in Polled
    <3>1. m \in Int
      BY <1>1, WindowFacts
    <3> QED
      BY <2>2, <2>4, <3>1
  <2> QED
    BY <2>4, <2>5, <2>6
<1>3. CASE at = {}
  <2>1. PICK k \in 1..Block : Within(u, k)
    BY <1>1, <1>3 DEF PassOpened, Sight, KnowsOpened
  <2>2. Within(u, k)'
    BY <1>1, <1>3, <2>1 DEF Within, Knows
  <2> QED
    BY <1>3, <2>2
<1> QED
  BY <1>2, <1>3

\* After the second pass the table is right at the end of the window, unless the
\* window has a settlement.
LEMMA PassToppedSight == ASSUME TypeOK, ChainShape, Asleep, Sight, PassTopped PROVE Sight'
<1> SUFFICES ASSUME NEW u \in Users \ missed
             PROVE  \E k \in 1..Block : /\ Within(u, k)'
                                        /\ (\A m \in Polled : ~Settled(u, m)) => k >= upTo
  <2>1. Block' = Block /\ Polled' = Polled /\ UNCHANGED <<chain, upTo, missed>> /\ place' = "settled"
    BY DEF PassTopped, Block, Polled, Window, From, onchain
  <2> QED
    BY <2>1 DEF Sight, KnowsSettled, Settled
<1> DEFINE at == {b \in Polled : ToppedUp(u, b)}
           Quiet == \A m \in Polled : ~Settled(u, m)
<1>1. /\ UNCHANGED <<chain, tracked, upTo, last>> /\ place \in Passes /\ From' = From
      /\ deposit'[u] = IF u \in tracked /\ at # {} THEN chain[Max(at)][u] ELSE deposit[u]
  BY DEF PassTopped, onchain, Passes, From
<1>2. PICK k \in 1..Block : Within(u, k) /\ \A m \in Polled : m > k => ~Opened(u, m)
  BY DEF PassTopped, Sight, KnowsTopped
<1>w. /\ Block \in Nat \ {0} /\ upTo \in 1..Block /\ From \in Int /\ From <= upTo
      /\ \A m \in Int : m \in Polled <=> m >= 2 /\ From <= m /\ m <= upTo
      /\ \A b \in 1..Block : chain[b][u] \in Nat
      /\ at \in SUBSET (1..Block)
  BY <1>1, WindowFacts
<1>n. PICK n \in 1..Block : n = upTo
  BY <1>w
<1>3. CASE u \notin tracked
  <2>1. Within(u, k)'
    BY <1>1, <1>2, <1>3 DEF Within, Knows
  <2>2. CASE k < upTo
    <3>1. \A m \in k+1..upTo : ~Opened(u, m)
      BY <1>2, <1>w, <2>2 DEF Within
    <3>2. chain[k][u] = 0
      BY <1>2, <1>3, <1>w DEF Within, Knows
    <3>3. chain[upTo][u] = 0
      BY <1>w, <2>2, <3>1, <3>2, StaysClosed
    <3>4. Within(u, n)'
      BY <1>1, <1>3, <1>w, <1>n, <3>3 DEF Within, Knows
    <3> QED
      BY <1>n, <3>4
  <2> QED
    BY <1>w, <2>1, <2>2
\* What is left of the window after block a, if nothing settles the channel.
<1>4. ASSUME NEW a \in 1..Block, a <= upTo, a >= From - 1, chain[a][u] > 0, Quiet,
             \A m \in at : m <= a
      PROVE  chain[upTo][u] = chain[a][u]
  <2>1. \A m \in a+1..upTo : m \in Polled /\ m \in 2..Block /\ m - 1 \in 1..Block
    BY <1>w, <1>4
  <2>2. \A m \in a+1..upTo : chain[m][u] = chain[m-1][u]
    <3> TAKE m \in a+1..upTo
    <3>1. \A i \in a+1..m-1 : ~Settled(u, i)
      BY <1>4, <1>w, <2>1
    <3>2. chain[m-1][u] > 0
      BY <1>4, <2>1, <3>1, StaysOpen
    <3>3. ~ToppedUp(u, m) /\ ~Settled(u, m)
      BY <1>4, <1>w, <2>1
    <3>4. chain[m][u] >= chain[m-1][u] \/ chain[m][u] = 0
      BY <2>1 DEF ChainShape
    <3> QED
      BY <1>w, <2>1, <3>2, <3>3, <3>4 DEF ToppedUp, Settled
  <2> QED
    BY <1>4, <1>w, <2>2, StaysTheSame
<1>5. CASE u \in tracked /\ at = {}
  <2>1. Within(u, k)' /\ chain[k][u] > 0 /\ k <= upTo /\ k >= From - 1
    BY <1>1, <1>2, <1>5 DEF Within, Knows
  <2>2. CASE Quiet
    <3>1. chain[upTo][u] = chain[k][u]
      BY <1>4, <1>5, <2>1, <2>2
    <3>2. Within(u, n)'
      BY <1>1, <1>5, <1>w, <1>n, <2>1, <3>1 DEF Within, Knows
    <3> QED
      BY <1>n, <1>w, <3>2
  <2> QED
    BY <2>1, <2>2
<1>6. CASE u \in tracked /\ at # {}
  <2>1. PICK k1 \in at : k1 = Max(at) /\ \A m \in at : m <= k1
    BY <1>6, <1>w, MaxIsGreatest
  <2>2. ToppedUp(u, k1) /\ k1 \in Polled
    BY <2>1
  <2>3. k1 \in 1..Block /\ From <= k1 /\ k1 <= upTo
    BY <1>w, <2>1, <2>2
  <2>4. chain[k1][u] > 0
    BY <1>w, <2>2, <2>3 DEF ToppedUp
  <2>5. Within(u, k1)' /\ deposit'[u] = chain[k1][u]
    <3> HIDE DEF at
    <3> QED
      BY <1>1, <1>6, <1>w, <2>1, <2>3, <2>4 DEF Within, Knows
  <2>6. CASE Quiet
    <3>1. chain[upTo][u] = chain[k1][u]
      BY <1>4, <1>w, <2>1, <2>3, <2>4, <2>6
    <3>2. Within(u, n)'
      <4> HIDE DEF at
      <4> QED
        BY <1>1, <1>6, <1>w, <1>n, <2>3, <2>4, <2>5, <3>1 DEF Within, Knows
    <3> QED
      BY <1>n, <1>w, <3>2
  <2> QED
    BY <2>3, <2>5, <2>6
<1> QED
  BY <1>3, <1>5, <1>6

\* The third pass takes out what was settled, and the table is right again.
LEMMA PassSettledSight == ASSUME TypeOK, Asleep, Sight, PassSettled PROVE Sight'
<1> SUFFICES ASSUME NEW u \in Users \ missed'
             PROVE  \E k \in 1..Block : k >= upTo /\ Knows(u, k)'
  <2>1. Block' = Block /\ place' = "idle" /\ last' = upTo /\ upTo # 0
    BY WindowFacts DEF PassSettled, Block, onchain, Passes
  <2> QED
    BY <2>1 DEF Sight, KnowsIdle, Base
<1>1. UNCHANGED <<chain, deposit>> /\ place \in Passes
  BY DEF PassSettled, onchain, Passes
<1>2. upTo \in 1..Block /\ \A b \in 1..Block : chain[b][u] \in Nat
  BY <1>1, WindowFacts
<1>3. CASE \E m \in Polled : Settled(u, m)
  <2>1. u \notin tracked' /\ ~(chain[upTo][u] > 0)
    BY <1>3 DEF PassSettled
  <2> QED
    BY <1>1, <1>2, <2>1 DEF Knows
<1>4. CASE \A m \in Polled : ~Settled(u, m)
  <2>1. u \notin missed /\ (u \in tracked' <=> u \in tracked)
    BY <1>4 DEF PassSettled
  <2>2. PICK k \in 1..Block : Within(u, k) /\ k >= upTo
    BY <1>4, <2>1 DEF PassSettled, Sight, KnowsSettled
  <2> QED
    BY <1>1, <2>1, <2>2 DEF Within, Knows
<1> QED
  BY <1>3, <1>4

\* A poll that fails leaves the table no older than what it began with.
LEMMA PollFailsSight == ASSUME TypeOK, Asleep, Sight, PollFails PROVE Sight'
<1> SUFFICES ASSUME NEW u \in Users \ missed
             PROVE  \E k \in 1..Block : k >= Base' /\ Knows(u, k)
  <2>1. Block' = Block /\ place' = "idle" /\ UNCHANGED <<chain, tracked, deposit, missed>>
    BY DEF PollFails, Block, onchain, table
  <2>2. \A v \in Users, k \in 1..Block : Knows(v, k)' <=> Knows(v, k)
    BY <2>1 DEF Knows
  <2> QED
    BY <2>1, <2>2 DEF Sight, KnowsIdle
<1>1. PICK k \in 1..Block : Within(u, k)
  BY DEF PollFails, Passes, Sight, KnowsOpened, KnowsTopped, KnowsSettled
<1>2. k >= From - 1 /\ Knows(u, k) /\ From \in Int /\ last \in Nat /\ since \in Nat
  BY <1>1, WindowFacts DEF Within, PollFails, TypeOK
<1>3. k >= Base'
  BY <1>1, <1>2 DEF PollFails, Base, From
<1> QED
  BY <1>2, <1>3

\* Every action keeps sight of the chain.
LEMMA NextSight == ASSUME TypeOK, ChainShape, Asleep, FoundOnce, Sight, [Next]_vars PROVE Sight'
<1>1. ASSUME NEW u \in Users, Open(u) \/ TopUp(u) \/ UserClose(u) \/ CloseMined(u) PROVE Sight'
  <2>1. Grows
    BY <1>1, ChainGrows
  <2>2. UNCHANGED <<tracked, deposit, listener, missed>>
    BY <1>1 DEF Open, TopUp, UserClose, CloseMined, table
  <2> QED
    BY <2>1, <2>2, SightFrame DEF Elapsed
<1>2. CASE OtherBlock
  <2>1. Grows
    BY <1>2, ChainGrows
  <2> QED
    BY <1>2, <2>1, SightFrame DEF Elapsed, OtherBlock, table
<1>3. ASSUME NEW u \in Users,
             CloseVoid(u) \/ Charge(u) \/ Settle(u) \/ Receipt(u) \/ SettleFails(u) \/ Drop(u)
      PROVE  Sight'
  <2>1. UNCHANGED <<chain, tracked, deposit, listener, missed>>
    BY <1>3 DEF CloseVoid, Charge, Settle, Receipt, SettleFails, Drop, onchain, table
  <2> QED
    BY <2>1, SightFrame DEF Elapsed
<1>4. CASE UNCHANGED vars
  BY <1>4, SightFrame DEF Elapsed, vars, onchain, table
<1>5. CASE Start \/ Crash
  BY <1>5 DEF Start, Crash, Sight
<1> QED
  BY <1>1, <1>2, <1>3, <1>4, <1>5, ForgetSight, SyncSight, BeginPollSight, PassOpenedSight,
     PassToppedSight, PassSettledSight, PollFailsSight
  DEF Next, ChainStep, RequestStep, Listen
-----------------------------------------------------------------------------
(* The theorems                                                            *)

\* The invariant is inductive.
LEMMA NextIInv == IInv /\ [Next]_vars => IInv'
<1> SUFFICES ASSUME IInv, [Next]_vars PROVE IInv'
  OBVIOUS
<1>1. ChainShape'
  <2>1. CASE OtherBlock \/ \E u \in Users : Open(u) \/ TopUp(u) \/ UserClose(u) \/ CloseMined(u)
    BY <2>1, ChainGrows DEF IInv
  <2>2. CASE UNCHANGED chain
    BY <2>2 DEF IInv, ChainShape, Block
  <2> QED
    BY <2>1, <2>2
    DEF Next, ChainStep, RequestStep, Listen, vars, onchain, CloseVoid, Charge, Settle, Receipt,
        SettleFails, Forget, Drop, LookUp, SyncChannel, SyncSkips, BeginSync, SyncEnds, SyncFails, Start,
        BeginPoll, PassOpened, PassTopped, PassSettled, PollFails, Crash
<1> QED
  BY <1>1, NextType, NextAsleep, NextLock, NextFound, NextSight DEF IInv

\* Every state that is reached satisfies the invariant.
THEOREM ChannelsInductive == Spec => []IInv
BY InitIInv, NextIInv, PTL DEF Spec

\* Type correctness (SonoService, start_listener).
THEOREM TypeCorrect == Spec => []TypeOK
<1>1. IInv => TypeOK
  BY DEF IInv
<1> QED
  BY <1>1, ChannelsInductive, PTL

\* A close that is waited for settles all that was charged (settle, charge).
THEOREM SettlesAllSpent == Spec => []SettlesWhatWasSpent
<1>1. IInv => SettlesWhatWasSpent
  BY DEF IInv
<1> QED
  BY <1>1, ChannelsInductive, PTL

\* A tally goes back only for an opening in a new block, after a failure, or before
\* the first poll is through (poll_events).
THEOREM TalliesKept == Spec => TallyKept
<1>1. IInv /\ [Next]_vars =>
        [\A u \in tracked \cap tracked' : spent'[u] < spent[u] =>
            \/ faults > 0 \/ last = 0
            \/ \E b \in Window(last + 1, Block) : Opened(u, b)]_vars
  BY StepKeepsTally DEF IInv
<1> QED
  BY <1>1, ChannelsInductive, PTL DEF Spec, TallyKept

\* A listener that has caught up has the table right (sync_channels, poll_events).
THEOREM CaughtUpExact == Spec => []CaughtUpIsExact
<1>1. IInv => CaughtUpIsExact
  <2> SUFFICES ASSUME IInv, place = "idle", last = Block, NEW u \in Users \ missed
               PROVE  Knows(u, Block)
    BY DEF CaughtUpIsExact, Knows, Now, IsOpen
  <2>1. Block \in Nat \ {0}
    BY DEF IInv, TypeOK
  <2>2. PICK k \in 1..Block : k >= Base /\ Knows(u, k)
    BY DEF IInv, Sight, KnowsIdle
  <2>3. k = Block
    BY <2>1, <2>2 DEF Base
  <2> QED
    BY <2>2, <2>3
<1> QED
  BY <1>1, ChannelsInductive, PTL

\* Both at once: the table is right where it counts.
THEOREM TableRight == Spec => []TableIsRight
BY CaughtUpExact, SettlesAllSpent, PTL DEF TableIsRight
=============================================================================
