-------------------------- MODULE DepositAddresses --------------------------
(***************************************************************************)
(* The deposit addresses of accounts on one chain, and the listener that   *)
(* watches them (sonotxt-api/src/services/payments/assethub.rs; the Penumbra *)
(* service in penumbra.rs next to it runs the same statements).            *)
(*                                                                         *)
(* An address is its derivation index.  A handler is one call of           *)
(* get_deposit_address or rotate_address, and each step is one statement   *)
(* on payment_addresses; no transaction spans two of them.                 *)
(***************************************************************************)
EXTENDS Integers, FiniteSets, FiniteSetsExt

CONSTANTS Accounts,
          Callers,       \* concurrent calls
          NoAccount,     \* "no call in hand"
          MaxAddresses,  \* max_addresses_per_user
          MaxDrops       \* bound on dropped calls

ASSUME AddressesAssumption ==
    /\ NoAccount \notin Accounts
    /\ IsFiniteSet(Callers)
    /\ MaxAddresses \in Nat \ {0}
    /\ MaxDrops \in Nat

VARIABLES stored,     \* derivation indices of an account's rows
          active,     \* those with is_active
          doing,      \* where each handler is
          account,    \* for which account
          index,      \* and the derivation index it has computed
          disturbed,  \* accounts a rotation of which overlapped another call
                      \* or was dropped without an address (history)
          listening,  \* the listener has loaded its addresses and runs
          watched,    \* the addresses it watches
          loaded,     \* the rows there were when it loaded them (history)
          drops

table == <<stored, active>>
calls == <<doing, account, index>>
listener == <<listening, watched, loaded>>
addressVars == <<table, calls, disturbed, listener, drops>>

Rotating  == {"max", "deactivate", "insert", "describe"}
AddressPlaces == {"idle", "get_insert"} \cup Rotating

AddressesInit == /\ stored = [a \in Accounts |-> {}]
                 /\ active = [a \in Accounts |-> {}]
                 /\ doing = [h \in Callers |-> "idle"]
                 /\ account = [h \in Callers |-> NoAccount]
                 /\ index = [h \in Callers |-> 0]
                 /\ disturbed = {}
                 /\ listening = FALSE
                 /\ watched = [a \in Accounts |-> {}]
                 /\ loaded = [a \in Accounts |-> {}]
                 /\ drops = 0
-----------------------------------------------------------------------------
Does(h, loc) == doing[h] = loc

CallsOf(a) == {h \in Callers : account[h] = a}
RotationsOf(a) == {h \in CallsOf(a) : doing[h] \in Rotating}

BeginCall(h, a, loc) == /\ Does(h, "idle")
                        /\ doing' = [doing EXCEPT ![h] = loc]
                        /\ account' = [account EXCEPT ![h] = a]
                        /\ index' = [index EXCEPT ![h] = 0]

Continue(h, loc) == doing' = [doing EXCEPT ![h] = loc] /\ UNCHANGED <<account, index>>

EndCall(h) == /\ doing' = [doing EXCEPT ![h] = "idle"]
              /\ account' = [account EXCEPT ![h] = NoAccount]
              /\ index' = [index EXCEPT ![h] = 0]

\* SELECT MAX(derivation_index), unwrap_or(-1) + 1.
NextIndex(a) == IF stored[a] = {} THEN 0 ELSE Max(stored[a]) + 1

\* count < self.max_addresses_per_user
RoomFor(a) == Cardinality(stored[a]) < MaxAddresses
-----------------------------------------------------------------------------
(* get_deposit_address.  A call that finds an active row answers with it   *)
(* and changes nothing; one that finds none goes on with index 0.          *)

BeginGet(h, a) ==
    /\ active[a] = {}
    /\ BeginCall(h, a, "get_insert")
    /\ disturbed' = disturbed \cup {b \in {a} : RotationsOf(b) # {}}
    /\ UNCHANGED <<table, listener, drops>>

\* rotate_address.  A call that finds no room is refused and changes nothing.
BeginRotate(h, a) ==
    /\ RoomFor(a)
    /\ BeginCall(h, a, "max")
    /\ disturbed' = disturbed \cup {b \in {a} : CallsOf(b) # {}}
    /\ UNCHANGED <<table, listener, drops>>

ReadMax(h) == /\ Does(h, "max")
              /\ doing' = [doing EXCEPT ![h] = "deactivate"]
              /\ index' = [index EXCEPT ![h] = NextIndex(account[h])]
              /\ UNCHANGED <<account, table, disturbed, listener, drops>>

\* Mutant: the rows are deactivated by the route, after the INSERT.
Deactivate_Later(h) == /\ Does(h, "deactivate")
                       /\ Continue(h, "insert")
                       /\ UNCHANGED <<table, disturbed, listener, drops>>

\* UPDATE ... SET is_active = false, of all rows of the account.
Deactivate(h) == /\ Does(h, "deactivate")
                 /\ active' = [active EXCEPT ![account[h]] = {}]
                 /\ Continue(h, "insert")
                 /\ UNCHANGED <<stored, disturbed, listener, drops>>

Insert(h) ==
    LET a == account[h] IN
    /\ doing[h] \in {"get_insert", "insert"}
    /\ index[h] \notin stored[a]
    /\ stored' = [stored EXCEPT ![a] = @ \cup {index[h]}]
    /\ active' = [active EXCEPT ![a] = @ \cup {index[h]}]
    /\ IF Does(h, "insert") THEN Continue(h, "describe") ELSE EndCall(h)
    /\ UNCHANGED <<disturbed, listener, drops>>

\* UNIQUE(account_id, chain, derivation_index): the call fails.
InsertTaken(h) ==
    /\ doing[h] \in {"get_insert", "insert"}
    /\ index[h] \in stored[account[h]]
    /\ EndCall(h)
    /\ UNCHANGED <<table, disturbed, listener, drops>>

\* rotate_polkadot_address: the index in the answer is SELECTed once more.
Describe(h) == /\ Does(h, "describe")
               /\ EndCall(h)
               /\ UNCHANGED <<table, disturbed, listener, drops>>

\* A failed statement or derivation, the request timeout or a crash.
DropCall(h) == /\ ~Does(h, "idle")
           /\ drops < MaxDrops
           /\ drops' = drops + 1
           /\ EndCall(h)
           /\ disturbed' = disturbed \cup {a \in {account[h]} : Does(h, "insert")}
           /\ UNCHANGED <<table, listener>>
-----------------------------------------------------------------------------
\* load_watched_addresses, before the listener runs.
Load == /\ ~listening
        /\ listening' = TRUE
        /\ watched' = active
        /\ loaded' = stored
        /\ UNCHANGED <<table, calls, disturbed, drops>>

\* The listener fails or its process ends; only a new process starts another.
Stop == /\ listening
        /\ listening' = FALSE
        /\ watched' = [a \in Accounts |-> {}]
        /\ loaded' = [a \in Accounts |-> {}]
        /\ UNCHANGED <<table, calls, disturbed, drops>>

CallStep(h) == \/ ReadMax(h) \/ Deactivate(h) \/ Insert(h) \/ InsertTaken(h)
               \/ Describe(h) \/ DropCall(h)

AddressesNext == \/ \E h \in Callers : \/ \E a \in Accounts : BeginGet(h, a) \/ BeginRotate(h, a)
                                       \/ CallStep(h)
                 \/ Load
                 \/ Stop

AddressesSpec == AddressesInit /\ [][AddressesNext]_addressVars
-----------------------------------------------------------------------------
(* Type correctness of the table, the calls and the listener.              *)
AddressesTypeOK == /\ stored \in [Accounts -> SUBSET Nat]
                   /\ active \in [Accounts -> SUBSET Nat]
                   /\ doing \in [Callers -> AddressPlaces]
                   /\ account \in [Callers -> Accounts \cup {NoAccount}]
                   /\ index \in [Callers -> Nat]
                   /\ disturbed \subseteq Accounts
                   /\ listening \in BOOLEAN
                   /\ watched \in [Accounts -> SUBSET Nat]
                   /\ loaded \in [Accounts -> SUBSET Nat]
                   /\ drops \in 0..MaxDrops

\* No rotation of the account is between its UPDATE and its INSERT.
Settled(a) == \A h \in RotationsOf(a) : ~Does(h, "insert")

(* The reads of get_deposit_address and of the rotation's answer fetch one *)
(* row and ask for the active one.  However calls overlap and fail there   *)
(* is at most one.  As long as no rotation of the account overlapped       *)
(* another call or was dropped there is exactly one between rotations,     *)
(* the newest, and a rotation answers with the index of its own address.   *)
OneActive == \A a \in Accounts :
    /\ \A i, j \in active[a] : i = j
    /\ a \notin disturbed /\ stored[a] # {} /\ Settled(a) => active[a] = {Max(stored[a])}
    /\ a \notin disturbed => \A h \in RotationsOf(a) : Does(h, "describe") => active[a] = {index[h]}

(* rotate_address counts the addresses in one statement and adds one in a  *)
(* later one: the limit is exceeded by at most one address for every       *)
(* further call that runs at the same time, and by none without one.       *)
WithinLimit == \A a \in Accounts :
    Cardinality(stored[a]) <= MaxAddresses + Cardinality(Callers) - 1

(* The listener is told of no address after it has loaded them, and still  *)
(* an active address that it misses is never one that was there when it    *)
(* started: an address, once replaced, does not become active again.       *)
MissesOnlyNewer == listening =>
    \A a \in Accounts : active[a] \cap loaded[a] \subseteq watched[a]

(* Both: the address an account is told is the one that is listened to.    *)
AddressServed == OneActive /\ MissesOnlyNewer
=============================================================================
