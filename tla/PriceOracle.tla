---------------------------- MODULE PriceOracle ----------------------------
(***************************************************************************)
(* The price of a DOT in TXT (sonotxt-api/src/services/sono.rs): every API *)
(* process has a loop that fetches the price, sets it in the contract if   *)
(* it is off by a hundredth or more, and then quotes it itself.  Prices    *)
(* are the integers of the contract; the market and the chain are          *)
(* external.                                                               *)
(***************************************************************************)
EXTENDS Integers

CONSTANTS Oracles,     \* processes
          Prices,      \* txt_per_dot, as computed from what was fetched
          MaxErrors    \* bound on calls to the chain that fail

ASSUME PriceAssumption == Prices \subseteq Nat /\ MaxErrors \in Nat

VARIABLES contract,    \* txtPerDot of the contract
          quote,       \* PriceInfo of a process; 0 by default
          fetched,     \* what the present round has fetched
          stage,       \* "idle", "read", "send" or "quote"
          moved,       \* the contract was set by another process since this
                       \* one last read it, or since it quoted (history)
          lapsed,      \* the last attempt to set it failed (history)
          chainErrors

priceVars == <<contract, quote, fetched, stage, moved, lapsed, chainErrors>>

PriceInit == /\ contract \in Prices \cup {0}
             /\ quote = [o \in Oracles |-> 0] /\ fetched = [o \in Oracles |-> 0]
             /\ stage = [o \in Oracles |-> "idle"]
             /\ moved = [o \in Oracles |-> FALSE] /\ lapsed = [o \in Oracles |-> FALSE]
             /\ chainErrors = 0

GoTo(o, s) == stage' = [stage EXCEPT ![o] = s]
Abs(x) == IF x < 0 THEN 0 - x ELSE x
-----------------------------------------------------------------------------
\* A price of 0 or an error of both sources ends the round here.
Fetch(o, p) == /\ stage[o] = "idle"
               /\ p > 0
               /\ fetched' = [fetched EXCEPT ![o] = p]
               /\ GoTo(o, "read")
               /\ UNCHANGED <<contract, quote, moved, lapsed, chainErrors>>

\* Mutant: the fetched price is compared with the price quoted before.
Off_Quote(o, p, current) == quote[o] = 0 \/ Abs(p - quote[o]) >= quote[o] \div 100

\* The threshold is a hundredth of the price that is set, rounded down.
Off(o, p, current) == current = 0 \/ Abs(p - current) >= current \div 100

\* set_contract_dot_price reads the contract; an error reads as 0.
ReadContract(o) ==
    /\ stage[o] = "read"
    /\ \/ /\ GoTo(o, IF Off(o, fetched[o], contract) THEN "send" ELSE "quote")
          /\ UNCHANGED chainErrors
       \/ /\ chainErrors < MaxErrors
          /\ chainErrors' = chainErrors + 1
          /\ GoTo(o, "send")
    /\ moved' = [moved EXCEPT ![o] = FALSE]
    /\ lapsed' = [lapsed EXCEPT ![o] = FALSE]
    /\ UNCHANGED <<contract, quote, fetched>>

Set(o) == /\ contract' = fetched[o]
          /\ moved' = [q \in Oracles |-> q # o]

SendPrice(o) == /\ stage[o] = "send"
                /\ Set(o)
                /\ GoTo(o, "quote")
                /\ UNCHANGED <<quote, fetched, lapsed, chainErrors>>

\* send or get_receipt fails, the latter also after the price was set.
SendFails(o) == /\ stage[o] = "send"
                /\ chainErrors < MaxErrors
                /\ chainErrors' = chainErrors + 1
                /\ Set(o) \/ UNCHANGED <<contract, moved>>
                /\ lapsed' = [lapsed EXCEPT ![o] = TRUE]
                /\ GoTo(o, "quote")
                /\ UNCHANGED <<quote, fetched>>

\* The rates of the stable coins are set each time, to constants; then the
\* price is quoted, whether or not the contract was set.
Quote(o) == /\ stage[o] = "quote"
            /\ quote' = [quote EXCEPT ![o] = fetched[o]]
            /\ GoTo(o, "idle")
            /\ UNCHANGED <<contract, fetched, moved, lapsed, chainErrors>>

\* A restart forgets the quote and the round.
RestartOracle(o) == /\ quote' = [quote EXCEPT ![o] = 0]
                    /\ fetched' = [fetched EXCEPT ![o] = 0]
                    /\ GoTo(o, "idle")
                    /\ UNCHANGED <<contract, moved, lapsed, chainErrors>>

PriceNext == \E o \in Oracles : \/ \E p \in Prices : Fetch(o, p)
                                \/ ReadContract(o) \/ SendPrice(o) \/ SendFails(o)
                                \/ Quote(o) \/ RestartOracle(o)

PriceSpec == PriceInit /\ [][PriceNext]_priceVars
-----------------------------------------------------------------------------
(* Type correctness.                                                       *)
PriceTypeOK == /\ contract \in Prices \cup {0}
               /\ quote \in [Oracles -> Prices \cup {0}]
               /\ fetched \in [Oracles -> Prices \cup {0}]
               /\ stage \in [Oracles -> {"idle", "read", "send", "quote"}]
               /\ moved \in [Oracles -> BOOLEAN]
               /\ lapsed \in [Oracles -> BOOLEAN]
               /\ chainErrors \in 0..MaxErrors

(* Small changes do not add up: the price a process quotes differs from    *)
(* the price of the contract by less than a hundredth of it, unless its    *)
(* transaction failed or another process has set the contract meanwhile.   *)
(* Between a round's read and its quote the former quote stays.            *)
QuoteIsContract == \A o \in Oracles :
    stage[o] \in {"idle", "read"} /\ quote[o] > 0 /\ ~moved[o] /\ ~lapsed[o] =>
        quote[o] = contract \/ Abs(quote[o] - contract) < contract \div 100
=============================================================================
