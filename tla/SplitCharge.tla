---------------------------- MODULE SplitCharge ----------------------------
(***************************************************************************)
(* check_and_charge of sonotxt-api/src/services/billing.rs for a user with *)
(* a wallet: the custodial balance pays, or the payment channel, or both.  *)
(* The balance is read first and overwritten two awaits later, the channel *)
(* is asked first and charged later, and both change in between: other     *)
(* requests, credits, and the channel's own life.  No handler passes a     *)
(* wallet at this commit; the module Billing has the branch they reach,    *)
(* and SonoChannels what becomes of a channel.                             *)
(***************************************************************************)
EXTENDS Requests, FiniteSets, FiniteSetsExt

CONSTANTS Costs,       \* of requests
          Custodial,   \* txt_balance at first
          InChannel,   \* deposit - spent of the channel at first
          MaxChanges   \* bound on credits and on changes of the channel

ASSUME SplitAssumption == /\ Costs \subseteq Nat \ {0}
                          /\ Custodial \in Nat /\ InChannel \in Nat /\ MaxChanges \in Nat
                          /\ IsFiniteSet(Handlers)

VARIABLES custodial,   \* users.txt_balance
          remaining,   \* what is left in the channel
          changes,     \* credits and changes of the channel so far
          taken,       \* what the statements have removed (history)
          earned,      \* costs of the charges that were answered Ok (history)
          overwritten, \* a balance was set to 0 over another than read (history)
          forfeited    \* a charge failed half way (history)

purse == <<custodial, remaining, changes>>
splits == <<purse, taken, earned, overwritten, forfeited>>
splitVars == <<requests, splits>>

SplitLocations == {"read_custodial", "deduct_custodial", "read_channel", "zero_custodial",
                   "charge_rest", "charge_channel"}

\* A request keeps its cost and the balance it read.
Due(h) == local[h].due
Saw(h) == local[h].saw
Bill(n, b) == [due |-> n, saw |-> b]
Bills == [due : Costs, saw : Nat]

SplitInit == /\ custodial = Custodial /\ remaining = InChannel /\ changes = 0
             /\ taken = 0 /\ earned = 0 /\ overwritten = FALSE /\ forfeited = FALSE
-----------------------------------------------------------------------------
BeginCharge(h, n) == Begin(h, "read_custodial", Bill(n, 0)) /\ UNCHANGED splits

ReadCustodial(h) ==
    /\ At(h, "read_custodial")
    /\ Keep(h, IF custodial >= Due(h) THEN "deduct_custodial" ELSE "read_channel",
            Bill(Due(h), custodial))
    /\ UNCHANGED splits

\* Ok(ChargeResult).
Earn(h) == earned' = earned + Due(h) /\ End(h)

\* Mutant: rows_affected is not asked.
DeductCustodial_Unasked(h) ==
    /\ At(h, "deduct_custodial")
    /\ IF custodial >= Due(h)
       THEN custodial' = custodial - Due(h) /\ taken' = taken + Due(h)
       ELSE UNCHANGED <<custodial, taken>>
    /\ Earn(h)
    /\ UNCHANGED <<remaining, changes, overwritten, forfeited>>

\* ... AND txt_balance >= $1; no row, and the channel is tried.
DeductCustodial(h) ==
    /\ At(h, "deduct_custodial")
    /\ IF custodial >= Due(h)
       THEN custodial' = custodial - Due(h) /\ taken' = taken + Due(h) /\ Earn(h)
       ELSE Goto(h, "read_channel") /\ UNCHANGED <<custodial, taken, earned>>
    /\ UNCHANGED <<remaining, changes, overwritten, forfeited>>

(* What the channel is to add to the balance that was read.  A balance     *)
(* above the cost, whose deduction met no row, makes it negative, and as   *)
(* u128 larger than any channel; one equal to the cost makes it nothing.   *)
Rest(h) == Due(h) - Saw(h)

Splits(h) == Saw(h) > 0 /\ Rest(h) >= 0 /\ remaining >= Rest(h)

ReadChannel(h) ==
    /\ At(h, "read_channel")
    /\ IF Splits(h) THEN Goto(h, "zero_custodial")
       ELSE IF remaining >= Due(h) THEN Goto(h, "charge_channel")
       ELSE End(h)
    /\ UNCHANGED splits

\* UPDATE users SET txt_balance = 0, whatever it has become.
ZeroCustodial(h) ==
    /\ At(h, "zero_custodial")
    /\ custodial' = 0
    /\ taken' = taken + custodial
    /\ overwritten' = (overwritten \/ custodial # Saw(h))
    /\ Goto(h, "charge_rest")
    /\ UNCHANGED <<remaining, changes, earned, forfeited>>

\* charge checks the channel again, under its write lock: it may be too small
\* by now, or gone.
ChargeRest(h) ==
    /\ At(h, "charge_rest")
    /\ \/ /\ remaining >= Rest(h)
          /\ remaining' = remaining - Rest(h) /\ taken' = taken + Rest(h)
          /\ Earn(h) /\ UNCHANGED forfeited
       \/ /\ remaining < Rest(h) \/ remaining = 0
          /\ forfeited' = TRUE
          /\ End(h) /\ UNCHANGED <<remaining, taken, earned>>
    /\ UNCHANGED <<custodial, changes, overwritten>>

ChargeChannel(h) ==
    /\ At(h, "charge_channel")
    /\ IF remaining >= Due(h)
       THEN remaining' = remaining - Due(h) /\ taken' = taken + Due(h) /\ Earn(h)
       ELSE End(h) /\ UNCHANGED <<remaining, taken, earned>>
    /\ UNCHANGED <<custodial, changes, overwritten, forfeited>>

\* The timeout of the request, a failed statement or a crash.
DropCharge(h) == /\ Dropped(h)
                 /\ forfeited' = (forfeited \/ At(h, "charge_rest"))
                 /\ UNCHANGED <<purse, taken, earned, overwritten>>

\* credit_txt.
Credit == /\ changes < MaxChanges
          /\ custodial' = custodial + 1
          /\ changes' = changes + 1
          /\ UNCHANGED <<requests, remaining, taken, earned, overwritten, forfeited>>

\* Another tally is read from the chain, or the channel is settled or closed.
ChannelChanges == /\ changes < MaxChanges
                  /\ remaining' \in {0, remaining + 1}
                  /\ changes' = changes + 1
                  /\ UNCHANGED <<requests, custodial, taken, earned, overwritten, forfeited>>

SplitNext == \/ \E h \in Handlers :
                  \/ \E n \in Costs : BeginCharge(h, n)
                  \/ ReadCustodial(h) \/ DeductCustodial(h) \/ ReadChannel(h)
                  \/ ZeroCustodial(h) \/ ChargeRest(h) \/ ChargeChannel(h) \/ DropCharge(h)
             \/ Credit \/ ChannelChanges

SplitSpec == RequestsInit /\ SplitInit /\ [][SplitNext]_splitVars
-----------------------------------------------------------------------------
(* Type correctness.                                                       *)
SplitTypeOK == /\ RequestsTypeOK(SplitLocations, Bills)
               /\ custodial \in Nat /\ remaining \in Nat /\ changes \in 0..MaxChanges
               /\ taken \in Nat /\ earned \in Nat
               /\ overwritten \in BOOLEAN /\ forfeited \in BOOLEAN

\* Requests that have emptied the balance and not yet charged the rest.
HalfWay == {h \in Handlers : At(h, "charge_rest")}

(* Every unit that was taken paid for a charge that was answered Ok, or is *)
(* the custodial part of one that is about to charge the rest, and nothing *)
(* was given away, as long as no balance was overwritten that was not the  *)
(* one read, and no charge failed half way.  Only these two let balance    *)
(* and channel lose more, or less, than the charges that went through.     *)
TakenIsEarned ==
    ~overwritten /\ ~forfeited => taken = earned + SumFunction([h \in HalfWay |-> Saw(h)])
=============================================================================
