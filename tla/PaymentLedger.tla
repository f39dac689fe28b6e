--------------------------- MODULE PaymentLedger ---------------------------
(***************************************************************************)
(* What a balance promises to whoever pays in: a payment that was really   *)
(* made is added to the balance, and it is added once, however often and   *)
(* to however many processes it is reported.  Deposits implements this     *)
(* twice, for account_credits.balance and for users.txt_balance.           *)
(***************************************************************************)
EXTENDS Naturals

CONSTANT Payments

VARIABLES arrived,  \* the payments made
          paid      \* how often each one was added to the balance

lvars == <<arrived, paid>>

Init == /\ arrived = {}
        /\ paid = [p \in Payments |-> 0]

Arrive(p) == /\ arrived' = arrived \cup {p}
             /\ UNCHANGED paid

Credit(p) == /\ p \in arrived
             /\ paid[p] = 0
             /\ paid' = [paid EXCEPT ![p] = 1]
             /\ UNCHANGED arrived

Next == \E p \in Payments : Arrive(p) \/ Credit(p)

Spec == Init /\ [][Next]_lvars
=============================================================================
