---------------------------- MODULE TxtAccounts ----------------------------
(***************************************************************************)
(* What the TXT balance promises to the rest of the system: a request      *)
(* takes its price out of its payer's balance at once and in full, or not  *)
(* at all, takes it once at a time, and may give it back; nothing else     *)
(* but a credit changes a balance.  Billing implements this.               *)
(***************************************************************************)
EXTENDS Integers

CONSTANTS Accounts, Requests, Payer, Cost, Amounts

VARIABLES balance,  \* TXT of each account
          charged   \* requests whose price is taken and not given back

avars == <<balance, charged>>

Init == /\ balance = [a \in Accounts |-> 0]
        /\ charged = {}

Credit(a, n) == /\ balance' = [balance EXCEPT ![a] = @ + n]
                /\ UNCHANGED charged

Take(r) == /\ r \notin charged
           /\ Payer[r] \in Accounts
           /\ balance[Payer[r]] >= Cost[r]
           /\ balance' = [balance EXCEPT ![Payer[r]] = @ - Cost[r]]
           /\ charged' = charged \cup {r}

GiveBack(r) == /\ r \in charged
               /\ balance' = [balance EXCEPT ![Payer[r]] = @ + Cost[r]]
               /\ charged' = charged \ {r}

Next == \/ \E a \in Accounts, n \in Amounts : Credit(a, n)
        \/ \E r \in Requests : Take(r) \/ GiveBack(r)

Spec == Init /\ [][Next]_avars
=============================================================================
