------------------------------ MODULE Deposits ------------------------------
(***************************************************************************)
(* From a payment made outside to a balance: the Stripe webhook            *)
(* (sonotxt-api/src/routes/payments.rs), the Asset Hub and Penumbra        *)
(* callbacks (services/payments) and the Penumbra deposits users record    *)
(* themselves, all writing the deposits table.                             *)
(*                                                                         *)
(* A handler is one delivery being processed, in one of several API        *)
(* processes; each step is one statement or one committed transaction.     *)
(* A failed statement, a reply lost after the commit, the request timeout  *)
(* and a crash look the same to the database: the handler is gone, Drop.   *)
(***************************************************************************)
EXTENDS Naturals

CONSTANTS Payments,   \* payments made outside, identified by their tx_hash
          Chain,      \* where each one is made
          Known,      \* payments whose receiver resolves to an account
          HasUser,    \* payments whose account id also is a users.id
          HasCredits, \* payments whose account has a row in account_credits
          Sweepable,  \* USDC and USDT of a deployment with a sweeper
          Handlers,   \* concurrent executions of a handler
          Home,       \* the API process each one runs in
          NoPayment,  \* "no payment in hand"
          MaxFaults   \* bound on dropped handlers and failed checks

Chains == {"stripe", "polkadot_assethub", "penumbra"}

ASSUME DepositsAssumption ==
    /\ NoPayment \notin Payments
    /\ Chain \in [Payments -> Chains]
    /\ Sweepable \subseteq {p \in Payments : Chain[p] = "polkadot_assethub"}
    /\ MaxFaults \in Nat

VARIABLES arrived,  \* payments made so far
          row,      \* deposits.status by tx_hash, "none" without a row
          usd,      \* times added to account_credits.balance
          txt,      \* times added to users.txt_balance
          swept,    \* times moved on to the medium wallet
          owed,     \* payments whose last sweep failed
          acked,    \* payments some delivery of which was answered with Ok
          pc, cur,  \* where each handler is, and with which payment
          faults

vars == <<arrived, row, usd, txt, swept, owed, acked, pc, cur, faults>>
balances == <<usd, txt>>
sweeps == <<swept, owed>>

Rows == {"none", "pending", "confirmed", "credited"}
Crediting == {"credit_txt", "credit"}
Locations == Crediting \cup
    {"idle", "lookup", "check", "insert", "sweep", "record", "record_insert"}

Init == /\ arrived = {}
        /\ row = [p \in Payments |-> "none"]
        /\ usd = [p \in Payments |-> 0]
        /\ txt = [p \in Payments |-> 0]
        /\ swept = [p \in Payments |-> 0]
        /\ owed = {}
        /\ acked = {}
        /\ pc = [h \in Handlers |-> "idle"]
        /\ cur = [h \in Handlers |-> NoPayment]
        /\ faults = 0
-----------------------------------------------------------------------------
At(h, loc) == pc[h] = loc

\* The handler goes on with its payment.
Goto(h, loc) == /\ pc' = [pc EXCEPT ![h] = loc]
                /\ UNCHANGED <<cur, acked>>

\* The handler starts with payment p.
Begin(h, p, loc) == /\ At(h, "idle")
                    /\ pc' = [pc EXCEPT ![h] = loc]
                    /\ cur' = [cur EXCEPT ![h] = p]
                    /\ UNCHANGED acked

End(h) == /\ pc' = [pc EXCEPT ![h] = "idle"]
          /\ cur' = [cur EXCEPT ![h] = NoPayment]

Answer(h) == End(h) /\ acked' = acked \cup {cur[h]}

\* Mutant: errors are answered like successes.
Fail_Answered(h) == End(h) /\ acked' = acked \cup {cur[h]}

Fail(h) == End(h) /\ UNCHANGED acked

NoFault == UNCHANGED faults
Fault == faults < MaxFaults /\ faults' = faults + 1

Recording == {"record", "record_insert"}

\* state.payments.write(): one webhook at a time in each process.
Unlocked(h) == \A g \in Handlers :
    Home[g] = Home[h] /\ pc[g] \notin Recording \cup {"idle"}
        => Chain[cur[g]] # "stripe"
-----------------------------------------------------------------------------
Arrive(p) == /\ arrived' = arrived \cup {p}
             /\ NoFault
             /\ UNCHANGED <<row, balances, sweeps, acked, pc, cur>>

\* A webhook call or a listener callback, the first one or a repeated one.
Deliver(h, p) ==
    /\ p \in arrived
    /\ Chain[p] = "stripe" => Unlocked(h)
    /\ Begin(h, p, IF Chain[p] = "penumbra" THEN "lookup" ELSE "check")
    /\ NoFault
    /\ UNCHANGED <<arrived, row, balances, sweeps>>

\* PenumbraDepositHandler: SELECT account_id ... WHERE penumbra_index = $1
Lookup(h) == /\ At(h, "lookup")
             /\ IF cur[h] \in Known THEN Goto(h, "check") ELSE Answer(h)
             /\ NoFault
             /\ UNCHANGED <<arrived, row, balances, sweeps>>

\* SELECT EXISTS(SELECT 1 FROM deposits WHERE tx_hash = $1)
CheckNew(h) == /\ At(h, "check")
               /\ row[cur[h]] = "none"
               /\ Goto(h, "insert")
               /\ NoFault
               /\ UNCHANGED <<arrived, row, balances, sweeps>>

\* Mutant: a duplicate of an uncredited row is credited.
CheckDuplicate_Resume(h) ==
    /\ At(h, "check")
    /\ row[cur[h]] # "none"
    /\ IF row[cur[h]] = "confirmed" THEN Goto(h, "credit") ELSE Answer(h)
    /\ NoFault
    /\ UNCHANGED <<arrived, row, balances, sweeps>>

CheckDuplicate(h) == /\ At(h, "check")
                     /\ row[cur[h]] # "none"
                     /\ Answer(h)
                     /\ NoFault
                     /\ UNCHANGED <<arrived, row, balances, sweeps>>

\* The webhook and record_deposit take a failed check for "no duplicate":
\* unwrap_or(false).
CheckUnreadable(h) ==
    /\ \/ At(h, "check") /\ Chain[cur[h]] = "stripe" /\ Goto(h, "insert")
       \/ At(h, "record") /\ Goto(h, "record_insert")
    /\ Fault
    /\ UNCHANGED <<arrived, row, balances, sweeps>>

\* A checkout is credited in TXT first.
FirstCredit(p) == IF Chain[p] = "stripe" THEN "credit_txt" ELSE "credit"

\* Mutant: the credit is left to a confirmation that comes later.
InsertRow_Deferred(h) == /\ At(h, "insert")
                         /\ row[cur[h]] = "none"
                         /\ row' = [row EXCEPT ![cur[h]] = "confirmed"]
                         /\ Answer(h)
                         /\ NoFault
                         /\ UNCHANGED <<arrived, balances, sweeps>>

\* INSERT INTO deposits ... 'confirmed'
InsertRow(h) ==
    /\ At(h, "insert")
    /\ row[cur[h]] = "none"
    /\ row' = [row EXCEPT ![cur[h]] = "confirmed"]
    /\ Goto(h, FirstCredit(cur[h]))
    /\ NoFault
    /\ UNCHANGED <<arrived, balances, sweeps>>

\* tx_hash TEXT NOT NULL UNIQUE
InsertConflict(h) == /\ At(h, "insert")
                     /\ row[cur[h]] # "none"
                     /\ Fail(h)
                     /\ NoFault
                     /\ UNCHANGED <<arrived, row, balances, sweeps>>

\* billing::credit_txt, one transaction
CreditTxt(h) == /\ At(h, "credit_txt")
                /\ cur[h] \in HasUser
                /\ txt' = [txt EXCEPT ![cur[h]] = @ + 1]
                /\ Goto(h, "credit")
                /\ NoFault
                /\ UNCHANGED <<arrived, row, usd, sweeps>>

\* Mutant: a missing users row is passed over.
CreditTxtNoUser_Ignored(h) == /\ At(h, "credit_txt")
                              /\ cur[h] \notin HasUser
                              /\ Goto(h, "credit")
                              /\ NoFault
                              /\ UNCHANGED <<arrived, row, balances, sweeps>>

\* UPDATE users ... WHERE id = account_id finds no row: fetch_one fails.
CreditTxtNoUser(h) == /\ At(h, "credit_txt")
                      /\ cur[h] \notin HasUser
                      /\ Fail(h)
                      /\ NoFault
                      /\ UNCHANGED <<arrived, row, balances, sweeps>>

\* payments::credit_deposit, one transaction.  Its UPDATE account_credits may
\* match no row, which is no error: the deposit is marked all the same.
CreditDeposit(h) ==
    /\ At(h, "credit")
    /\ row' = [row EXCEPT ![cur[h]] = "credited"]
    /\ usd' = [usd EXCEPT ![cur[h]] = IF cur[h] \in HasCredits THEN @ + 1 ELSE @]
    /\ IF cur[h] \in Sweepable THEN Goto(h, "sweep") ELSE Answer(h)
    /\ NoFault
    /\ UNCHANGED <<arrived, txt, sweeps>>

\* sweeper.sweep_assets returns: done or skipped, or an error that says
\* nothing about whether the transfer went through.
SweepDone(h) == /\ At(h, "sweep")
                /\ \/ swept' = [swept EXCEPT ![cur[h]] = @ + 1]
                   \/ UNCHANGED swept
                /\ owed' = owed \ {cur[h]}
                /\ Answer(h)
                /\ NoFault
                /\ UNCHANGED <<arrived, row, balances>>

SweepFailed(h) == /\ At(h, "sweep")
                  /\ \/ swept' = [swept EXCEPT ![cur[h]] = @ + 1]
                     \/ UNCHANGED swept
                  /\ owed' = owed \cup {cur[h]}
                  /\ Answer(h)
                  /\ NoFault
                  /\ UNCHANGED <<arrived, row, balances>>
-----------------------------------------------------------------------------
\* A user reports a payment as one on Penumbra, made or not and on whatever
\* chain, since any tx_hash is taken: record_deposit.
Record(h, p) == /\ Begin(h, p, "record")
                /\ NoFault
                /\ UNCHANGED <<arrived, row, balances, sweeps>>

RecordCheck(h) == /\ At(h, "record")
                  /\ IF row[cur[h]] = "none" THEN Goto(h, "record_insert") ELSE Fail(h)
                  /\ NoFault
                  /\ UNCHANGED <<arrived, row, balances, sweeps>>

\* INSERT INTO deposits ... 'pending', or the UNIQUE constraint refuses it
RecordInsert(h) ==
    /\ At(h, "record_insert")
    /\ row' = [row EXCEPT ![cur[h]] = IF @ = "none" THEN "pending" ELSE @]
    /\ Fail(h)
    /\ NoFault
    /\ UNCHANGED <<arrived, balances, sweeps>>

Drop(h) == /\ ~At(h, "idle")
           /\ Fault
           /\ Fail(h)
           /\ UNCHANGED <<arrived, row, balances, sweeps>>
-----------------------------------------------------------------------------
Work(h) == \/ Lookup(h)
           \/ CheckNew(h) \/ CheckDuplicate(h)
           \/ InsertRow(h) \/ InsertConflict(h)
           \/ CreditTxt(h) \/ CreditTxtNoUser(h) \/ CreditDeposit(h)
           \/ SweepDone(h) \/ SweepFailed(h)
           \/ RecordCheck(h) \/ RecordInsert(h)

Next == \/ \E p \in Payments : Arrive(p)
        \/ \E h \in Handlers :
              \/ \E p \in Payments : Deliver(h, p) \/ Record(h, p)
              \/ Work(h) \/ CheckUnreadable(h) \/ Drop(h)

Spec == Init /\ [][Next]_vars

\* A running handler goes on, and Stripe reports a checkout until some delivery
\* of it is answered with Ok.  Nobody obliges the listeners of the chains to
\* report a payment, the first time or again: one that fails is not restarted.
Redeliver(p) == /\ Chain[p] = "stripe"
                /\ p \notin acked
                /\ \E h \in Handlers : Deliver(h, p)

FairSpec == /\ Spec
            /\ \A h \in Handlers : WF_vars(Work(h))
            /\ \A p \in Payments : SF_vars(Redeliver(p))
-----------------------------------------------------------------------------
\* Recorded, and no handler on the way to crediting it.
Abandoned(p) == /\ row[p] = "confirmed"
                /\ \A h \in Handlers : cur[h] = p => pc[h] \notin Crediting

\* Payments that get through the handlers.
Creditable(p) == /\ Chain[p] = "penumbra" => p \in Known
                 /\ Chain[p] = "stripe" => p \in HasUser

\* Some handler is at work on a delivery of p.
UnderWay(p) == \E h \in Handlers : cur[h] = p /\ pc[h] \notin Recording

TypeOK ==
    /\ arrived \in SUBSET Payments
    /\ row \in [Payments -> Rows]
    /\ usd \in [Payments -> Nat]
    /\ txt \in [Payments -> Nat]
    /\ swept \in [Payments -> Nat]
    /\ owed \in SUBSET Payments
    /\ acked \in SUBSET Payments
    /\ pc \in [Handlers -> Locations]
    /\ cur \in [Handlers -> Payments \cup {NoPayment}]
    /\ faults \in 0..MaxFaults

\* However often a payment is reported and to however many processes, it is
\* added once at most to either balance (check and insert are two statements;
\* the UNIQUE tx_hash decides the race: payments/assethub.rs:350-381).
CreditedOnce == \A p \in Payments : usd[p] <= 1 /\ txt[p] <= 1

\* What was added to account_credits has a row that says "credited", and such a
\* row means that the amount was added wherever there was a row to add it to,
\* for a checkout with the TXT credited too (routes/payments.rs:205-209).
CreditedRowIsPaidUp ==
    \A p \in Payments :
        /\ usd[p] > 0 => row[p] = "credited"
        /\ row[p] = "credited" /\ p \in HasCredits => usd[p] > 0
        /\ row[p] = "credited" /\ Chain[p] = "stripe" => txt[p] > 0

\* A row is left in "confirmed" with nobody working on it only by a dropped
\* handler, or by a checkout whose account is not a user of the TXT ledger.
StrandedOnlyAfterFault ==
    \A p \in Payments : Abandoned(p) => faults > 0 \/ ~Creditable(p)

\* Funds leave a deposit address once at most and never before the row says
\* "credited" (payments/assethub.rs:391-428).
SweptOnceAfterCredit ==
    \A p \in Payments : /\ swept[p] <= 1
                        /\ swept[p] > 0 => row[p] = "credited"

\* Rows, balances and sweeps agree.
FundsFollowCredit == CreditedRowIsPaidUp /\ SweptOnceAfterCredit

\* Both balances grow as PaymentLedger says.
Usd == INSTANCE PaymentLedger WITH paid <- usd
Txt == INSTANCE PaymentLedger WITH paid <- txt
ImplementsLedgers == Usd!Spec /\ Txt!Spec

\* A checkout that was made, and any other payment whose delivery was begun, is
\* eventually added to account_credits, with these exceptions and no other: the
\* account has no row there, its receiver or user is unknown, a user recorded
\* the hash first, a dropped handler left the row behind, or one that is not
\* Stripe's was dropped before the row (payments.rs:142-217, assethub.rs:346-390).
Lost(p) == faults > 0 /\ row[p] = "none" /\ ~UnderWay(p)

ArrivedIsCredited ==
    \A p \in Payments :
        \/ Chain[p] = "stripe" /\ p \in arrived
        \/ UnderWay(p)
            ~> \/ usd[p] > 0
               \/ p \notin HasCredits
               \/ ~Creditable(p)
               \/ row[p] = "pending"
               \/ Abandoned(p)
               \/ Chain[p] # "stripe" /\ Lost(p)
-----------------------------------------------------------------------------
\* What comments of the code say and the code does not do.

\* payments/mod.rs:11 "credit account after confirmed deposit"
ConfirmedIsCredited ==
    \A p \in Payments : row[p] = "confirmed" ~> row[p] = "credited"

\* migrations/002_auth_payments.sql:49 'pending', 'confirmed', 'credited': a
\* pending row is the first stage of a deposit, so a payment that is recorded
\* and was made is credited.
RecordedIsCredited ==
    \A p \in Payments : row[p] = "pending" /\ p \in arrived ~> row[p] = "credited"

\* payments/assethub.rs:440 "sweep failed (will retry)"
FailedSweepIsRetried == \A p \in Payments : p \in owed ~> p \notin owed
=============================================================================
