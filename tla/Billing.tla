------------------------------ MODULE Billing ------------------------------
(***************************************************************************)
(* How a synthesis request is paid for: the /process and /tts handlers     *)
(* (sonotxt-api/src/routes/api.rs) with check_and_charge                   *)
(* (services/billing.rs) and the free tier (auth/free_tier.rs), and the    *)
(* withdrawal of TXT (routes/billing.rs).                                  *)
(*                                                                         *)
(* Every request runs in a task of its own; each step is one statement or  *)
(* one committed transaction.  A task ends early when a statement fails,   *)
(* when the request times out or the client leaves (its future is          *)
(* dropped), or when the process dies: Drop.                               *)
(***************************************************************************)
EXTENDS Integers, FiniteSetsExt

CONSTANTS Accounts,   \* accounts that authenticate
          Visitors,   \* ip hashes of anonymous callers
          Requests,   \* the requests of this instance, each made once
          Route,      \* the handler each one runs
          Payer,      \* its account or ip hash
          Chars,      \* length of its text
          Cost,       \* its price in TXT, or the amount withdrawn
          Limit,      \* characters per day of each payer, 1000 or 300
          Amounts,    \* amounts of TXT that are credited
          MaxGranted, \* bound on the TXT credited to an account
          MaxDay,     \* bound on the date
          MaxFaults   \* bound on dropped tasks and failed statements

Routes == {"process", "tts", "anonymous", "withdraw"}
Payers == Accounts \cup Visitors

ASSUME BillingAssumption ==
    /\ Accounts \cap Visitors = {}
    /\ Route \in [Requests -> Routes]
    /\ Payer \in [Requests -> Payers]
    /\ Chars \in [Requests -> Nat]
    /\ Cost \in [Requests -> Nat]
    /\ Limit \in [Payers -> Nat]
    /\ Amounts \subseteq Nat
    /\ MaxGranted \in Nat /\ MaxDay \in Nat /\ MaxFaults \in Nat
    /\ \A r \in Requests : /\ Payer[r] \in Visitors <=> Route[r] = "anonymous"
                           /\ Route[r] = "withdraw" => Cost[r] > 0

VARIABLES balance,  \* users.txt_balance
          granted,  \* TXT credited to each account so far
          charged,  \* requests whose price is taken and not given back
          used,     \* free_tier_usage.chars_used
          reset,    \* free_tier_usage.last_reset
          day,      \* CURRENT_DATE
          job,      \* the job row of each request: none, paid or free
          sent,     \* withdrawals that reached the chain
          pc,       \* where each request is
          raced,    \* payers two of whose requests passed the check together
          faults

vars == <<balance, granted, charged, used, reset, day, job, sent, pc, raced, faults>>
money == <<balance, granted, charged>>
allowance == <<used, reset, raced>>
made == <<job, sent>>

Locations == {"new", "read", "charge", "insert", "check", "consume",
              "insert_free", "deduct", "send", "rollback", "done"}

Init == /\ balance = [a \in Accounts |-> 0]
        /\ granted = [a \in Accounts |-> 0]
        /\ charged = {}
        /\ used = [k \in Payers |-> 0]
        /\ reset = [k \in Payers |-> 0]
        /\ day = 0
        /\ job = [r \in Requests |-> "none"]
        /\ sent = {}
        /\ pc = [r \in Requests |-> "new"]
        /\ raced = {}
        /\ faults = 0
-----------------------------------------------------------------------------
At(r, loc) == pc[r] = loc
Goto(r, loc) == pc' = [pc EXCEPT ![r] = loc]

NoFault == UNCHANGED faults
Fault == faults < MaxFaults /\ faults' = faults + 1

Affordable(r) == balance[Payer[r]] >= Cost[r]

\* Mutant: AND txt_balance >= $1 is left to the SELECT before.
Take_Unchecked(r) == /\ balance' = [balance EXCEPT ![Payer[r]] = @ - Cost[r]]
                     /\ charged' = charged \cup {r}
                     /\ UNCHANGED granted

\* UPDATE users SET txt_balance = txt_balance - $1 ... AND txt_balance >= $1
Take(r) == /\ Affordable(r)
           /\ balance' = [balance EXCEPT ![Payer[r]] = @ - Cost[r]]
           /\ charged' = charged \cup {r}
           /\ UNCHANGED granted

\* The handler begins; check_and_charge returns at once when nothing is due.
Arrive(r) ==
    /\ At(r, "new")
    /\ Goto(r, CASE Route[r] = "withdraw"  -> "deduct"
                 [] Route[r] = "anonymous" -> "check"
                 [] OTHER -> IF Cost[r] = 0 THEN "insert" ELSE "read")
    /\ NoFault
    /\ UNCHANGED <<money, allowance, made, day>>

\* billing::credit_txt, one transaction
CreditTxt(a, n) == /\ granted[a] + n <= MaxGranted
                   /\ balance' = [balance EXCEPT ![a] = @ + n]
                   /\ granted' = [granted EXCEPT ![a] = @ + n]
                   /\ NoFault
                   /\ UNCHANGED <<charged, allowance, made, day, pc>>

NextDay == /\ day < MaxDay
           /\ day' = day + 1
           /\ NoFault
           /\ UNCHANGED <<money, allowance, made, pc>>
-----------------------------------------------------------------------------
\* check_and_charge returned an error: /process passes it on, /tts takes
\* whatever error it is for an empty balance and turns to the free tier.
Unpaid(r) == Goto(r, IF Route[r] = "tts" THEN "check" ELSE "done")

\* SELECT txt_balance FROM users WHERE id = $1
ReadBalance(r) == /\ At(r, "read")
                  /\ IF Affordable(r) THEN Goto(r, "charge") ELSE Unpaid(r)
                  /\ NoFault
                  /\ UNCHANGED <<money, allowance, made, day>>

Charge(r) == /\ At(r, "charge")
             /\ Take(r)
             /\ Goto(r, "insert")
             /\ NoFault
             /\ UNCHANGED <<allowance, made, day>>

\* Mutant: the result of the conditional UPDATE is not looked at.
ChargeTooLate_Ignored(r) == /\ At(r, "charge")
                            /\ ~Affordable(r)
                            /\ Goto(r, "insert")
                            /\ NoFault
                            /\ UNCHANGED <<money, allowance, made, day>>

\* Another charge or withdrawal was faster: no row is updated.
ChargeTooLate(r) == /\ At(r, "charge")
                    /\ ~Affordable(r)
                    /\ Unpaid(r)
                    /\ NoFault
                    /\ UNCHANGED <<money, allowance, made, day>>

\* A statement of check_and_charge fails, before or after its commit.
ChargeFails(r) == /\ At(r, "read") \/ At(r, "charge")
                  /\ Unpaid(r)
                  /\ Fault
                  /\ UNCHANGED <<money, allowance, made, day>>

ChargeReplyLost(r) == /\ At(r, "charge")
                      /\ Take(r)
                      /\ Unpaid(r)
                      /\ Fault
                      /\ UNCHANGED <<allowance, made, day>>

\* INSERT INTO jobs ... 'queued'
InsertJob(r) == /\ At(r, "insert")
                /\ job' = [job EXCEPT ![r] = "paid"]
                /\ Goto(r, "done")
                /\ NoFault
                /\ UNCHANGED <<money, allowance, sent, day>>
-----------------------------------------------------------------------------
\* The chars_used the upsert of check_free_tier_limit_with leaves behind.
UsedToday(k) == IF reset[k] < day THEN 0 ELSE used[k]

Overlapping(k) == \E q \in Requests : Payer[q] = k /\ At(q, "consume")

\* Mutant: whoever has anything left may go on.
CheckAllowance_AnyLeft(r) ==
    LET k == Payer[r] IN
    /\ At(r, "check")
    /\ used' = [used EXCEPT ![k] = UsedToday(k)]
    /\ reset' = [reset EXCEPT ![k] = day]
    /\ IF Limit[k] - UsedToday(k) <= 0
       THEN Goto(r, "done") /\ UNCHANGED raced
       ELSE /\ Goto(r, "consume")
            /\ raced' = IF Overlapping(k) THEN raced \cup {k} ELSE raced
    /\ NoFault
    /\ UNCHANGED <<money, made, day>>

CheckAllowance(r) ==
    LET k == Payer[r] IN
    /\ At(r, "check")
    /\ used' = [used EXCEPT ![k] = UsedToday(k)]
    /\ reset' = [reset EXCEPT ![k] = day]
    /\ IF Limit[k] - UsedToday(k) < Chars[r]
       THEN Goto(r, "done") /\ UNCHANGED raced
       ELSE /\ Goto(r, "consume")
            /\ raced' = IF Overlapping(k) THEN raced \cup {k} ELSE raced
    /\ NoFault
    /\ UNCHANGED <<money, made, day>>

\* free_balance: a visitor who asks what is left resets the counter of the day
\* before; the answer to somebody logged in is a constant.
FreeBalance(k) == /\ used' = [used EXCEPT ![k] = UsedToday(k)]
                  /\ reset' = [reset EXCEPT ![k] = day]
                  /\ NoFault
                  /\ UNCHANGED <<money, raced, made, day, pc>>

\* UPDATE free_tier_usage SET chars_used = chars_used + $1
Consume(r) == used' = [used EXCEPT ![Payer[r]] = @ + Chars[r]]

\* consume_free_tier
ConsumeLoggedIn(r) == /\ At(r, "consume")
                      /\ Route[r] = "tts"
                      /\ Consume(r)
                      /\ Goto(r, "insert_free")
                      /\ NoFault
                      /\ UNCHANGED <<money, reset, raced, made, day>>

InsertFreeJob(r) == /\ At(r, "insert_free")
                    /\ job' = [job EXCEPT ![r] = "free"]
                    /\ Goto(r, "done")
                    /\ NoFault
                    /\ UNCHANGED <<money, allowance, sent, day>>

\* An anonymous request consumes and inserts in one transaction.
ConsumeAnonymous(r) == /\ At(r, "consume")
                       /\ Route[r] = "anonymous"
                       /\ Consume(r)
                       /\ job' = [job EXCEPT ![r] = "free"]
                       /\ Goto(r, "done")
                       /\ NoFault
                       /\ UNCHANGED <<money, reset, raced, sent, day>>
-----------------------------------------------------------------------------
\* withdraw_txt
Deduct(r) == /\ At(r, "deduct")
             /\ Take(r)
             /\ Goto(r, "send")
             /\ NoFault
             /\ UNCHANGED <<allowance, made, day>>

DeductRefused(r) == /\ At(r, "deduct")
                    /\ ~Affordable(r)
                    /\ Goto(r, "done")
                    /\ NoFault
                    /\ UNCHANGED <<money, allowance, made, day>>

\* sono.drip_testnet: the transfer is broadcast, then its receipt awaited.
Send(r) == /\ At(r, "send")
           /\ sent' = sent \cup {r}
           /\ Goto(r, "done")
           /\ NoFault
           /\ UNCHANGED <<money, allowance, job, day>>

\* An error before the broadcast, or after it.
SendFails(r) == /\ At(r, "send")
                /\ sent' \in {sent, sent \cup {r}}
                /\ Goto(r, "rollback")
                /\ NoFault
                /\ UNCHANGED <<money, allowance, job, day>>

\* Mutant: the re-credit is repeated.
Rollback_Retried(r) == /\ At(r, "rollback")
                       /\ balance' = [balance EXCEPT ![Payer[r]] = @ + Cost[r]]
                       /\ charged' = charged \ {r}
                       /\ NoFault
                       /\ UNCHANGED <<granted, allowance, made, day, pc>>

\* The balance is credited again; the result of the UPDATE is ignored.
Rollback(r) == /\ At(r, "rollback")
               /\ balance' = [balance EXCEPT ![Payer[r]] = @ + Cost[r]]
               /\ charged' = charged \ {r}
               /\ Goto(r, "done")
               /\ NoFault
               /\ UNCHANGED <<granted, allowance, made, day>>

\* The task ends between two statements, or with the one it was about to make.
Drop(r) == /\ pc[r] \notin {"new", "done"}
           /\ Goto(r, "done")
           /\ Fault
           /\ UNCHANGED <<money, allowance, made, day>>
-----------------------------------------------------------------------------
Step(r) == \/ Arrive(r)
           \/ ReadBalance(r) \/ Charge(r) \/ ChargeTooLate(r) \/ InsertJob(r)
           \/ CheckAllowance(r) \/ ConsumeLoggedIn(r) \/ InsertFreeJob(r)
           \/ ConsumeAnonymous(r)
           \/ Deduct(r) \/ DeductRefused(r)
           \/ Send(r) \/ SendFails(r) \/ Rollback(r)

Faulty(r) == ChargeFails(r) \/ ChargeReplyLost(r) \/ Drop(r)

Next == \/ NextDay
        \/ \E a \in Accounts, n \in Amounts : CreditTxt(a, n)
        \/ \E k \in Visitors : FreeBalance(k)
        \/ \E r \in Requests : Step(r) \/ Faulty(r)

Spec == Init /\ [][Next]_vars
-----------------------------------------------------------------------------
TypeOK ==
    /\ balance \in [Accounts -> Int]
    /\ granted \in [Accounts -> Nat]
    /\ charged \in SUBSET Requests
    /\ used \in [Payers -> Nat]
    /\ reset \in [Payers -> 0..MaxDay]
    /\ day \in 0..MaxDay
    /\ job \in [Requests -> {"none", "paid", "free"}]
    /\ sent \in SUBSET Requests
    /\ pc \in [Requests -> Locations]
    /\ raced \in SUBSET Payers
    /\ faults \in 0..MaxFaults

\* Two requests that saw the same balance do not both take it: the balance
\* never goes below zero (services/billing.rs:57-79).
NeverOverdrawn == \A a \in Accounts : balance[a] >= 0

\* A job that is queued as paid was paid for in full, and its price was not
\* given back (routes/api.rs:165-183, 248-271).
PaidJobIsCharged ==
    \A r \in Requests : job[r] = "paid" /\ Cost[r] > 0 => r \in charged

\* Nothing is taken for nothing: TXT that was taken has bought a paid job or a
\* transfer, or its request is still at work, unless a task was dropped or a
\* statement failed.  In particular a free job is not charged.
ChargeBuysSomething ==
    \A r \in charged : \/ job[r] = "paid"
                       \/ r \in sent
                       \/ pc[r] \in {"insert", "send", "rollback"}
                       \/ faults > 0

\* Jobs and charges go together, in both directions.
ChargeMatchesJob == PaidJobIsCharged /\ ChargeBuysSomething

\* What an account holds and has spent on jobs was credited to it before,
\* whatever charges, credits, withdrawals and failures were interleaved.
BooksBalance ==
    \A a \in Accounts :
        LET paid == {r \in Requests : Payer[r] = a /\ job[r] = "paid"}
        IN  balance[a] + SumFunctionOnSet(Cost, paid) <= granted[a]

\* Only requests of the same payer that pass the check together can use more
\* than the daily allowance (auth/free_tier.rs:206-258).
OverLimitOnlyByRace == \A k \in Payers : used[k] > Limit[k] => k \in raced

\* What is used up today stays used up today, however often it is checked: the
\* counter goes down only with a later date of last reset.
UsedUpForTheDay == \A k \in Payers : used'[k] < used[k] => reset[k] < reset'[k]

\* The daily allowance is a limit, and one a day: a second step over it takes
\* a race, and a counter that is full stays full until a later day's reset.
DailyAllowance == [][OverLimitOnlyByRace' /\ UsedUpForTheDay]_vars

\* The statements of all requests together keep the promises of TxtAccounts.
Ledger == INSTANCE TxtAccounts
ImplementsAccounts == Ledger!Spec
-----------------------------------------------------------------------------
\* What comments of the code say and the code does not do.

\* routes/api.rs:284 "fall back to logged-in free tier (1000 chars/day)"
DailyLimitHolds == \A k \in Payers : used[k] <= Limit[k]

\* routes/billing.rs:183 "Rollback: re-credit the balance": the TXT of a
\* withdrawal is either on the chain or in the balance.
WithdrawnOrKept == \A r \in sent : pc[r] = "done" => r \in charged

\* routes/api.rs:256 "Paid - create job": a request that was charged has its
\* job when its handler is through.
ChargedRequestHasJob ==
    \A r \in charged :
        Route[r] # "withdraw" /\ pc[r] = "done" => job[r] = "paid"
=============================================================================
