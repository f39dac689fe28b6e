--------------------------- MODULE BillingProofs ---------------------------
(***************************************************************************)
(* Proofs about Billing for any set of accounts, visitors and requests,    *)
(* any prices and limits, and any bounds.                                  *)
(***************************************************************************)
EXTENDS Billing, SumProofs, TLAPS

\* Every handler stays within its own steps.
RouteOfStep ==
    \A r \in Requests :
        /\ pc[r] \in {"read", "charge", "insert"} => Route[r] \in {"process", "tts"}
        /\ pc[r] \in {"check", "consume"} => Route[r] \in {"tts", "anonymous"}
        /\ pc[r] = "insert_free" => Route[r] = "tts"
        /\ pc[r] \in {"deduct", "send", "rollback"} => Route[r] = "withdraw"

Shape == TypeOK /\ RouteOfStep

\* What the place of a request says about its money and its job.
StepTellsCharge ==
    \A r \in Requests :
        /\ pc[r] \in {"new", "read", "charge", "deduct"} => r \notin charged
        /\ pc[r] = "insert" /\ Cost[r] > 0 => r \in charged
        /\ pc[r] \in {"send", "rollback"} => r \in charged
        /\ job[r] # "none" => pc[r] = "done"
        /\ r \in sent => pc[r] \in {"rollback", "done"}

\* The money part of the inductive invariant.
Money == /\ StepTellsCharge
         /\ NeverOverdrawn
         /\ PaidJobIsCharged
         /\ ChargeBuysSomething

\* A request that passed the check alone still fits into the allowance.
Fits == \A r \in Requests :
            pc[r] = "consume" /\ Payer[r] \notin raced =>
                /\ used[Payer[r]] + Chars[r] <= Limit[Payer[r]]
                /\ \A q \in Requests :
                      pc[q] = "consume" /\ Payer[q] = Payer[r] => q = r

\* The allowance part of the inductive invariant.
Allowance == Fits /\ OverLimitOnlyByRace

USE DEF At, Goto, NoFault, Fault, money, allowance, made
-----------------------------------------------------------------------------
\* A request that pays has an account.
LEMMA PayerHasAccount ==
    ASSUME NEW r \in Requests, Route[r] # "anonymous"
    PROVE  Payer[r] \in Accounts
BY BillingAssumption DEF Payers

\* Every action keeps the types, and each handler to its own steps.
LEMMA NextShape == Shape /\ [Next]_vars => Shape'
<1> SUFFICES ASSUME Shape, [Next]_vars PROVE Shape'
  OBVIOUS
<1> USE BillingAssumption DEF Shape, TypeOK, RouteOfStep, Routes, Payers, Locations
<1>1. CASE NextDay
  BY <1>1 DEF NextDay
<1>2. ASSUME NEW a \in Accounts, NEW n \in Amounts, CreditTxt(a, n) PROVE Shape'
  BY <1>2 DEF CreditTxt
<1>3. ASSUME NEW r \in Requests, Arrive(r) PROVE Shape'
  BY <1>3 DEF Arrive
<1>4. ASSUME NEW r \in Requests,
             ReadBalance(r) \/ ChargeTooLate(r) \/ ChargeFails(r)
      PROVE  Shape'
  BY <1>4 DEF ReadBalance, ChargeTooLate, ChargeFails, Unpaid
<1>5. ASSUME NEW r \in Requests, Charge(r) \/ ChargeReplyLost(r) \/ Deduct(r)
      PROVE  Shape'
  <2>1. Payer[r] \in Accounts
    BY <1>5, PayerHasAccount DEF Charge, ChargeReplyLost, Deduct
  <2>2. QED
    BY <1>5, <2>1 DEF Charge, ChargeReplyLost, Deduct, Take, Unpaid
<1>6. ASSUME NEW r \in Requests, InsertJob(r) \/ InsertFreeJob(r) PROVE Shape'
  BY <1>6 DEF InsertJob, InsertFreeJob
<1>7. ASSUME NEW r \in Requests, CheckAllowance(r) PROVE Shape'
  BY <1>7 DEF CheckAllowance, UsedToday
<1>8. ASSUME NEW r \in Requests, ConsumeLoggedIn(r) \/ ConsumeAnonymous(r)
      PROVE  Shape'
  BY <1>8 DEF ConsumeLoggedIn, ConsumeAnonymous, Consume
<1>9. ASSUME NEW r \in Requests,
             DeductRefused(r) \/ Send(r) \/ SendFails(r) \/ Drop(r)
      PROVE  Shape'
  BY <1>9 DEF DeductRefused, Send, SendFails, Drop
<1>10. ASSUME NEW r \in Requests, Rollback(r) PROVE Shape'
  <2>1. Payer[r] \in Accounts
    BY <1>10, PayerHasAccount DEF Rollback
  <2>2. QED
    BY <1>10, <2>1 DEF Rollback
<1>11. ASSUME NEW k \in Visitors, FreeBalance(k) PROVE Shape'
  BY <1>11 DEF FreeBalance, UsedToday
<1>12. CASE UNCHANGED vars
  BY <1>12 DEF vars
<1>13. QED
  BY <1>1, <1>2, <1>3, <1>4, <1>5, <1>6, <1>7, <1>8, <1>9, <1>10, <1>11, <1>12
     DEF Next, Step, Faulty

\* The initial state has the right types and satisfies the invariants.
LEMMA InitInv == Init => Shape /\ Money /\ Allowance
BY BillingAssumption
   DEF Init, Shape, TypeOK, RouteOfStep, Locations, Payers, Money,
       StepTellsCharge, NeverOverdrawn, PaidJobIsCharged, ChargeBuysSomething,
       Allowance, Fits, OverLimitOnlyByRace

\* Balances, allowances, jobs and requests stay within their types.
THEOREM TypeCorrect == Spec => []TypeOK
<1>1. Shape => TypeOK
  BY DEF Shape
<1>2. QED
  BY <1>1, InitInv, NextShape, PTL DEF Spec
-----------------------------------------------------------------------------
\* Every action keeps the money part.
LEMMA NextMoney == Shape /\ Money /\ [Next]_vars => Money'
<1> SUFFICES ASSUME Shape, Money, [Next]_vars PROVE Money'
  OBVIOUS
<1> USE BillingAssumption DEF Shape, TypeOK, RouteOfStep, Money, StepTellsCharge,
                              NeverOverdrawn, PaidJobIsCharged, ChargeBuysSomething
<1>1. CASE NextDay
  BY <1>1 DEF NextDay
<1>2. ASSUME NEW a \in Accounts, NEW n \in Amounts, CreditTxt(a, n) PROVE Money'
  BY <1>2 DEF CreditTxt
<1>3. ASSUME NEW r \in Requests, Arrive(r) PROVE Money'
  BY <1>3 DEF Arrive
<1>4. ASSUME NEW r \in Requests,
             ReadBalance(r) \/ ChargeTooLate(r) \/ ChargeFails(r)
      PROVE  Money'
  BY <1>4 DEF ReadBalance, ChargeTooLate, ChargeFails, Unpaid
\* The price is taken by a conditional UPDATE.
<1>5. ASSUME NEW r \in Requests, Charge(r) \/ ChargeReplyLost(r) \/ Deduct(r)
      PROVE  Money'
  <2>1. Payer[r] \in Accounts
    BY <1>5, PayerHasAccount DEF Charge, ChargeReplyLost, Deduct
  <2>2. Take(r) /\ charged' = charged \cup {r}
    BY <1>5 DEF Charge, ChargeReplyLost, Deduct, Take
  <2>3. NeverOverdrawn'
    BY <2>1, <2>2 DEF Take, Affordable
  <2>4. (StepTellsCharge /\ PaidJobIsCharged)'
    BY <1>5, <2>2 DEF Charge, ChargeReplyLost, Deduct, Unpaid
  <2>5. ChargeBuysSomething'
    BY <1>5, <2>2 DEF Charge, ChargeReplyLost, Deduct, Unpaid
  <2>6. QED BY <2>3, <2>4, <2>5
<1>6. ASSUME NEW r \in Requests, InsertJob(r) \/ InsertFreeJob(r) PROVE Money'
  BY <1>6 DEF InsertJob, InsertFreeJob
<1>7. ASSUME NEW r \in Requests, CheckAllowance(r) PROVE Money'
  BY <1>7 DEF CheckAllowance
<1>8. ASSUME NEW r \in Requests, ConsumeLoggedIn(r) \/ ConsumeAnonymous(r)
      PROVE  Money'
  BY <1>8 DEF ConsumeLoggedIn, ConsumeAnonymous
<1>9. ASSUME NEW r \in Requests, DeductRefused(r) \/ Send(r) \/ SendFails(r)
      PROVE  Money'
  BY <1>9 DEF DeductRefused, Send, SendFails
<1>10. ASSUME NEW r \in Requests, Rollback(r) PROVE Money'
  <2>1. Payer[r] \in Accounts
    BY <1>10, PayerHasAccount DEF Rollback
  <2>2. QED
    BY <1>10, <2>1 DEF Rollback
<1>11. ASSUME NEW r \in Requests, Drop(r) PROVE Money'
  BY <1>11 DEF Drop
<1>12. ASSUME NEW k \in Visitors, FreeBalance(k) PROVE Money'
  BY <1>12 DEF FreeBalance
<1>13. CASE UNCHANGED vars
  BY <1>13 DEF vars
<1>14. QED
  BY <1>1, <1>2, <1>3, <1>4, <1>5, <1>6, <1>7, <1>8, <1>9, <1>10, <1>11, <1>12, <1>13
     DEF Next, Step, Faulty

\* The inductive invariant of the balances holds in every reachable state.
THEOREM MoneyInductive == Spec => [](Shape /\ Money)
BY InitInv, NextShape, NextMoney, PTL DEF Spec

\* No interleaving of charges, withdrawals and credits overdraws an account.
THEOREM BalancesNeverOverdrawn == Spec => []NeverOverdrawn
BY MoneyInductive, PTL DEF Money

\* Whatever is queued as paid has been paid for.
THEOREM PaidJobsCharged == Spec => []PaidJobIsCharged
BY MoneyInductive, PTL DEF Money

\* Without a fault nothing is taken for nothing.
THEOREM ChargesBuySomething == Spec => []ChargeBuysSomething
BY MoneyInductive, PTL DEF Money

\* Jobs and charges go together.
THEOREM ChargesMatchJobs == Spec => []ChargeMatchesJob
BY PaidJobsCharged, ChargesBuySomething, PTL DEF ChargeMatchesJob
-----------------------------------------------------------------------------
\* Every action keeps the allowance part.
LEMMA NextAllowance == Shape /\ Allowance /\ [Next]_vars => Allowance'
<1> SUFFICES ASSUME Shape, Allowance, [Next]_vars PROVE Allowance'
  OBVIOUS
<1> USE BillingAssumption
    DEF Shape, TypeOK, RouteOfStep, Allowance, Fits, OverLimitOnlyByRace
\* The check lets a request pass that fits, and notices another one.
<1>1. ASSUME NEW r \in Requests, CheckAllowance(r) PROVE Allowance'
  <2> DEFINE k == Payer[r]
  <2>1. k \in Payers /\ used[k] \in Nat /\ Limit[k] \in Nat /\ Chars[r] \in Nat
    OBVIOUS
  <2>2. /\ used' = [used EXCEPT ![k] = UsedToday(k)]
        /\ UsedToday(k) \in Nat /\ UsedToday(k) <= used[k]
    BY <1>1, <2>1 DEF CheckAllowance, UsedToday
  <2>3. raced \subseteq raced'
    BY <1>1 DEF CheckAllowance
  <2>4. OverLimitOnlyByRace'
    BY <2>1, <2>2, <2>3
  <2>5. CASE pc' = [pc EXCEPT ![r] = "done"]
    BY <2>1, <2>2, <2>3, <2>4, <2>5
  <2>6. CASE pc' = [pc EXCEPT ![r] = "consume"]
    <3>1. k \notin raced' => ~Overlapping(k) /\ UsedToday(k) + Chars[r] <= Limit[k]
      BY <1>1, <2>1, <2>2, <2>6 DEF CheckAllowance
    <3>2. QED
      BY <2>1, <2>2, <2>3, <2>4, <2>6, <3>1 DEF Overlapping
  <2>7. QED
    BY <1>1, <2>5, <2>6 DEF CheckAllowance
\* The request that consumes is the only one of its payer, or they raced.
<1>2. ASSUME NEW r \in Requests, ConsumeLoggedIn(r) \/ ConsumeAnonymous(r)
      PROVE  Allowance'
  <2> DEFINE k == Payer[r]
  <2>1. /\ pc[r] = "consume" /\ k \in Payers
        /\ used' = [used EXCEPT ![k] = @ + Chars[r]] /\ raced' = raced
    BY <1>2 DEF ConsumeLoggedIn, ConsumeAnonymous, Consume
  <2>2. \E loc \in {"insert_free", "done"} : pc' = [pc EXCEPT ![r] = loc]
    BY <1>2 DEF ConsumeLoggedIn, ConsumeAnonymous
  <2>3. OverLimitOnlyByRace'
    BY <2>1
  <2>4. Fits'
    BY <2>1, <2>2
  <2>5. QED BY <2>3, <2>4
\* Nothing else changes a counter or brings a request to its consumption.
<1>3. CASE UNCHANGED allowance /\ \A r \in Requests : pc'[r] = "consume" => pc[r] = "consume"
  BY <1>3
\* A question only lowers the counter.
<1>4. ASSUME NEW k \in Visitors, FreeBalance(k) PROVE Allowance'
  <2>1. /\ k \in Payers /\ pc' = pc /\ raced' = raced
        /\ used' = [used EXCEPT ![k] = UsedToday(k)]
        /\ UsedToday(k) \in Nat /\ UsedToday(k) <= used[k]
    BY <1>4 DEF FreeBalance, UsedToday, Payers
  <2>2. QED
    BY <2>1
<1>5. QED
  BY <1>1, <1>2, <1>3, <1>4
     DEF Next, vars, Step, Faulty, NextDay, CreditTxt, Arrive, ReadBalance, Charge,
         ChargeTooLate, ChargeFails, ChargeReplyLost, Unpaid, InsertJob,
         InsertFreeJob, Deduct, DeductRefused, Send, SendFails, Rollback, Drop

\* Only a race exceeds the daily allowance.
THEOREM LimitUnlessRace == Spec => []OverLimitOnlyByRace
BY InitInv, NextShape, NextAllowance, PTL DEF Spec, Allowance

\* A used up allowance stays used up until its reset of a later day.
THEOREM AllowanceUsedUp == Spec => [][UsedUpForTheDay]_vars
<1>1. Shape /\ [Next]_vars => UsedUpForTheDay
  <2> SUFFICES ASSUME Shape, [Next]_vars, NEW k \in Payers, used'[k] < used[k]
               PROVE  reset[k] < reset'[k]
    BY DEF UsedUpForTheDay
  <2> USE BillingAssumption DEF Shape, TypeOK
  <2>1. ASSUME NEW r \in Requests, CheckAllowance(r) PROVE reset[k] < reset'[k]
    BY <2>1 DEF CheckAllowance, UsedToday
  <2>2. ASSUME NEW r \in Requests, ConsumeLoggedIn(r) \/ ConsumeAnonymous(r)
        PROVE  FALSE
    BY <2>2 DEF ConsumeLoggedIn, ConsumeAnonymous, Consume
  <2>3. ASSUME UNCHANGED used PROVE FALSE
    BY <2>3
  <2>4. ASSUME NEW v \in Visitors, FreeBalance(v) PROVE reset[k] < reset'[k]
    BY <2>4 DEF FreeBalance, UsedToday
  <2>5. QED
    BY <2>1, <2>2, <2>3, <2>4
       DEF Next, vars, Step, Faulty, NextDay, CreditTxt, Arrive, ReadBalance,
           Charge, ChargeTooLate, ChargeFails, ChargeReplyLost, InsertJob,
           InsertFreeJob, Deduct, DeductRefused, Send, SendFails, Rollback, Drop
<1>2. QED
  BY <1>1, InitInv, NextShape, PTL DEF Spec

\* The daily allowance is a limit, whatever the interleaving.
THEOREM AllowanceHolds == Spec => DailyAllowance
BY LimitUnlessRace, AllowanceUsedUp, PTL DEF DailyAllowance
-----------------------------------------------------------------------------
\* Every step is one of the abstract account or leaves it alone.
LEMMA StepRefines == Shape /\ Money /\ [Next]_vars => [Ledger!Next]_(Ledger!avars)
<1> SUFFICES ASSUME Shape, Money, [Next]_vars, ~UNCHANGED <<balance, charged>>
             PROVE  Ledger!Next
  BY DEF Ledger!avars
<1> USE DEF Shape, RouteOfStep, Money, StepTellsCharge
<1>1. ASSUME NEW a \in Accounts, NEW n \in Amounts, CreditTxt(a, n)
      PROVE  Ledger!Next
  BY <1>1 DEF CreditTxt, Ledger!Next, Ledger!Credit
<1>2. ASSUME NEW r \in Requests, Charge(r) \/ ChargeReplyLost(r) \/ Deduct(r)
      PROVE  Ledger!Next
  <2>1. Payer[r] \in Accounts /\ r \notin charged
    BY <1>2, PayerHasAccount DEF Charge, ChargeReplyLost, Deduct
  <2>2. Ledger!Take(r)
    BY <1>2, <2>1 DEF Charge, ChargeReplyLost, Deduct, Take, Affordable, Ledger!Take
  <2>3. QED
    BY <2>2 DEF Ledger!Next
<1>3. ASSUME NEW r \in Requests, Rollback(r) PROVE Ledger!Next
  BY <1>3 DEF Rollback, Ledger!Next, Ledger!GiveBack
<1>4. QED
  BY <1>1, <1>2, <1>3
     DEF Next, vars, Step, Faulty, NextDay, Arrive, ReadBalance, ChargeTooLate,
         ChargeFails, InsertJob, CheckAllowance, FreeBalance, ConsumeLoggedIn, InsertFreeJob,
         ConsumeAnonymous, DeductRefused, Send, SendFails, Drop

\* The handlers implement the abstract accounts.
THEOREM AccountsImplemented == Spec => ImplementsAccounts
<1>1. Init => Ledger!Init
  BY DEF Init, Ledger!Init
<1>2. QED
  BY <1>1, MoneyInductive, StepRefines, PTL DEF Spec, ImplementsAccounts, Ledger!Spec
-----------------------------------------------------------------------------
(* The books of an account.                                                *)

ChargedTo(a) == {r \in charged : Payer[r] = a}
PaidJobs == {r \in Requests : job[r] = "paid"}

\* What was credited to an account is in its balance or in what it is charged
\* for, to the unit; the sums range over finitely many requests.
AddsUp == \A a \in Accounts : balance[a] + SumFunctionOnSet(Cost, ChargedTo(a)) = granted[a]

Books == IsFiniteSet(charged) /\ IsFiniteSet(PaidJobs) /\ AddsUp

LEMMA InitBooks == Init => Books
<1> SUFFICES ASSUME Init PROVE Books
  OBVIOUS
<1>1. charged = {} /\ PaidJobs = {} /\ \A a \in Accounts : ChargedTo(a) = {}
  BY DEF Init, PaidJobs, ChargedTo
<1> QED
  BY <1>1, FS_EmptySet, SumOfNothing DEF Init, Books, AddsUp

\* What an account is charged for is a sum of naturals over a finite set.
LEMMA ChargedFinite ==
    ASSUME Shape, IsFiniteSet(charged), NEW a \in Accounts
    PROVE  /\ IsFiniteSet(ChargedTo(a)) /\ ChargedTo(a) \subseteq Requests
           /\ \A r \in Requests : Cost[r] \in Int
           /\ SumFunctionOnSet(Cost, ChargedTo(a)) \in Int
<1>1. IsFiniteSet(ChargedTo(a)) /\ ChargedTo(a) \subseteq Requests
  BY FS_Subset DEF ChargedTo, Shape, TypeOK
<1>2. \A r \in Requests : Cost[r] \in Int
  BY BillingAssumption
<1> QED
  BY <1>1, <1>2, SumTakesOut

\* A price that is taken moves from the balance to the charges.
LEMMA TakeAddsUp ==
    ASSUME Shape, Books, NEW r \in Requests, Payer[r] \in Accounts, r \notin charged, Take(r)
    PROVE  IsFiniteSet(charged') /\ AddsUp'
<1>1. IsFiniteSet(charged')
  BY FS_AddElement DEF Take, Books
<1>2. ASSUME NEW a \in Accounts
      PROVE  (balance[a] + SumFunctionOnSet(Cost, ChargedTo(a)) = granted[a])'
  <2>1. /\ balance[a] + SumFunctionOnSet(Cost, ChargedTo(a)) = granted[a]
        /\ balance[a] \in Int
    BY <1>2 DEF Books, AddsUp, Shape, TypeOK
  <2>2. SumFunctionOnSet(Cost, ChargedTo(a)) \in Int /\ Cost[r] \in Int
    BY <1>2, ChargedFinite DEF Books
  <2>3. CASE Payer[r] = a
    <3>1. ChargedTo(a)' = ChargedTo(a) \cup {r} /\ r \notin ChargedTo(a)
      BY <2>3 DEF Take, ChargedTo
    <3>2. SumFunctionOnSet(Cost, ChargedTo(a))' = SumFunctionOnSet(Cost, ChargedTo(a)) + Cost[r]
      <4>1. IsFiniteSet(ChargedTo(a)) /\ \A x \in ChargedTo(a) \cup {r} : Cost[x] \in Int
        BY <1>2, ChargedFinite DEF Books
      <4> QED
        BY <3>1, <4>1, SumTakesIn
    <3>3. balance'[a] = balance[a] - Cost[r] /\ granted'[a] = granted[a]
      BY <1>2, <2>3 DEF Take, Shape, TypeOK
    <3> QED
      BY <2>1, <2>2, <3>2, <3>3
  <2>4. CASE Payer[r] # a
    <3>1. ChargedTo(a)' = ChargedTo(a)
      BY <2>4 DEF Take, ChargedTo
    <3>2. balance'[a] = balance[a] /\ granted'[a] = granted[a]
      BY <1>2, <2>4 DEF Take, Shape, TypeOK
    <3> QED
      BY <2>1, <3>1, <3>2
  <2> QED
    BY <2>3, <2>4
<1> QED
  BY <1>1, <1>2 DEF AddsUp

\* The rollback moves it back.
LEMMA RollbackAddsUp ==
    ASSUME Shape, Books, NEW r \in Requests, Payer[r] \in Accounts, r \in charged, Rollback(r)
    PROVE  IsFiniteSet(charged') /\ AddsUp'
<1>1. IsFiniteSet(charged')
  BY FS_RemoveElement DEF Rollback, Books
<1>2. ASSUME NEW a \in Accounts
      PROVE  (balance[a] + SumFunctionOnSet(Cost, ChargedTo(a)) = granted[a])'
  <2>1. /\ balance[a] + SumFunctionOnSet(Cost, ChargedTo(a)) = granted[a]
        /\ balance[a] \in Int
    BY <1>2 DEF Books, AddsUp, Shape, TypeOK
  <2>2. SumFunctionOnSet(Cost, ChargedTo(a)) \in Int /\ Cost[r] \in Int
    BY <1>2, ChargedFinite DEF Books
  <2>3. CASE Payer[r] = a
    <3>1. ChargedTo(a)' = ChargedTo(a) \ {r} /\ r \in ChargedTo(a)
      BY <2>3 DEF Rollback, ChargedTo
    <3>2. /\ SumFunctionOnSet(Cost, ChargedTo(a)) = Cost[r] + SumFunctionOnSet(Cost, ChargedTo(a))'
          /\ SumFunctionOnSet(Cost, ChargedTo(a))' \in Int
      <4>1. /\ IsFiniteSet(ChargedTo(a)) /\ \A x \in ChargedTo(a) : Cost[x] \in Int
            /\ IsFiniteSet(ChargedTo(a) \ {r}) /\ \A x \in ChargedTo(a) \ {r} : Cost[x] \in Int
        BY <1>2, ChargedFinite, FS_RemoveElement DEF Books
      <4>2. SumFunctionOnSet(Cost, ChargedTo(a) \ {r}) \in Int
        BY <4>1, SumTakesOut
      <4> QED
        BY <3>1, <4>1, <4>2, SumTakesOut
    <3>3. balance'[a] = balance[a] + Cost[r] /\ granted'[a] = granted[a]
      BY <1>2, <2>3 DEF Rollback, Shape, TypeOK
    <3> QED
      BY <2>1, <2>2, <3>2, <3>3
  <2>4. CASE Payer[r] # a
    <3>1. ChargedTo(a)' = ChargedTo(a)
      BY <2>4 DEF Rollback, ChargedTo
    <3>2. balance'[a] = balance[a] /\ granted'[a] = granted[a]
      BY <1>2, <2>4 DEF Rollback, Shape, TypeOK
    <3> QED
      BY <2>1, <3>1, <3>2
  <2> QED
    BY <2>3, <2>4
<1> QED
  BY <1>1, <1>2 DEF AddsUp

\* Every action keeps the books.
LEMMA NextBooks == Shape /\ Money /\ Books /\ [Next]_vars => Books'
<1> SUFFICES ASSUME Shape, Money, Books, [Next]_vars PROVE Books'
  OBVIOUS
<1>1. ASSUME UNCHANGED money PROVE IsFiniteSet(charged') /\ AddsUp'
  BY <1>1 DEF Books, AddsUp, ChargedTo
<1>2. ASSUME job' = job PROVE IsFiniteSet(PaidJobs')
  BY <1>2 DEF Books, PaidJobs
<1>3. ASSUME NEW a \in Accounts, NEW n \in Amounts, CreditTxt(a, n) PROVE Books'
  <2>1. ASSUME NEW b \in Accounts
        PROVE  (balance[b] + SumFunctionOnSet(Cost, ChargedTo(b)) = granted[b])'
    <3>1. /\ balance[b] + SumFunctionOnSet(Cost, ChargedTo(b)) = granted[b]
          /\ SumFunctionOnSet(Cost, ChargedTo(b)) \in Int
          /\ balance[b] \in Int /\ granted[b] \in Int /\ n \in Int
      BY <2>1, ChargedFinite, BillingAssumption DEF Books, AddsUp, Shape, TypeOK
    <3>2. ChargedTo(b)' = ChargedTo(b)
      BY <1>3 DEF CreditTxt, ChargedTo
    <3>3. /\ b = a => balance'[b] = balance[b] + n /\ granted'[b] = granted[b] + n
          /\ b # a => balance'[b] = balance[b] /\ granted'[b] = granted[b]
      BY <1>3, <2>1 DEF CreditTxt, Shape, TypeOK
    <3> QED
      BY <3>1, <3>2, <3>3
  <2>2. charged' = charged /\ job' = job
    BY <1>3 DEF CreditTxt
  <2> QED
    BY <1>2, <2>1, <2>2 DEF Books, AddsUp
<1>4. ASSUME NEW r \in Requests, Charge(r) \/ ChargeReplyLost(r) \/ Deduct(r) PROVE Books'
  <2>1. Payer[r] \in Accounts /\ r \notin charged
    BY <1>4, PayerHasAccount
       DEF Charge, ChargeReplyLost, Deduct, Shape, RouteOfStep, Money, StepTellsCharge
  <2>2. Take(r) /\ job' = job
    BY <1>4 DEF Charge, ChargeReplyLost, Deduct
  <2> QED
    BY <1>2, <2>1, <2>2, TakeAddsUp DEF Books
<1>5. ASSUME NEW r \in Requests, Rollback(r) PROVE Books'
  <2>1. Payer[r] \in Accounts /\ r \in charged /\ job' = job
    BY <1>5, PayerHasAccount DEF Rollback, Shape, RouteOfStep, Money, StepTellsCharge
  <2> QED
    BY <1>2, <1>5, <2>1, RollbackAddsUp DEF Books
<1>6. ASSUME NEW r \in Requests, InsertJob(r) PROVE Books'
  <2>1. PaidJobs' \subseteq PaidJobs \cup {r} /\ UNCHANGED money
    BY <1>6 DEF InsertJob, PaidJobs, Shape, TypeOK
  <2>2. IsFiniteSet(PaidJobs \cup {r})
    BY FS_AddElement DEF Books
  <2> QED
    BY <1>1, <2>1, <2>2, FS_Subset DEF Books
<1>7. ASSUME NEW r \in Requests, InsertFreeJob(r) \/ ConsumeAnonymous(r) PROVE Books'
  <2>1. PaidJobs' \subseteq PaidJobs /\ UNCHANGED money
    BY <1>7 DEF InsertFreeJob, ConsumeAnonymous, PaidJobs, Shape, TypeOK
  <2> QED
    BY <1>1, <2>1, FS_Subset DEF Books
<1>8. ASSUME UNCHANGED <<money, job>> PROVE Books'
  BY <1>1, <1>2, <1>8 DEF Books
<1> QED
  BY <1>3, <1>4, <1>5, <1>6, <1>7, <1>8
     DEF Next, vars, Step, Faulty, NextDay, Arrive, ReadBalance, ChargeTooLate,
         ChargeFails, CheckAllowance, FreeBalance, ConsumeLoggedIn, DeductRefused,
         Send, SendFails, Drop

\* Nothing is created or lost: balance and charges make up what was credited,
\* whatever charges, credits, withdrawals and failures were interleaved.
THEOREM AccountsAddUp == Spec => []AddsUp
<1>1. Init => Shape /\ Money /\ Books
  BY InitInv, InitBooks
<1>2. Books => AddsUp
  BY DEF Books
<1> QED
  BY <1>1, <1>2, NextShape, NextMoney, NextBooks, PTL DEF Spec

\* Jobs that are queued as paid cost at most what is charged.
LEMMA PaidIsCharged ==
    ASSUME Shape, Money, Books, NEW a \in Accounts
    PROVE  SumFunctionOnSet(Cost, {r \in Requests : Payer[r] = a /\ job[r] = "paid"})
               <= SumFunctionOnSet(Cost, ChargedTo(a))
<1> DEFINE Paid == {r \in Requests : Payer[r] = a /\ job[r] = "paid"}
           Due == Paid \cap ChargedTo(a)
<1>1. IsFiniteSet(Paid) /\ IsFiniteSet(ChargedTo(a))
  <2>1. Paid \subseteq PaidJobs /\ ChargedTo(a) \subseteq charged
    BY DEF PaidJobs, ChargedTo
  <2> QED
    BY <2>1, FS_Subset DEF Books
<1>2. \A r \in Paid \ Due : Cost[r] = 0
  BY BillingAssumption DEF Money, PaidJobIsCharged, ChargedTo
<1>3. \A r \in Requests : Cost[r] \in Nat
  BY BillingAssumption
<1>4. Due \in SUBSET Paid /\ Due \in SUBSET ChargedTo(a)
  OBVIOUS
<1>5. Paid \subseteq Requests /\ ChargedTo(a) \subseteq Requests
  BY DEF ChargedTo, Shape, TypeOK
<1> HIDE DEF Paid, Due
<1>6. SumFunctionOnSet(Cost, Due) = SumFunctionOnSet(Cost, Paid)
  <2>1. \A r \in Paid : Cost[r] \in Int
    BY <1>3, <1>5
  <2> QED
    BY <1>1, <1>2, <1>4, <2>1, SumOfPart
<1>7. SumFunctionOnSet(Cost, Due) <= SumFunctionOnSet(Cost, ChargedTo(a))
  BY <1>1, <1>3, <1>4, <1>5, SumOfMore
<1>8. SumFunctionOnSet(Cost, Paid) <= SumFunctionOnSet(Cost, ChargedTo(a))
  BY <1>6, <1>7
<1> QED
  BY <1>8 DEF Paid

\* What an account holds and has spent on jobs was credited to it before.
THEOREM BooksBalanced == Spec => []BooksBalance
<1>1. Shape /\ Money /\ Books => BooksBalance
  <2> SUFFICES ASSUME Shape, Money, Books, NEW a \in Accounts
               PROVE  balance[a] + SumFunctionOnSet(Cost,
                          {r \in Requests : Payer[r] = a /\ job[r] = "paid"}) <= granted[a]
    BY DEF BooksBalance
  <2> DEFINE Paid == {r \in Requests : Payer[r] = a /\ job[r] = "paid"}
  <2>1. SumFunctionOnSet(Cost, Paid) <= SumFunctionOnSet(Cost, ChargedTo(a))
    BY PaidIsCharged
  <2>2. SumFunctionOnSet(Cost, Paid) \in Int
    <3>1. Paid \subseteq PaidJobs /\ IsFiniteSet(PaidJobs) /\ \A r \in Paid : Cost[r] \in Int
      BY BillingAssumption DEF PaidJobs, Books
    <3> QED
      BY <3>1, FS_Subset, SumTakesOut
  <2>3. /\ SumFunctionOnSet(Cost, ChargedTo(a)) \in Int
        /\ balance[a] \in Int
        /\ balance[a] + SumFunctionOnSet(Cost, ChargedTo(a)) = granted[a]
    BY ChargedFinite DEF Books, AddsUp, Shape, TypeOK
  <2> HIDE DEF Paid
  <2>4. balance[a] + SumFunctionOnSet(Cost, Paid) <= granted[a]
    BY <2>1, <2>2, <2>3
  <2> QED
    BY <2>4 DEF Paid
<1>2. Init => Shape /\ Money /\ Books
  BY InitInv, InitBooks
<1> QED
  BY <1>1, <1>2, NextShape, NextMoney, NextBooks, PTL DEF Spec
=============================================================================
