--------------------------- MODULE DepositsProofs ---------------------------
(***************************************************************************)
(* Proofs about Deposits for any set of payments, handlers and processes   *)
(* and any bound on faults, and about DepositAddresses.                    *)
(***************************************************************************)
EXTENDS Deposits, DepositAddresses, FiniteSetTheorems, TLAPS

\* A handler has a payment in hand exactly while it is at work.
BusyHasPayment == \A h \in Handlers : pc[h] = "idle" <=> cur[h] = NoPayment

Shape == TypeOK /\ BusyHasPayment

\* Only payments that were made reach a handler that can credit them.
DeliveredArrived ==
    \A h \in Handlers :
        pc[h] \notin {"idle", "record", "record_insert"} => cur[h] \in arrived

\* The handler whose INSERT succeeded is the only one on the way to the
\* credit, and its row waits for it; only the checkout has a TXT step.
OneCreditor ==
    \A h \in Handlers : pc[h] \in Crediting =>
        /\ row[cur[h]] = "confirmed"
        /\ \A g \in Handlers : pc[g] \in Crediting /\ cur[g] = cur[h] => g = h
        /\ pc[h] = "credit_txt" => Chain[cur[h]] = "stripe" /\ txt[cur[h]] = 0
        /\ pc[h] = "credit" /\ Chain[cur[h]] = "stripe" => txt[cur[h]] = 1

\* Likewise for the sweep that follows the credit.
OneSweeper ==
    \A h \in Handlers : pc[h] = "sweep" =>
        /\ row[cur[h]] = "credited" /\ swept[cur[h]] = 0
        /\ \A g \in Handlers : pc[g] = "sweep" /\ cur[g] = cur[h] => g = h

\* What the status of a row says about the two balances: "credited" that the
\* amount was added, wherever there is a row to add it to.
RowTellsBalance ==
    \A p \in Payments :
        /\ row[p] \in {"none", "pending"} => usd[p] = 0 /\ txt[p] = 0
        /\ row[p] = "confirmed" => usd[p] = 0 /\ txt[p] \in {0, 1}
        /\ row[p] = "credited" => /\ usd[p] = IF p \in HasCredits THEN 1 ELSE 0
                                  /\ txt[p] \in {0, 1}
        /\ row[p] = "credited" /\ Chain[p] = "stripe" => txt[p] = 1

\* The inductive invariant.
IInv == /\ Shape
        /\ DeliveredArrived
        /\ OneCreditor
        /\ OneSweeper
        /\ RowTellsBalance
        /\ StrandedOnlyAfterFault
        /\ SweptOnceAfterCredit

USE DEF At, Goto, Begin, End, Answer, Fail, NoFault, Fault, balances, sweeps, Crediting
-----------------------------------------------------------------------------
\* The initial state satisfies the inductive invariant.
LEMMA InitIInv == Init => IInv
BY DepositsAssumption
   DEF Init, IInv, Shape, TypeOK, BusyHasPayment, DeliveredArrived, OneCreditor,
       OneSweeper, RowTellsBalance, StrandedOnlyAfterFault, Abandoned,
       SweptOnceAfterCredit, Rows, Locations

\* Every action keeps the types and the link between pc and cur.
LEMMA NextShape == Shape /\ [Next]_vars => Shape'
<1> SUFFICES ASSUME Shape, [Next]_vars PROVE Shape'
  OBVIOUS
<1> USE DepositsAssumption DEF Shape, TypeOK, BusyHasPayment, Rows, Locations
<1>1. ASSUME NEW p \in Payments, Arrive(p) PROVE Shape'
  BY <1>1 DEF Arrive
<1>2. ASSUME NEW h \in Handlers, NEW p \in Payments, Deliver(h, p) \/ Record(h, p)
      PROVE  Shape'
  BY <1>2 DEF Deliver, Record
<1>3. ASSUME NEW h \in Handlers,
             \/ Lookup(h) \/ CheckNew(h) \/ CheckDuplicate(h) \/ CheckUnreadable(h)
             \/ InsertConflict(h) \/ CreditTxtNoUser(h) \/ RecordCheck(h) \/ Drop(h)
      PROVE  Shape'
  BY <1>3 DEF Lookup, CheckNew, CheckDuplicate, CheckUnreadable, InsertConflict,
              CreditTxtNoUser, RecordCheck, Drop
<1>4. ASSUME NEW h \in Handlers, InsertRow(h) \/ RecordInsert(h) PROVE Shape'
  BY <1>4 DEF InsertRow, RecordInsert, FirstCredit
<1>5. ASSUME NEW h \in Handlers, CreditTxt(h) \/ CreditDeposit(h) PROVE Shape'
  BY <1>5 DEF CreditTxt, CreditDeposit
<1>6. ASSUME NEW h \in Handlers, SweepDone(h) \/ SweepFailed(h) PROVE Shape'
  BY <1>6 DEF SweepDone, SweepFailed
<1>7. CASE UNCHANGED vars
  BY <1>7 DEF vars
<1>8. QED
  BY <1>1, <1>2, <1>3, <1>4, <1>5, <1>6, <1>7 DEF Next, Work

\* The table, the balances and the handlers stay within their types.
THEOREM TypeCorrect == Spec => []TypeOK
<1>1. Init => Shape
  BY InitIInv DEF IInv
<1>2. Shape => TypeOK
  BY DEF Shape
<1>3. QED
  BY <1>1, <1>2, NextShape, PTL DEF Spec
-----------------------------------------------------------------------------
\* Every action keeps the safety invariants.
LEMMA NextIInv == IInv /\ [Next]_vars => IInv'
<1> SUFFICES ASSUME IInv, [Next]_vars PROVE IInv'
  OBVIOUS
<1>1. Shape /\ Shape'
  BY NextShape DEF IInv
<1> DEFINE Rest == /\ DeliveredArrived /\ OneCreditor /\ OneSweeper
                   /\ RowTellsBalance /\ StrandedOnlyAfterFault
                   /\ SweptOnceAfterCredit
<1> SUFFICES Rest'
  BY <1>1 DEF IInv
<1> USE <1>1, DepositsAssumption
    DEF IInv, Shape, TypeOK, BusyHasPayment, DeliveredArrived, OneCreditor,
        OneSweeper, RowTellsBalance, StrandedOnlyAfterFault, Abandoned,
        Creditable, SweptOnceAfterCredit, Rows, Locations
<1>2. ASSUME NEW p \in Payments, Arrive(p) PROVE Rest'
  BY <1>2 DEF Arrive
<1>3. ASSUME NEW h \in Handlers, NEW p \in Payments, Deliver(h, p) \/ Record(h, p)
      PROVE  Rest'
  BY <1>3 DEF Deliver, Record
\* A handler that is not crediting or sweeping moves on or ends.
<1>4. ASSUME NEW h \in Handlers,
             \/ Lookup(h) \/ CheckNew(h) \/ CheckDuplicate(h) \/ CheckUnreadable(h)
             \/ InsertConflict(h) \/ RecordCheck(h)
      PROVE  Rest'
  BY <1>4 DEF Lookup, CheckNew, CheckDuplicate, CheckUnreadable, InsertConflict,
              RecordCheck
\* The row did not exist, so no other handler is crediting or sweeping it.
<1>5. ASSUME NEW h \in Handlers, InsertRow(h) PROVE Rest'
  <2>1. cur[h] \in Payments /\ row[cur[h]] = "none"
    BY <1>5 DEF InsertRow
  <2>2. (DeliveredArrived /\ OneSweeper /\ RowTellsBalance /\ SweptOnceAfterCredit)'
    BY <1>5, <2>1 DEF InsertRow, FirstCredit
  <2>3. OneCreditor'
    BY <1>5, <2>1 DEF InsertRow, FirstCredit
  <2>4. StrandedOnlyAfterFault'
    BY <1>5, <2>1 DEF InsertRow, FirstCredit
  <2>5. QED BY <2>2, <2>3, <2>4
<1>6. ASSUME NEW h \in Handlers, RecordInsert(h) PROVE Rest'
  BY <1>6 DEF RecordInsert
<1>7. ASSUME NEW h \in Handlers, CreditTxt(h) PROVE Rest'
  BY <1>7 DEF CreditTxt
\* The row stays behind: such a payment is not creditable.
<1>8. ASSUME NEW h \in Handlers, CreditTxtNoUser(h) PROVE Rest'
  BY <1>8 DEF CreditTxtNoUser
\* Row and balance change together, and nobody else was crediting.
<1>9. ASSUME NEW h \in Handlers, CreditDeposit(h) PROVE Rest'
  <2>1. cur[h] \in Payments /\ row[cur[h]] = "confirmed"
    BY <1>9 DEF CreditDeposit
  <2>2. swept[cur[h]] = 0
    BY <2>1
  <2>3. (DeliveredArrived /\ RowTellsBalance /\ SweptOnceAfterCredit)'
    BY <1>9, <2>1, <2>2 DEF CreditDeposit
  <2>4. OneCreditor'
    BY <1>9, <2>1 DEF CreditDeposit
  <2>5. OneSweeper'
    BY <1>9, <2>1, <2>2 DEF CreditDeposit
  <2>6. StrandedOnlyAfterFault'
    BY <1>9, <2>1 DEF CreditDeposit
  <2>7. QED BY <2>3, <2>4, <2>5, <2>6
<1>10. ASSUME NEW h \in Handlers, SweepDone(h) \/ SweepFailed(h) PROVE Rest'
  BY <1>10 DEF SweepDone, SweepFailed
<1>11. ASSUME NEW h \in Handlers, Drop(h) PROVE Rest'
  BY <1>11 DEF Drop
<1>12. CASE UNCHANGED vars
  BY <1>12 DEF vars
<1>13. QED
  BY <1>2, <1>3, <1>4, <1>5, <1>6, <1>7, <1>8, <1>9, <1>10, <1>11, <1>12
     DEF Next, Work

\* The inductive invariant holds in every reachable state.
THEOREM Inductive == Spec => []IInv
BY InitIInv, NextIInv, PTL DEF Spec

\* A payment is credited once at most, to either balance.
THEOREM PaymentsCreditedOnce == Spec => []CreditedOnce
<1>1. ASSUME IInv, NEW p \in Payments PROVE usd[p] <= 1 /\ txt[p] <= 1
  <2>1. row[p] \in Rows /\ usd[p] \in Nat /\ txt[p] \in Nat
    BY <1>1 DEF IInv, Shape, TypeOK
  <2>2. usd[p] \in {0, 1} /\ txt[p] \in {0, 1}
    BY <1>1, <2>1 DEF IInv, RowTellsBalance, Rows
  <2>3. QED BY <2>2
<1>2. QED
  <2>1. IInv => CreditedOnce
    BY <1>1 DEF CreditedOnce
  <2>2. QED BY <2>1, Inductive, PTL

\* "credited" means that the balances have been increased wherever there is a
\* row to increase, and nothing is increased without it.
THEOREM CreditedRowsPaidUp == Spec => []CreditedRowIsPaidUp
<1>1. ASSUME IInv, NEW p \in Payments
      PROVE  /\ usd[p] > 0 => row[p] = "credited"
             /\ row[p] = "credited" /\ p \in HasCredits => usd[p] > 0
             /\ row[p] = "credited" /\ Chain[p] = "stripe" => txt[p] > 0
  <2>1. row[p] \in Rows
    BY <1>1 DEF IInv, Shape, TypeOK
  <2>2. CASE row[p] = "credited"
    BY <1>1, <2>2 DEF IInv, RowTellsBalance
  <2>3. CASE row[p] # "credited"
    BY <1>1, <2>1, <2>3 DEF IInv, RowTellsBalance, Rows
  <2>4. QED BY <2>2, <2>3
<1>2. IInv => CreditedRowIsPaidUp
  BY <1>1 DEF CreditedRowIsPaidUp
<1>3. QED
  BY <1>2, Inductive, PTL

\* Without a fault a creditable payment is never left behind uncredited.
THEOREM NoSilentStranding == Spec => []StrandedOnlyAfterFault
BY Inductive, PTL DEF IInv

\* Funds are swept once at most, and after the row says "credited".
THEOREM SweepsFollowCredit == Spec => []SweptOnceAfterCredit
BY Inductive, PTL DEF IInv

\* Rows, balances and sweeps agree, whichever accounts have a credits row.
THEOREM FundsAfterCredit == Spec => []FundsFollowCredit
BY CreditedRowsPaidUp, SweepsFollowCredit, PTL DEF FundsFollowCredit
-----------------------------------------------------------------------------
\* Every step is a ledger step of account_credits or leaves it alone.
LEMMA StepRefinesUsd == IInv /\ [Next]_vars => [Usd!Next]_(Usd!lvars)
<1> SUFFICES ASSUME IInv, [Next]_vars, ~UNCHANGED <<arrived, usd>>
             PROVE  Usd!Next
  BY DEF Usd!lvars
<1> USE DEF IInv, Shape, TypeOK, BusyHasPayment, DeliveredArrived, OneCreditor,
            RowTellsBalance
<1>1. ASSUME NEW p \in Payments, Arrive(p) PROVE Usd!Next
  BY <1>1 DEF Arrive, Usd!Next, Usd!Arrive
<1>2. ASSUME NEW h \in Handlers, CreditDeposit(h) PROVE Usd!Next
  <2>1. cur[h] \in Payments /\ cur[h] \in arrived /\ usd[cur[h]] = 0
    BY <1>2 DEF CreditDeposit
  <2>2. CASE cur[h] \in HasCredits
    <3>1. Usd!Credit(cur[h])
      BY <1>2, <2>1, <2>2 DEF CreditDeposit, Usd!Credit
    <3>2. QED BY <2>1, <3>1 DEF Usd!Next
  \* No row to add to: the ledger stands still.
  <2>3. CASE cur[h] \notin HasCredits
    <3>1. usd' = usd /\ arrived' = arrived
      BY <1>2, <2>1, <2>3 DEF CreditDeposit
    <3>2. QED BY <3>1
  <2>4. QED BY <2>2, <2>3
<1>3. QED
  BY <1>1, <1>2
     DEF Next, vars, Work, Deliver, Record, Lookup, CheckNew, CheckDuplicate,
         CheckUnreadable, InsertRow, InsertConflict, CreditTxt, CreditTxtNoUser,
         SweepDone, SweepFailed, RecordCheck, RecordInsert, Drop

\* Likewise for the TXT balance.
LEMMA StepRefinesTxt == IInv /\ [Next]_vars => [Txt!Next]_(Txt!lvars)
<1> SUFFICES ASSUME IInv, [Next]_vars, ~UNCHANGED <<arrived, txt>>
             PROVE  Txt!Next
  BY DEF Txt!lvars
<1> USE DEF IInv, Shape, TypeOK, BusyHasPayment, DeliveredArrived, OneCreditor
<1>1. ASSUME NEW p \in Payments, Arrive(p) PROVE Txt!Next
  BY <1>1 DEF Arrive, Txt!Next, Txt!Arrive
<1>2. ASSUME NEW h \in Handlers, CreditTxt(h) PROVE Txt!Next
  <2>1. cur[h] \in Payments /\ cur[h] \in arrived /\ txt[cur[h]] = 0
    BY <1>2 DEF CreditTxt
  <2>2. Txt!Credit(cur[h])
    BY <1>2, <2>1 DEF CreditTxt, Txt!Credit
  <2>3. QED BY <2>1, <2>2 DEF Txt!Next
<1>3. QED
  BY <1>1, <1>2
     DEF Next, vars, Work, Deliver, Record, Lookup, CheckNew, CheckDuplicate,
         CheckUnreadable, InsertRow, InsertConflict, CreditTxtNoUser,
         CreditDeposit, SweepDone, SweepFailed, RecordCheck, RecordInsert, Drop

\* The handlers, the table and its UNIQUE column implement both ledgers.
THEOREM LedgersImplemented == Spec => ImplementsLedgers
<1>1. Init => Usd!Init /\ Txt!Init
  BY DEF Init, Usd!Init, Txt!Init
<1>2. QED
  BY <1>1, InitIInv, NextIInv, StepRefinesUsd, StepRefinesTxt, PTL
     DEF Spec, ImplementsLedgers, Usd!Spec, Txt!Spec
-----------------------------------------------------------------------------
(* Deposit addresses: one active address, the limit, and what the listener  *)
(* misses, for any accounts, any finite number of concurrent calls and any  *)
(* limit.                                                                  *)

HIDE DEF At, Goto, Begin, End, Answer, Fail, NoFault, Fault, balances, sweeps, Crediting
USE AddressesAssumption DEF AddressesAssumption

Inserting == {"insert", "get_insert"}

Busy == \A h \in Callers : doing[h] = "idle" <=> account[h] = NoAccount

\* The indices of an account are 0, 1, 2, ... without a gap.
Contiguous == \A a \in Accounts : \E n \in Nat : stored[a] = 0..(n - 1)

\* The index a call is about to insert is taken, or the next one; in the
\* second case nobody inserted since it was read, and nothing is active.
Pending == \A h \in Callers :
    /\ doing[h] = "get_insert" => index[h] = 0
    /\ doing[h] \in Inserting \cup {"deactivate"} /\ index[h] \notin stored[account[h]]
          => stored[account[h]] = 0..(index[h] - 1)
    /\ doing[h] \in Inserting /\ index[h] \notin stored[account[h]]
          => active[account[h]] = {}

AtMostOne == \A a \in Accounts : /\ active[a] \subseteq stored[a]
                                 /\ \A i, j \in active[a] : i = j

\* A rotation of an undisturbed account is its only call.
AloneAt(h) == /\ doing[h] \in Rotating => \A g \in CallsOf(account[h]) : g = h
              /\ doing[h] \in {"deactivate", "insert"} => index[h] \notin stored[account[h]]
              /\ doing[h] = "describe" => active[account[h]] = {index[h]}

Alone == \A h \in Callers : account[h] \in Accounts \ disturbed => AloneAt(h)

Newest == \A a \in Accounts \ disturbed :
    stored[a] # {} /\ Settled(a) => active[a] = {Max(stored[a])}

\* Calls that have been counted in and have not yet inserted.
Counted(a) == {h \in CallsOf(a) : doing[h] \in {"max", "deactivate", "insert"}}

Limit == \A a \in Accounts :
    Cardinality(stored[a]) + Cardinality(Counted(a)) <= MaxAddresses + Cardinality(Callers) - 1

Watch == listening => \A a \in Accounts : /\ loaded[a] \subseteq stored[a]
                                          /\ active[a] \cap loaded[a] \subseteq watched[a]

AddressesShape == AddressesTypeOK /\ Busy /\ Contiguous /\ Pending
AddressesIInv  == AddressesShape /\ AtMostOne /\ Alone /\ Newest /\ Limit /\ Watch
-----------------------------------------------------------------------------
LEMMA MaxOfRange ==
    ASSUME NEW n \in Nat
    PROVE  0..n # {} /\ Max(0..n) = n
BY DEF Max

\* A row for a new index makes it the greatest one.
LEMMA NextIsNew ==
    ASSUME AddressesTypeOK, Contiguous, NEW a \in Accounts
    PROVE  /\ NextIndex(a) \in Nat
           /\ NextIndex(a) \notin stored[a]
           /\ stored[a] = 0..(NextIndex(a) - 1)
<1>1. PICK n \in Nat : stored[a] = 0..(n - 1)
  BY DEF Contiguous
<1>2. CASE n = 0
  BY <1>1, <1>2 DEF NextIndex
<1>3. CASE n # 0
  <2>1. n - 1 \in Nat
    BY <1>3
  <2>2. Max(stored[a]) = n - 1 /\ stored[a] # {}
    BY <1>1, <2>1, MaxOfRange
  <2> QED
    BY <1>1, <2>2 DEF NextIndex
<1> QED
  BY <1>2, <1>3

LEMMA AddressesInitIInv == AddressesInit => AddressesIInv
<1> SUFFICES ASSUME AddressesInit PROVE AddressesIInv
  OBVIOUS
<1> USE DEF AddressesInit
<1>1. AddressesTypeOK
  <2>1. doing \in [Callers -> AddressPlaces]
    BY DEF AddressPlaces
  <2>2. {} \subseteq Accounts /\ 0 \in 0..MaxDrops
    OBVIOUS
  <2> QED
    BY <2>1, <2>2 DEF AddressesTypeOK
<1>2. Busy /\ Pending /\ AtMostOne /\ Alone /\ Newest /\ Watch
  BY DEF Busy, Pending, AtMostOne, Alone, Newest, Watch, Inserting, AloneAt, Rotating
<1>3. Contiguous
  <2>1. {} = 0..(0 - 1)
    OBVIOUS
  <2> QED
    BY <2>1 DEF Contiguous
<1>4. Limit
  <2> SUFFICES ASSUME NEW a \in Accounts
               PROVE  Cardinality(stored[a]) + Cardinality(Counted(a))
                        <= MaxAddresses + Cardinality(Callers) - 1
    BY DEF Limit
  <2>1. Counted(a) = {} /\ stored[a] = {}
    BY DEF Counted, CallsOf
  <2> QED
    BY <2>1, FS_EmptySet, FS_CardinalityType
<1> QED
  BY <1>1, <1>2, <1>3, <1>4 DEF AddressesIInv, AddressesShape
-----------------------------------------------------------------------------
(* The table and the calls                                                 *)

LEMMA NextTypeOK ==
    ASSUME AddressesTypeOK, Busy, Contiguous, [AddressesNext]_addressVars
    PROVE  AddressesTypeOK' /\ Busy'
<1> USE DEF AddressesTypeOK, Busy, AddressPlaces, Rotating, table, calls, listener
<1>1. ASSUME NEW h \in Callers, NEW a \in Accounts, BeginGet(h, a)
      PROVE  AddressesTypeOK' /\ Busy'
  BY <1>1 DEF BeginGet, BeginCall, Does
<1>2. ASSUME NEW h \in Callers, NEW a \in Accounts, BeginRotate(h, a)
      PROVE  AddressesTypeOK' /\ Busy'
  BY <1>2 DEF BeginRotate, BeginCall, Does
<1>3. ASSUME NEW h \in Callers, ReadMax(h)
      PROVE  AddressesTypeOK' /\ Busy'
  <2>1. account[h] \in Accounts
    BY <1>3 DEF ReadMax, Does
  <2>2. NextIndex(account[h]) \in Nat
    BY <2>1, NextIsNew
  <2> QED
    BY <1>3, <2>2 DEF ReadMax, Does
<1>4. ASSUME NEW h \in Callers, Deactivate(h)
      PROVE  AddressesTypeOK' /\ Busy'
  BY <1>4 DEF Deactivate, Continue, Does
<1>5. ASSUME NEW h \in Callers, Insert(h)
      PROVE  AddressesTypeOK' /\ Busy'
  <2>1. account[h] \in Accounts
    BY <1>5 DEF Insert
  <2>2. stored' \in [Accounts -> SUBSET Nat] /\ active' \in [Accounts -> SUBSET Nat]
    BY <1>5, <2>1 DEF Insert
  <2>3. CASE Does(h, "insert")
    BY <1>5, <2>2, <2>3 DEF Insert, Continue, Does
  <2>4. CASE ~Does(h, "insert")
    BY <1>5, <2>2, <2>4 DEF Insert, EndCall, Does
  <2> QED
    BY <2>3, <2>4
<1>6. ASSUME NEW h \in Callers, InsertTaken(h) \/ Describe(h) \/ DropCall(h)
      PROVE  AddressesTypeOK' /\ Busy'
  BY <1>6 DEF InsertTaken, Describe, DropCall, EndCall, Does
<1>7. CASE Load \/ Stop \/ UNCHANGED addressVars
  BY <1>7 DEF Load, Stop, addressVars
<1> QED
  BY <1>1, <1>2, <1>3, <1>4, <1>5, <1>6, <1>7 DEF AddressesNext, CallStep

\* An INSERT adds the next index of the account, when nothing is active.
LEMMA InsertIsNext ==
    ASSUME AddressesShape, NEW h \in Callers, Insert(h)
    PROVE  /\ account[h] \in Accounts /\ index[h] \in Nat
           /\ stored[account[h]] = 0..(index[h] - 1)
           /\ active[account[h]] = {}
           /\ stored' = [stored EXCEPT ![account[h]] = 0..index[h]]
           /\ active' = [active EXCEPT ![account[h]] = {index[h]}]
<1>1. account[h] \in Accounts /\ index[h] \in Nat
  BY DEF AddressesShape, AddressesTypeOK, Busy, Insert
<1>2. stored[account[h]] = 0..(index[h] - 1) /\ active[account[h]] = {}
  BY DEF AddressesShape, Pending, Insert, Inserting
<1>3. stored[account[h]] \cup {index[h]} = 0..index[h] /\ active[account[h]] \cup {index[h]} = {index[h]}
  BY <1>1, <1>2
<1> QED
  BY <1>1, <1>2, <1>3 DEF Insert

LEMMA NextContiguous ==
    ASSUME AddressesShape, [AddressesNext]_addressVars
    PROVE  Contiguous'
<1>1. ASSUME NEW h \in Callers, Insert(h)
      PROVE  Contiguous'
  <2> SUFFICES ASSUME NEW a \in Accounts PROVE \E n \in Nat : stored'[a] = 0..(n - 1)
    BY DEF Contiguous
  <2>1. CASE a = account[h]
    <3>1. stored'[a] = 0..index[h] /\ index[h] \in Nat
      BY <1>1, <2>1, InsertIsNext DEF AddressesShape, AddressesTypeOK
    <3>2. index[h] + 1 \in Nat /\ (index[h] + 1) - 1 = index[h]
      BY <3>1
    <3> QED
      BY <3>1, <3>2
  <2>2. CASE a # account[h]
    BY <1>1, <2>2, InsertIsNext DEF AddressesShape, AddressesTypeOK, Contiguous
  <2> QED
    BY <2>1, <2>2
<1>2. ASSUME ~\E h \in Callers : Insert(h)
      PROVE  UNCHANGED stored
  BY <1>2 DEF AddressesNext, CallStep, BeginGet, BeginRotate, ReadMax, Deactivate, InsertTaken, Describe,
              DropCall, Load, Stop, addressVars, table
<1>3. CASE UNCHANGED stored
  BY <1>3 DEF AddressesShape, Contiguous
<1> QED
  BY <1>1, <1>2, <1>3

LEMMA NextPending ==
    ASSUME AddressesShape, [AddressesNext]_addressVars
    PROVE  Pending'
<1> USE DEF AddressesShape, AddressesTypeOK, Busy, AddressPlaces, Rotating, Inserting, table, calls, listener
<1>1. ASSUME NEW h \in Callers, NEW a \in Accounts, BeginGet(h, a)
      PROVE  Pending'
  <2> SUFFICES ASSUME NEW g \in Callers
               PROVE  /\ doing'[g] = "get_insert" => index'[g] = 0
                      /\ doing'[g] \in Inserting \cup {"deactivate"} /\ index'[g] \notin stored[account'[g]]
                            => stored[account'[g]] = 0..(index'[g] - 1)
                      /\ doing'[g] \in Inserting /\ index'[g] \notin stored[account'[g]]
                            => active[account'[g]] = {}
    BY <1>1 DEF Pending, BeginGet
  <2>1. CASE g # h
    BY <1>1, <2>1 DEF Pending, BeginGet, BeginCall
  <2>2. CASE g = h
    <3>1. PICK n \in Nat : stored[a] = 0..(n - 1)
      BY DEF Contiguous
    <3>2. 0 \notin stored[a] => stored[a] = 0..(0 - 1)
      BY <3>1
    <3> QED
      BY <1>1, <2>2, <3>2 DEF BeginGet, BeginCall
  <2> QED
    BY <2>1, <2>2
<1>2. ASSUME NEW h \in Callers, NEW a \in Accounts, BeginRotate(h, a)
      PROVE  Pending'
  BY <1>2 DEF Pending, BeginRotate, BeginCall
<1>3. ASSUME NEW h \in Callers, ReadMax(h)
      PROVE  Pending'
  <2>1. account[h] \in Accounts
    BY <1>3 DEF ReadMax, Does
  <2>2. stored[account[h]] = 0..(NextIndex(account[h]) - 1)
    BY <2>1, NextIsNew
  <2> QED
    BY <1>3, <2>2 DEF Pending, ReadMax, Does
<1>4. ASSUME NEW h \in Callers, Deactivate(h)
      PROVE  Pending'
  <2>1. account[h] \in Accounts
    BY <1>4 DEF Deactivate, Does
  <2> QED
    BY <1>4, <2>1 DEF Pending, Deactivate, Continue, Does
<1>5. ASSUME NEW h \in Callers, Insert(h)
      PROVE  Pending'
  <2> DEFINE a == account[h]
  <2>1. /\ a \in Accounts /\ index[h] \in Nat
        /\ stored[a] = 0..(index[h] - 1)
        /\ stored' = [stored EXCEPT ![a] = 0..index[h]]
        /\ active' = [active EXCEPT ![a] = {index[h]}]
    BY <1>5, InsertIsNext
  <2>2. doing'[h] \notin Inserting \cup {"deactivate"}
    BY <1>5 DEF Insert, Continue, EndCall, Does
  <2>3. ASSUME NEW g \in Callers, g # h
        PROVE  doing'[g] = doing[g] /\ account'[g] = account[g] /\ index'[g] = index[g]
    BY <1>5, <2>3 DEF Insert, Continue, EndCall
  <2>4. ASSUME NEW g \in Callers, g # h, account[g] = a, doing[g] \in Inserting \cup {"deactivate"}
        PROVE  index[g] \in 0..index[h]
    <3>1. index[g] \notin stored[a] => stored[a] = 0..(index[g] - 1)
      BY <2>4 DEF Pending
    <3>2. index[g] \in Nat /\ index[h] \in Nat
      OBVIOUS
    <3> HIDE DEF a
    <3>3. CASE index[g] \in stored[a]
      BY <2>1, <3>2, <3>3
    <3>4. CASE stored[a] = 0..(index[g] - 1)
      BY <2>1, <3>2, <3>4
    <3> QED
      BY <3>1, <3>3, <3>4
  <2>5. ASSUME NEW g \in Callers, g # h
        PROVE  /\ doing'[g] = "get_insert" => index'[g] = 0
               /\ doing'[g] \in Inserting \cup {"deactivate"} /\ index'[g] \notin stored'[account'[g]]
                     => stored'[account'[g]] = 0..(index'[g] - 1)
               /\ doing'[g] \in Inserting /\ index'[g] \notin stored'[account'[g]]
                     => active'[account'[g]] = {}
    <3>1. CASE account[g] = a
      BY <2>1, <2>3, <2>4, <2>5, <3>1 DEF Pending
    <3>2. CASE account[g] # a
      BY <2>1, <2>3, <2>5, <3>2 DEF Pending
    <3> QED
      BY <3>1, <3>2
  <2> QED
    BY <2>2, <2>5 DEF Pending
<1>6. ASSUME NEW h \in Callers, InsertTaken(h) \/ Describe(h) \/ DropCall(h)
      PROVE  Pending'
  BY <1>6 DEF Pending, InsertTaken, Describe, DropCall, EndCall
<1>7. CASE Load \/ Stop \/ UNCHANGED addressVars
  BY <1>7 DEF Pending, Load, Stop, addressVars
<1> QED
  BY <1>1, <1>2, <1>3, <1>4, <1>5, <1>6, <1>7 DEF AddressesNext, CallStep

LEMMA AddressesNextShape ==
    ASSUME AddressesShape, [AddressesNext]_addressVars
    PROVE  AddressesShape'
BY NextTypeOK, NextContiguous, NextPending DEF AddressesShape

-----------------------------------------------------------------------------
(* One active address                                                      *)

LEMMA NextAtMostOne ==
    ASSUME AddressesShape, AtMostOne, [AddressesNext]_addressVars
    PROVE  AtMostOne'
<1>1. ASSUME NEW h \in Callers, Insert(h)
      PROVE  AtMostOne'
  <2> SUFFICES ASSUME NEW a \in Accounts
               PROVE  active'[a] \subseteq stored'[a] /\ \A i, j \in active'[a] : i = j
    BY DEF AtMostOne
  <2>1. CASE a = account[h]
    <3>1. active'[a] = {index[h]} /\ stored'[a] = 0..index[h] /\ index[h] \in Nat
      BY <1>1, <2>1, InsertIsNext DEF AddressesShape, AddressesTypeOK
    <3> QED
      BY <3>1
  <2>2. CASE a # account[h]
    BY <1>1, <2>2, InsertIsNext DEF AddressesShape, AddressesTypeOK, AtMostOne
  <2> QED
    BY <2>1, <2>2
<1>2. ASSUME NEW h \in Callers, Deactivate(h)
      PROVE  AtMostOne'
  BY <1>2 DEF Deactivate, AtMostOne, AddressesShape, AddressesTypeOK
<1>3. ASSUME ~\E h \in Callers : Insert(h) \/ Deactivate(h)
      PROVE  UNCHANGED table
  BY <1>3 DEF AddressesNext, CallStep, BeginGet, BeginRotate, ReadMax, InsertTaken, Describe,
              DropCall, Load, Stop, addressVars, table
<1>4. CASE UNCHANGED table
  BY <1>4 DEF AtMostOne, table
<1> QED
  BY <1>1, <1>2, <1>3, <1>4

LEMMA NextAlone ==
    ASSUME AddressesShape, Alone, [AddressesNext]_addressVars
    PROVE  Alone'
<1> USE DEF AddressesShape, AddressesTypeOK, Busy, AddressPlaces, CallsOf, RotationsOf, Rotating, table, calls, listener
<1>1. ASSUME NEW k \in Callers, NEW a \in Accounts, BeginGet(k, a)
      PROVE  Alone'
  BY <1>1 DEF Alone, AloneAt, BeginGet, BeginCall, Does
<1>2. ASSUME NEW k \in Callers, NEW a \in Accounts, BeginRotate(k, a)
      PROVE  Alone'
  BY <1>2 DEF Alone, AloneAt, BeginRotate, BeginCall, Does
<1>3. ASSUME NEW k \in Callers, ReadMax(k)
      PROVE  Alone'
  <2>1. account[k] \in Accounts
    BY <1>3 DEF ReadMax, Does
  <2>2. NextIndex(account[k]) \notin stored[account[k]]
    BY <2>1, NextIsNew
  <2> QED
    BY <1>3, <2>2 DEF Alone, AloneAt, ReadMax, Does
<1>4. ASSUME NEW k \in Callers, Deactivate(k)
      PROVE  Alone'
  BY <1>4 DEF Alone, AloneAt, Deactivate, Continue, Does
<1>5. ASSUME NEW k \in Callers, Insert(k)
      PROVE  Alone'
  <2> SUFFICES ASSUME NEW h \in Callers, account'[h] \in Accounts \ disturbed'
               PROVE  AloneAt(h)'
    BY DEF Alone
  <2>1. /\ account[k] \in Accounts
        /\ active' = [active EXCEPT ![account[k]] = {index[k]}]
    BY <1>5, InsertIsNext
  <2>2. h # k => doing'[h] = doing[h] /\ account'[h] = account[h] /\ index'[h] = index[h]
    BY <1>5 DEF Insert, Continue, EndCall
  <2>3. CASE h # k /\ account[h] = account[k]
    <3>1. doing[h] \notin Rotating
      BY <1>5, <2>2, <2>3 DEF Alone, AloneAt, Insert
    <3> QED
      BY <2>2, <2>3, <3>1 DEF AloneAt
  <2>4. CASE h # k /\ account[h] # account[k]
    <3>1. \A g \in CallsOf(account[h])' : g \in CallsOf(account[h])
      BY <1>5, <2>2, <2>4 DEF Insert, Continue, EndCall
    <3>2. stored'[account[h]] = stored[account[h]] /\ active'[account[h]] = active[account[h]]
      BY <1>5, <2>4 DEF Insert
    <3>3. account[h] \in Accounts \ disturbed
      BY <1>5, <2>2, <2>4 DEF Insert
    <3>4. AloneAt(h)
      BY <3>3 DEF Alone
    <3> QED
      BY <2>2, <2>4, <3>1, <3>2, <3>4 DEF AloneAt
  <2>5. CASE h = k
    <3>1. doing[k] = "insert" /\ doing'[k] = "describe" /\ UNCHANGED <<account, index>>
      BY <1>5, <2>5 DEF Insert, Continue, EndCall, Does
    <3>2. account[k] \in Accounts \ disturbed
      BY <1>5, <2>5, <3>1 DEF Insert
    <3>3. \A g \in CallsOf(account[k]) : g = k
      BY <3>1, <3>2 DEF Alone, AloneAt
    <3> QED
      BY <2>1, <2>5, <3>1, <3>3 DEF AloneAt
  <2> QED
    BY <2>3, <2>4, <2>5
<1>6. ASSUME NEW k \in Callers, InsertTaken(k) \/ Describe(k) \/ DropCall(k)
      PROVE  Alone'
  BY <1>6 DEF Alone, AloneAt, InsertTaken, Describe, DropCall, EndCall
<1>7. CASE Load \/ Stop \/ UNCHANGED addressVars
  BY <1>7 DEF Alone, AloneAt, Load, Stop, addressVars
<1> QED
  BY <1>1, <1>2, <1>3, <1>4, <1>5, <1>6, <1>7 DEF AddressesNext, CallStep

LEMMA NextNewest ==
    ASSUME AddressesShape, Alone, Newest, [AddressesNext]_addressVars
    PROVE  Newest'
<1> USE DEF AddressesShape, AddressesTypeOK, Busy, AddressPlaces, CallsOf, RotationsOf, Rotating, table, calls, listener
<1> SUFFICES ASSUME NEW a \in Accounts, a \notin disturbed', stored'[a] # {}, Settled(a)'
             PROVE  active'[a] = {Max(stored'[a])}
  BY DEF Newest
<1>1. ASSUME NEW k \in Callers, Insert(k)
      PROVE  active'[a] = {Max(stored'[a])}
  <2>1. CASE a = account[k]
    <3>1. active'[a] = {index[k]} /\ stored'[a] = 0..index[k] /\ index[k] \in Nat
      BY <1>1, <2>1, InsertIsNext
    <3> QED
      BY <3>1, MaxOfRange
  <2>2. CASE a # account[k]
    <3>1. Settled(a)
      BY <1>1, <2>2 DEF Settled, Insert, Continue, EndCall, Does
    <3>2. stored'[a] = stored[a] /\ active'[a] = active[a] /\ a \notin disturbed
      BY <1>1, <2>2 DEF Insert
    <3> QED
      BY <3>1, <3>2 DEF Newest
  <2> QED
    BY <2>1, <2>2
<1>2. ASSUME NEW k \in Callers, Deactivate(k)
      PROVE  active'[a] = {Max(stored'[a])}
  <2>1. a # account[k]
    BY <1>2 DEF Settled, Deactivate, Continue, Does
  <2>2. Settled(a)
    BY <1>2, <2>1 DEF Settled, Deactivate, Continue, Does
  <2>3. stored'[a] = stored[a] /\ active'[a] = active[a] /\ a \notin disturbed
    BY <1>2, <2>1 DEF Deactivate
  <2> QED
    BY <2>2, <2>3 DEF Newest
<1>3. CASE UNCHANGED table /\ a \notin disturbed /\ Settled(a)
  BY <1>3 DEF Newest
<1>4. ASSUME NEW k \in Callers,
             (\E b \in Accounts : BeginGet(k, b) \/ BeginRotate(k, b)) \/ ReadMax(k) \/ Describe(k)
      PROVE  UNCHANGED table /\ a \notin disturbed /\ Settled(a)
  BY <1>4 DEF Settled, BeginGet, BeginRotate, ReadMax, Describe, BeginCall, EndCall, Does
<1>5. ASSUME NEW k \in Callers, InsertTaken(k) \/ DropCall(k)
      PROVE  UNCHANGED table /\ a \notin disturbed /\ Settled(a)
  <2>1. UNCHANGED table /\ a \notin disturbed
    BY <1>5 DEF InsertTaken, DropCall
  <2>2. ~(account[k] = a /\ doing[k] = "insert")
    BY <1>5, <2>1 DEF Alone, AloneAt, InsertTaken, DropCall, Does
  <2>3. \A h \in Callers : h # k => doing'[h] = doing[h] /\ account'[h] = account[h]
    BY <1>5 DEF InsertTaken, DropCall, EndCall
  <2>4. Settled(a)
    BY <2>2, <2>3 DEF Settled, Does
  <2> QED
    BY <2>1, <2>4
<1>6. CASE Load \/ Stop \/ UNCHANGED addressVars
  <2>1. UNCHANGED table /\ a \notin disturbed /\ Settled(a)
    BY <1>6 DEF Settled, Does, Load, Stop, addressVars
  <2> QED
    BY <1>3, <2>1
<1> QED
  BY <1>1, <1>2, <1>3, <1>4, <1>5, <1>6 DEF AddressesNext, CallStep
-----------------------------------------------------------------------------
(* The limit                                                               *)

LEMMA CountedIsFinite ==
    ASSUME NEW a \in Accounts
    PROVE  /\ IsFiniteSet(Counted(a)) /\ Cardinality(Counted(a)) \in Nat
           /\ Cardinality(Counted(a)) <= Cardinality(Callers)
           /\ Cardinality(Callers) \in Nat
<1>1. Counted(a) \in SUBSET Callers
  BY DEF Counted, CallsOf
<1>2. IsFiniteSet(Counted(a)) /\ Cardinality(Counted(a)) <= Cardinality(Callers)
  BY <1>1, FS_Subset
<1> QED
  BY <1>2, FS_CardinalityType

LEMMA StoredIsFinite ==
    ASSUME Contiguous, NEW a \in Accounts
    PROVE  IsFiniteSet(stored[a]) /\ Cardinality(stored[a]) \in Nat
<1>1. PICK n \in Nat : stored[a] = 0..(n - 1)
  BY DEF Contiguous
<1>2. 0 \in Int /\ n - 1 \in Int
  BY <1>1
<1>3. IsFiniteSet(stored[a])
  BY <1>1, <1>2, FS_Interval
<1> QED
  BY <1>3, FS_CardinalityType

\* Only a new row and a call that is counted in come closer to the limit.
LEMMA NoMoreCounted ==
    ASSUME AddressesShape, Limit, UNCHANGED stored,
           \A a \in Accounts : Counted(a)' \subseteq Counted(a)
    PROVE  Limit'
<1> SUFFICES ASSUME NEW a \in Accounts
             PROVE  Cardinality(stored'[a]) + Cardinality(Counted(a)')
                      <= MaxAddresses + Cardinality(Callers) - 1
  BY DEF Limit
<1>1. Cardinality(Counted(a)') <= Cardinality(Counted(a)) /\ IsFiniteSet(Counted(a)')
  BY CountedIsFinite, FS_Subset
<1>2. Cardinality(Counted(a)') \in Nat
  BY <1>1, FS_CardinalityType
<1> QED
  BY <1>1, <1>2, CountedIsFinite, StoredIsFinite DEF Limit, AddressesShape

LEMMA NextLimit ==
    ASSUME AddressesShape, Limit, [AddressesNext]_addressVars
    PROVE  Limit'
<1> USE DEF AddressesShape, AddressesTypeOK, Busy, AddressPlaces, CallsOf, Counted, table, calls, listener
<1>1. ASSUME NEW k \in Callers, NEW b \in Accounts, BeginGet(k, b)
      PROVE  Limit'
  <2>1. \A a \in Accounts : Counted(a)' \subseteq Counted(a)
    BY <1>1 DEF BeginGet, BeginCall
  <2> QED
    BY <1>1, <2>1, NoMoreCounted DEF BeginGet
<1>2. ASSUME NEW k \in Callers, NEW b \in Accounts, BeginRotate(k, b)
      PROVE  Limit'
  <2> SUFFICES ASSUME NEW a \in Accounts
               PROVE  Cardinality(stored'[a]) + Cardinality(Counted(a)')
                        <= MaxAddresses + Cardinality(Callers) - 1
    BY DEF Limit
  <2>1. stored' = stored
    BY <1>2 DEF BeginRotate
  <2>2. CASE a = b
    <3>1. Cardinality(stored[a]) < MaxAddresses
      BY <1>2, <2>2 DEF BeginRotate, RoomFor
    <3>2. /\ Cardinality(Counted(a)') \in Nat /\ Cardinality(Callers) \in Nat
          /\ Cardinality(Counted(a)') <= Cardinality(Callers)
      <4>1. Counted(a)' \in SUBSET Callers
        OBVIOUS
      <4> QED
        BY <4>1, FS_Subset, FS_CardinalityType
    <3> HIDE DEF Counted
    <3> QED
      BY <2>1, <3>1, <3>2, StoredIsFinite
  <2>3. CASE a # b
    <3>1. Counted(a)' = Counted(a)
      BY <1>2, <2>3 DEF BeginRotate, BeginCall, Does
    <3> HIDE DEF Counted
    <3> QED
      BY <2>1, <3>1 DEF Limit
  <2> QED
    BY <2>2, <2>3
<1>3. ASSUME NEW k \in Callers, Insert(k)
      PROVE  Limit'
  <2> SUFFICES ASSUME NEW a \in Accounts
               PROVE  Cardinality(stored'[a]) + Cardinality(Counted(a)')
                        <= MaxAddresses + Cardinality(Callers) - 1
    BY DEF Limit
  <2> DEFINE b == account[k]
  <2>1. b \in Accounts /\ stored' = [stored EXCEPT ![b] = @ \cup {index[k]}] /\ index[k] \notin stored[b]
    BY <1>3, InsertIsNext DEF Insert
  <2>2. CASE a # b
    <3>1. Counted(a)' = Counted(a) /\ stored'[a] = stored[a]
      BY <1>3, <2>1, <2>2 DEF Insert, Continue, EndCall
    <3> HIDE DEF Counted
    <3> QED
      BY <3>1 DEF Limit
  <2>3. CASE a = b
    <3>1. Cardinality(stored'[a]) = Cardinality(stored[a]) + 1
      <4>1. stored'[a] = stored[a] \cup {index[k]} /\ index[k] \notin stored[a]
        BY <2>1, <2>3
      <4> QED
        BY <4>1, StoredIsFinite, FS_AddElement
    <3>2. Counted(a)' = Counted(a) \ {k}
      BY <1>3, <2>3 DEF Insert, Continue, EndCall, Does
    <3>3. CASE doing[k] = "insert"
      <4>1. k \in Counted(a)
        BY <2>3, <3>3
      <4> HIDE DEF Counted
      <4>2. Cardinality(Counted(a)') = Cardinality(Counted(a)) - 1
        BY <3>2, <4>1, CountedIsFinite, FS_RemoveElement
      <4> QED
        BY <3>1, <4>2, CountedIsFinite, StoredIsFinite DEF Limit
    <3>4. CASE doing[k] = "get_insert"
      <4>1. stored[a] = {}
        <5>1. index[k] = 0 /\ stored[a] = 0..(index[k] - 1)
          BY <1>3, <2>3, <3>4, InsertIsNext DEF Pending
        <5> QED
          BY <5>1
      <4>2. Cardinality(stored[a]) = 0
        BY <4>1, FS_EmptySet
      <4>3. Counted(a)' \in SUBSET (Callers \ {k})
        BY <3>2
      <4> HIDE DEF Counted
      <4>4. /\ IsFiniteSet(Callers \ {k})
            /\ Cardinality(Callers \ {k}) = Cardinality(Callers) - 1
        BY FS_RemoveElement
      <4>5. Cardinality(Counted(a)') <= Cardinality(Callers) - 1 /\ IsFiniteSet(Counted(a)')
        BY <4>3, <4>4, FS_Subset
      <4>6. Cardinality(Counted(a)') \in Nat /\ Cardinality(Callers) \in Nat
        BY <4>5, FS_CardinalityType
      <4> QED
        BY <3>1, <4>2, <4>5, <4>6
    <3> QED
      BY <1>3, <3>3, <3>4 DEF Insert
  <2> QED
    BY <2>2, <2>3
<1>4. ASSUME NEW k \in Callers,
             ReadMax(k) \/ Deactivate(k) \/ InsertTaken(k) \/ Describe(k) \/ DropCall(k)
      PROVE  Limit'
  <2>1. \A a \in Accounts : Counted(a)' \subseteq Counted(a)
    BY <1>4 DEF ReadMax, Deactivate, InsertTaken, Describe, DropCall, Continue, EndCall, Does
  <2>2. UNCHANGED stored
    BY <1>4 DEF ReadMax, Deactivate, InsertTaken, Describe, DropCall
  <2> QED
    BY <2>1, <2>2, NoMoreCounted
<1>5. CASE Load \/ Stop \/ UNCHANGED addressVars
  <2>1. UNCHANGED <<stored, doing, account>>
    BY <1>5 DEF Load, Stop, addressVars
  <2>2. \A a \in Accounts : Counted(a)' \subseteq Counted(a)
    BY <2>1
  <2> QED
    BY <2>1, <2>2, NoMoreCounted
<1> QED
  BY <1>1, <1>2, <1>3, <1>4, <1>5 DEF AddressesNext, CallStep
-----------------------------------------------------------------------------
(* The listener                                                            *)

LEMMA NextWatch ==
    ASSUME AddressesShape, AtMostOne, Watch, [AddressesNext]_addressVars
    PROVE  Watch'
<1> USE DEF AddressesShape, AddressesTypeOK, table, listener
<1>1. ASSUME NEW k \in Callers, Insert(k)
      PROVE  Watch'
  <2>1. /\ account[k] \in Accounts
        /\ active' = [active EXCEPT ![account[k]] = {index[k]}]
    BY <1>1, InsertIsNext
  <2> QED
    BY <1>1, <2>1 DEF Watch, Insert
<1>2. ASSUME NEW k \in Callers, Deactivate(k)
      PROVE  Watch'
  BY <1>2 DEF Watch, Deactivate
<1>3. CASE Load
  BY <1>3 DEF Watch, Load, AtMostOne
<1>4. CASE Stop
  BY <1>4 DEF Watch, Stop
<1>5. ASSUME UNCHANGED <<table, listener>>
      PROVE  Watch'
  BY <1>5 DEF Watch
<1>6. ASSUME NEW k \in Callers,
             (\E b \in Accounts : BeginGet(k, b) \/ BeginRotate(k, b)) \/ ReadMax(k)
                \/ InsertTaken(k) \/ Describe(k) \/ DropCall(k)
      PROVE  UNCHANGED <<table, listener>>
  BY <1>6 DEF BeginGet, BeginRotate, ReadMax, InsertTaken, Describe, DropCall
<1> QED
  BY <1>1, <1>2, <1>3, <1>4, <1>5, <1>6 DEF AddressesNext, CallStep, addressVars
-----------------------------------------------------------------------------
LEMMA AddressesInductive == AddressesSpec => []AddressesIInv
<1>1. ASSUME AddressesIInv, [AddressesNext]_addressVars PROVE AddressesIInv'
  BY <1>1, AddressesNextShape, NextAtMostOne, NextAlone, NextNewest, NextLimit, NextWatch DEF AddressesIInv
<1> QED
  BY <1>1, AddressesInitIInv, PTL DEF AddressesSpec

(* Every call, table and listener keeps its type, for any constants.       *)
THEOREM AddressesTypeCorrect == AddressesSpec => []AddressesTypeOK
<1>1. AddressesIInv => AddressesTypeOK
  BY DEF AddressesIInv, AddressesShape
<1> QED
  BY <1>1, AddressesInductive, PTL

(* No interleaving of getting and rotating addresses, and no dropped call, *)
(* leaves an account with two active addresses; without overlaps and drops *)
(* the newest address is the active one and the one a rotation answers with. *)
THEOREM AddressUnique == AddressesSpec => []OneActive
<1>1. AddressesIInv => OneActive
  BY DEF AddressesIInv, AddressesShape, Busy, AddressesTypeOK, AtMostOne, Newest, Alone, AloneAt, OneActive, CallsOf, RotationsOf, Does
<1> QED
  BY <1>1, AddressesInductive, PTL

(* The limit on addresses is exceeded by at most one address for every     *)
(* call that runs beside another.                                          *)
THEOREM LimitKept == AddressesSpec => []WithinLimit
<1>1. ASSUME AddressesIInv PROVE WithinLimit
  BY <1>1, CountedIsFinite, StoredIsFinite DEF AddressesIInv, AddressesShape, Limit, WithinLimit
<1> QED
  BY <1>1, AddressesInductive, PTL

(* The listener misses only addresses that are newer than its start.       *)
THEOREM ListenerMissesOnlyNewer == AddressesSpec => []MissesOnlyNewer
<1>1. AddressesIInv => MissesOnlyNewer
  BY DEF AddressesIInv, Watch, MissesOnlyNewer
<1> QED
  BY <1>1, AddressesInductive, PTL

(* Both at once: the address an account is told is the one listened to.    *)
THEOREM AddressesServed == AddressesSpec => []AddressServed
BY AddressUnique, ListenerMissesOnlyNewer, PTL DEF AddressServed
=============================================================================
