---------------------------- MODULE ZcashScanner ----------------------------
(***************************************************************************)
(* The scanner of shielded payments                                        *)
(* (sonotxt-api/src/services/payments/zcash.rs): it lists what was         *)
(* received, credits the account of the ZID in the memo, creates that      *)
(* account if need be, and keeps the ids of the transactions it has        *)
(* worked on in memory.  A request of the ZID may create the account at    *)
(* the same time (auth/zid.rs).  One ZID is enough.  No built binary       *)
(* constructs the scanner at this commit: it is modelled as it stands.     *)
(***************************************************************************)
EXTENDS Integers, FiniteSets

CONSTANTS Notes,       \* payments with a valid memo
          TxOf,        \* the transaction of a note; it may hold several
          MaxStarts,   \* bound on the starts of the process
          MaxFailures  \* bound on failed statements and creations cut short

ASSUME ZcashAssumption == MaxStarts \in Nat \ {0} /\ MaxFailures \in Nat

VARIABLES confirmed,   \* notes with a confirmation
          seen,        \* seen_txids
          todo,        \* notes the present scan has yet to look at
          payment,     \* the one it works on
          place,       \* "idle", "next", or the statement that is next
          zidRow,      \* rows of the ZID: "none", "bare" (without credits), "funded"
          mine,        \* the scanner's id is the one in the row
          creating,    \* a request is between its two INSERTs
          credited,    \* how often a note was added to the balance
          unfunded,    \* notes that met no row to be added to (history)
          unrecorded,  \* failed INSERTs into transactions, by note (history)
          cut,         \* a creation ended between its INSERTs (history)
          starts,      \* of the process
          failures

accountRows == <<zidRow, mine, creating, cut>>
scanning == <<seen, todo, payment, place>>
received == <<confirmed, credited, unfunded, unrecorded>>
zcashVars == <<accountRows, scanning, received, starts, failures>>

Statements == {"find_account", "add_account", "add_credits", "credit", "record"}

ZcashInit == /\ confirmed = {} /\ seen = {} /\ todo = {} /\ unfunded = {}
             /\ payment \in Notes
             /\ place = "idle"
             /\ zidRow = "none" /\ mine = FALSE /\ creating = FALSE /\ cut = FALSE
             /\ credited = [n \in Notes |-> 0] /\ unrecorded = [n \in Notes |-> 0]
             /\ starts = 1 /\ failures = 0
-----------------------------------------------------------------------------
Confirm(n) == /\ n \notin confirmed
              /\ confirmed' = confirmed \cup {n}
              /\ UNCHANGED <<accountRows, scanning, credited, unfunded, unrecorded, starts, failures>>

\* z_listreceivedbyaddress; an error ends the scan before it began.
ListReceived == /\ place = "idle"
                /\ todo' = confirmed
                /\ place' = "next"
                /\ UNCHANGED <<accountRows, seen, payment, received, starts, failures>>

\* Mutant: the notes of a scan are not compared with what was seen.
NextNote_Again(n) == /\ place = "next" /\ n \in todo
                     /\ todo' = todo \ {n}
                     /\ payment' = n
                     /\ place' = "find_account"
                     /\ UNCHANGED <<accountRows, seen, received, starts, failures>>

NextNote(n) == /\ place = "next" /\ n \in todo
               /\ todo' = todo \ {n}
               /\ IF TxOf[n] \in seen THEN UNCHANGED <<payment, place>>
                  ELSE payment' = n /\ place' = "find_account"
               /\ UNCHANGED <<accountRows, seen, received, starts, failures>>

EndScan == /\ place = "next" /\ todo = {}
           /\ place' = "idle"
           /\ UNCHANGED <<accountRows, seen, todo, payment, received, starts, failures>>

FindAccount == /\ place = "find_account"
               /\ place' = IF zidRow = "none" THEN "add_account" ELSE "credit"
               /\ UNCHANGED <<accountRows, seen, todo, payment, received, starts, failures>>

\* ON CONFLICT (zid_pubkey) DO NOTHING: the row may be another's.
AddAccount == /\ place = "add_account"
              /\ mine' = (zidRow = "none")
              /\ zidRow' = IF zidRow = "none" THEN "bare" ELSE zidRow
              /\ place' = "add_credits"
              /\ UNCHANGED <<creating, cut, seen, todo, payment, received, starts, failures>>

\* The error of a statement ends the scan.
Abort == place' = "idle" /\ todo' = {}

\* account_credits refers to accounts: an id that was not stored is an error.
AddCredits == /\ place = "add_credits"
              /\ IF mine THEN zidRow' = "funded" /\ place' = "credit" /\ UNCHANGED todo
                 ELSE Abort /\ UNCHANGED zidRow
              /\ UNCHANGED <<mine, creating, cut, seen, payment, received, starts, failures>>

\* An UPDATE that meets no row is no error.
CreditPayment ==
    /\ place = "credit"
    /\ IF zidRow = "funded"
       THEN credited' = [credited EXCEPT ![payment] = @ + 1] /\ UNCHANGED unfunded
       ELSE unfunded' = unfunded \cup {payment} /\ UNCHANGED credited
    /\ place' = "record"
    /\ UNCHANGED <<accountRows, seen, todo, payment, confirmed, unrecorded, starts, failures>>

\* transactions has no UNIQUE column: a second row is no conflict.
RecordPayment ==
    /\ place = "record"
    /\ seen' = seen \cup {TxOf[payment]}
    /\ place' = "next"
    /\ UNCHANGED <<accountRows, todo, payment, received, starts, failures>>

Failure == failures < MaxFailures /\ failures' = failures + 1

StatementFails ==
    /\ place \in Statements
    /\ Failure
    /\ Abort
    /\ unrecorded' = [unrecorded EXCEPT ![payment] = IF place = "record" THEN @ + 1 ELSE @]
    /\ cut' = (cut \/ (place = "add_credits" /\ mine))
    /\ UNCHANGED <<zidRow, mine, creating, seen, payment, confirmed, credited, unfunded, starts>>

\* What was seen is forgotten.
RestartScanner ==
    /\ starts < MaxStarts
    /\ starts' = starts + 1
    /\ seen' = {}
    /\ Abort
    /\ cut' = (cut \/ (place = "add_credits" /\ mine))
    /\ UNCHANGED <<zidRow, mine, creating, payment, received, failures>>
-----------------------------------------------------------------------------
\* get_or_create_account, for a request of the ZID.
CreateForRequest == /\ zidRow = "none"
                    /\ zidRow' = "bare" /\ creating' = TRUE
                    /\ UNCHANGED <<mine, cut, scanning, received, starts, failures>>

FundForRequest == /\ creating
                  /\ zidRow' = "funded" /\ creating' = FALSE
                  /\ UNCHANGED <<mine, cut, scanning, received, starts, failures>>

CutRequest == /\ creating
              /\ Failure
              /\ creating' = FALSE /\ cut' = TRUE
              /\ UNCHANGED <<zidRow, mine, scanning, received, starts>>

ZcashNext == \/ \E n \in Notes : Confirm(n) \/ NextNote(n)
             \/ ListReceived \/ EndScan \/ FindAccount \/ AddAccount \/ AddCredits
             \/ CreditPayment \/ RecordPayment \/ StatementFails \/ RestartScanner
             \/ CreateForRequest \/ FundForRequest \/ CutRequest

ZcashSpec == ZcashInit /\ [][ZcashNext]_zcashVars
-----------------------------------------------------------------------------
(* Type correctness.                                                       *)
ZcashTypeOK ==
    /\ confirmed \subseteq Notes /\ todo \subseteq confirmed /\ unfunded \subseteq Notes
    /\ seen \subseteq {TxOf[n] : n \in Notes}
    /\ payment \in Notes
    /\ place \in Statements \cup {"idle", "next"}
    /\ zidRow \in {"none", "bare", "funded"}
    /\ mine \in BOOLEAN /\ creating \in BOOLEAN /\ cut \in BOOLEAN
    /\ credited \in [Notes -> Nat] /\ unrecorded \in [Notes -> Nat]
    /\ starts \in 1..MaxStarts /\ failures \in 0..MaxFailures

(* A note is credited once in the lifetime of a process, and once more for *)
(* every record of it that failed: what was seen is in memory, and the     *)
(* record in transactions, which is not looked at, comes after the credit. *)
(* A transaction that was seen has credited a note, unless its account was *)
(* still without credits, between the two statements of its creation or    *)
(* because that creation was cut short.                                    *)
CreditedPerStart ==
    /\ \A n \in Notes : credited[n] <= starts + unrecorded[n]
    /\ \A t \in seen : \E n \in Notes : TxOf[n] = t /\ (credited[n] > 0 \/ n \in unfunded)
    /\ zidRow = "bare" => cut \/ creating \/ place = "add_credits"
=============================================================================
