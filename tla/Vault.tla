------------------------------- MODULE Vault --------------------------------
(***************************************************************************)
(* The vault of one account (sonotxt-api/src/routes/vault.rs): rows of     *)
(* vault_items, the objects they name in the object store, and the credits *)
(* that publishing an item costs.  The two stores and the balance are      *)
(* changed in steps of their own.                                          *)
(***************************************************************************)
EXTENDS Requests, FiniteSets, FiniteSetsExt

CONSTANTS Items,       \* ids of uploads
          SizeOf,      \* their sizes
          Quota,       \* 1 GB
          MaxSize,     \* 100 MB
          Credits      \* balance of the account at first

ASSUME VaultAssumption == /\ Nothing \notin Items
                          /\ SizeOf \in [Items -> Nat]
                          /\ Quota \in Nat /\ MaxSize \in Nat /\ Credits \in Nat
                          /\ IsFiniteSet(Handlers) /\ Handlers # {}

VARIABLES listed,      \* items with a row
          used,        \* ids given to an upload
          objects,     \* items with an object under storage_key
          public,      \* items with is_public
          balance,     \* account_credits
          torn         \* items a delete of which ended between the stores (history)

vault == <<listed, used, objects, public, balance, torn>>
vaultVars == <<requests, vault>>

VaultInit == /\ listed = {} /\ used = {} /\ objects = {} /\ public = {}
             /\ balance = Credits
             /\ torn = {}
-----------------------------------------------------------------------------
TotalSize(S) == SumFunctionOnSet(SizeOf, S)

\* SELECT SUM(size_bytes), the quota, and the largest file.
WithinQuota(i) == TotalSize(listed) + SizeOf[i] <= Quota /\ SizeOf[i] <= MaxSize

BeginUpload(h, i) == /\ i \notin used
                     /\ WithinQuota(i)
                     /\ Begin(h, "put_object", i)
                     /\ used' = used \cup {i}
                     /\ UNCHANGED <<listed, objects, public, balance, torn>>

\* Mutant: the error of the upload is ignored.
PutObject_Lossy(h) == /\ At(h, "put_object")
                      /\ objects' \in {objects, objects \cup {local[h]}}
                      /\ Goto(h, "insert_item")
                      /\ UNCHANGED <<listed, used, public, balance, torn>>

PutObject(h) == /\ At(h, "put_object")
                /\ objects' = objects \cup {local[h]}
                /\ Goto(h, "insert_item")
                /\ UNCHANGED <<listed, used, public, balance, torn>>

InsertItem(h) == /\ At(h, "insert_item")
                 /\ listed' = listed \cup {local[h]}
                 /\ End(h)
                 /\ UNCHANGED <<used, objects, public, balance, torn>>
-----------------------------------------------------------------------------
BeginDelete(h, i) == /\ i \in listed
                     /\ Begin(h, "delete_object", i)
                     /\ UNCHANGED vault

\* Best effort: the object may stay, and its row goes all the same.
DeleteObject(h) == /\ At(h, "delete_object")
                   /\ objects' \in {objects, objects \ {local[h]}}
                   /\ Goto(h, "delete_item")
                   /\ UNCHANGED <<listed, used, public, balance, torn>>

DeleteItem(h) == /\ At(h, "delete_item")
                 /\ listed' = listed \ {local[h]}
                 /\ public' = public \ {local[h]}
                 /\ End(h)
                 /\ UNCHANGED <<used, objects, balance, torn>>

\* download_encrypted changes nothing: it answers NotFound without a row or
\* without the object.
-----------------------------------------------------------------------------
BeginPublish(h, i) == /\ i \in listed
                      /\ Begin(h, "read_balance", i)
                      /\ UNCHANGED vault

\* Mutant: the deduction is tried for every request that found an item.
ReadBalance_Unchecked(h) == /\ At(h, "read_balance")
                            /\ Goto(h, "deduct")
                            /\ UNCHANGED vault

\* A publication costs what its size does.
ReadBalance(h) == /\ At(h, "read_balance")
                  /\ IF balance < SizeOf[local[h]] THEN End(h) ELSE Goto(h, "deduct")
                  /\ UNCHANGED vault

\* UPDATE ... SET balance = balance - $1, whatever it has become.
Deduct(h) == /\ At(h, "deduct")
             /\ balance' = balance - SizeOf[local[h]]
             /\ \/ Goto(h, "put_copy")       \* decrypted data is sent along
                \/ Goto(h, "update_item")    \* or the encrypted object is made public
             /\ UNCHANGED <<listed, used, objects, public, torn>>

\* An object of its own, public/<id>, which no handler reads or removes.
PutCopy(h) == At(h, "put_copy") /\ Goto(h, "update_item") /\ UNCHANGED vault

\* UPDATE ... WHERE id = $3: no row is no error.
UpdateItem(h) == /\ At(h, "update_item")
                 /\ public' = public \cup ({local[h]} \cap listed)
                 /\ End(h)
                 /\ UNCHANGED <<listed, used, objects, balance, torn>>

\* Data that cannot be decoded is refused after the payment.
RefuseData(h) == At(h, "put_copy") /\ End(h) /\ UNCHANGED vault

DropVault(h) == /\ Dropped(h)
                /\ torn' = torn \cup {i \in {local[h]} : At(h, "delete_item")}
                /\ UNCHANGED <<listed, used, objects, public, balance>>

VaultNext == \E h \in Handlers :
    \/ \E i \in Items : BeginUpload(h, i) \/ BeginDelete(h, i) \/ BeginPublish(h, i)
    \/ PutObject(h) \/ InsertItem(h) \/ DeleteObject(h) \/ DeleteItem(h)
    \/ ReadBalance(h) \/ Deduct(h) \/ PutCopy(h) \/ UpdateItem(h) \/ RefuseData(h)
    \/ DropVault(h)

VaultSpec == RequestsInit /\ VaultInit /\ [][VaultNext]_vaultVars
-----------------------------------------------------------------------------
VaultLocations == {"put_object", "insert_item", "delete_object", "delete_item",
                   "read_balance", "deduct", "put_copy", "update_item"}

(* Type correctness.                                                       *)
VaultTypeOK == /\ RequestsTypeOK(VaultLocations, Items)
               /\ listed \subseteq Items /\ used \subseteq Items /\ objects \subseteq Items
               /\ public \subseteq Items /\ torn \subseteq Items
               /\ balance \in Int

(* The object is stored before its row and removed before it: an item of   *)
(* the list can be downloaded, unless a delete has removed its object and  *)
(* is about to remove the row, or was dropped there.                       *)
ListedIsStored == \A i \in listed :
    i \in objects \/ i \in torn \/ Running({"delete_item"}, i) # {}

(* Quota and balance are read in one statement and used in a later one:    *)
(* both are overrun by requests that overlap only, by one file or one      *)
(* price for every further request.                                        *)
OverrunByOverlap ==
    LET further == (Cardinality(Handlers) - 1) * MaxSize IN
    /\ TotalSize(listed) <= Quota + further
    /\ balance >= 0 - further
=============================================================================
