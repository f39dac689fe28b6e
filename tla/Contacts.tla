------------------------------ MODULE Contacts ------------------------------
(***************************************************************************)
(* The contact rows of two users (sonotxt-api/src/routes/contacts.rs): an  *)
(* invitation looks for a row of the pair and inserts one in a later       *)
(* statement; the other operations are single statements with a guard in   *)
(* their WHERE.  The table itself is not in the migrations: it is modelled *)
(* from the statements, which rely on no constraint of it.                 *)
(***************************************************************************)
EXTENDS Requests, FiniteSets

CONSTANTS Users,       \* the two users
          ContactIds   \* ids of rows

ASSUME ContactsAssumption == /\ Nothing \notin Users
                             /\ IsFiniteSet(Handlers)

VARIABLES pair,        \* the rows: who has invited, and the status
          blockers     \* rows that someone has blocked (history)

contacts == <<pair, blockers>>
contactVars == <<requests, contacts>>

NoRow == [from |-> Nothing, status |-> "none"]
Statuses == {"none", "pending", "accepted", "blocked"}

ContactsInit == /\ pair = [i \in ContactIds |-> NoRow]
                /\ blockers = {}

ContactRows == {i \in ContactIds : pair[i] # NoRow}
-----------------------------------------------------------------------------
\* Mutant: only the rows the inviter has sent are looked at.
RelatedRows_OneWay(u) == {i \in ContactRows : pair[i].from = u}

\* "in either direction": with two users, every row.
RelatedRows(u) == {i \in ContactRows : pair[i].from \in Users}

\* send_invite: the target is another user; the SELECT decides.
BeginInvite(h, u) == /\ RelatedRows(u) = {}
                     /\ Begin(h, "insert_contact", u)
                     /\ UNCHANGED contacts

InsertContact(h, i) == /\ At(h, "insert_contact")
                       /\ i \notin ContactRows \cup blockers
                       /\ pair' = [pair EXCEPT ![i] = [from |-> local[h], status |-> "pending"]]
                       /\ End(h)
                       /\ UNCHANGED blockers

DropInvite(h) == Dropped(h) /\ UNCHANGED contacts
-----------------------------------------------------------------------------
\* The one who was invited; a request that finds no such row fails.
Pending(i, u) == pair[i].status = "pending" /\ pair[i].from # u

Accept(i, u) == /\ Pending(i, u)
                /\ pair' = [pair EXCEPT ![i].status = "accepted"]
                /\ UNCHANGED <<requests, blockers>>

Reject(i, u) == /\ Pending(i, u)
                /\ pair' = [pair EXCEPT ![i] = NoRow]
                /\ UNCHANGED <<requests, blockers>>

\* Either of the two, whatever the status.
Block(i) == /\ i \in ContactRows
            /\ pair' = [pair EXCEPT ![i].status = "blocked"]
            /\ blockers' = blockers \cup {i}
            /\ UNCHANGED requests

Remove(i) == /\ i \in ContactRows
             /\ pair' = [pair EXCEPT ![i] = NoRow]
             /\ UNCHANGED <<requests, blockers>>

\* list_contacts, list_pending and lookup_user change nothing.
ContactsNext ==
    \/ \E h \in Handlers : \/ \E u \in Users : BeginInvite(h, u)
                           \/ \E i \in ContactIds : InsertContact(h, i)
                           \/ DropInvite(h)
    \/ \E i \in ContactIds : \/ \E u \in Users : Accept(i, u) \/ Reject(i, u)
                             \/ Block(i) \/ Remove(i)

ContactsSpec == RequestsInit /\ ContactsInit /\ [][ContactsNext]_contactVars
-----------------------------------------------------------------------------
(* Type correctness.                                                       *)
ContactsTypeOK == /\ RequestsTypeOK({"insert_contact"}, Users)
                  /\ pair \in [ContactIds -> [from : Users \cup {Nothing}, status : Statuses]]
                  /\ \A i \in ContactIds : pair[i].from = Nothing <=> pair[i].status = "none"
                  /\ blockers \subseteq ContactIds

(* An invitation looks for a row of the pair, in either direction, and     *)
(* inserts one later: two users have one row, and one more for each other  *)
(* invitation under way at that time; so a blocked row leaves at most      *)
(* those as a way around it.                                               *)
RowPerInvite == Cardinality(ContactRows) <= Cardinality(Handlers)

(* A row that was blocked stays so until one of the two removes it: no     *)
(* acceptance of the invitation that comes late opens it again.            *)
BlockHolds == \A i \in ContactRows \cap blockers : pair[i].status = "blocked"
=============================================================================
