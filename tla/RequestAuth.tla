---------------------------- MODULE RequestAuth ----------------------------
(***************************************************************************)
(* Who a request is (sonotxt-api/src/auth/): an API key, looked up in      *)
(* redis and then in api_keys and cached for Ttl, or a ZID public key,     *)
(* whose account is created when it is first seen.  One key and one ZID    *)
(* are enough, as they share nothing.                                      *)
(*                                                                         *)
(* Time passes in ticks; the TimeoutLayer drops a request after Timeout.   *)
(* The process revokes no key itself: an operator sets api_keys.revoked.   *)
(***************************************************************************)
EXTENDS Requests, FiniteSets

CONSTANTS Ttl,         \* SETEX ... 300
          Timeout,     \* request_timeout
          NewId(_)     \* Uuid::new_v4 of a request that finds no account

ASSUME RequestAuthAssumption ==
    /\ Ttl \in Nat \ {0} /\ Timeout \in Nat
    /\ \A h \in Handlers : NewId(h) # Nothing
    /\ \A g, h \in Handlers : NewId(g) = NewId(h) => g = h

VARIABLES keyRow,      \* api_keys: "none", "valid" or "revoked"
          cachedFor,   \* time to live of apikey:<key>, 0 without the entry
          revokedFor,  \* ticks since the revocation, up to Ttl + Timeout + 1
          admittedAt,  \* the latest revokedFor at which the key was accepted,
                       \* -1 if that never happened (history)
          zidAccount,  \* accounts.id of the ZID
          funded,      \* accounts with a row in account_credits
          zidCut       \* a creation ended between the two rows (history)

auths == <<keyRow, cachedFor, revokedFor, admittedAt, zidAccount, funded, zidCut>>
authVars == <<requests, auths>>

AuthLocations == {"get_cache", "select_key", "setex", "insert_key",
                  "select_account", "insert_account", "insert_credits"}

\* Each request keeps the time it has left.
Left(h) == local[h]

AuthInit == /\ keyRow = "none" /\ cachedFor = 0 /\ revokedFor = 0 /\ admittedAt = -1
            /\ zidAccount = Nothing /\ funded = {} /\ zidCut = FALSE
-----------------------------------------------------------------------------
\* create_api_key: account, credits and key in one transaction, then SETEX.
BeginCreateKey(h) == keyRow = "none" /\ Begin(h, "insert_key", Timeout) /\ UNCHANGED auths

InsertKey(h) == /\ At(h, "insert_key")
                /\ keyRow = "none"
                /\ keyRow' = "valid"
                /\ Goto(h, "setex")
                /\ UNCHANGED <<cachedFor, revokedFor, admittedAt, zidAccount, funded, zidCut>>

\* The extractors AuthenticatedUser and TtsUser.
BeginBearer(h) == Begin(h, "get_cache", Timeout) /\ UNCHANGED auths

Admit == admittedAt' = IF keyRow = "revoked" THEN revokedFor ELSE admittedAt

\* Mutant: a hit renews the entry.
CacheHit_Renews(h) == /\ At(h, "get_cache")
                      /\ cachedFor > 0
                      /\ cachedFor' = Ttl
                      /\ Admit
                      /\ End(h)
                      /\ UNCHANGED <<keyRow, revokedFor, zidAccount, funded, zidCut>>

\* A hit leaves the time to live alone.
CacheHit(h) == /\ At(h, "get_cache")
               /\ cachedFor > 0
               /\ Admit
               /\ End(h)
               /\ UNCHANGED <<keyRow, cachedFor, revokedFor, zidAccount, funded, zidCut>>

CacheMiss(h) == /\ At(h, "get_cache")
                /\ cachedFor = 0
                /\ Goto(h, "select_key")
                /\ UNCHANGED auths

\* No row or a revoked one: refused, or served as free tier.
SelectKey(h) == /\ At(h, "select_key")
                /\ IF keyRow = "valid" THEN Goto(h, "setex") ELSE End(h)
                /\ UNCHANGED auths

\* The error of SETEX is ignored.
CacheKey(h) == /\ At(h, "setex")
               /\ cachedFor' \in {Ttl, cachedFor}
               /\ Admit
               /\ End(h)
               /\ UNCHANGED <<keyRow, revokedFor, zidAccount, funded, zidCut>>

Revoke == /\ keyRow = "valid"
          /\ keyRow' = "revoked"
          /\ UNCHANGED <<requests, cachedFor, revokedFor, admittedAt, zidAccount, funded, zidCut>>
-----------------------------------------------------------------------------
\* ZidUser, once the signature and its age have been checked.
BeginZid(h) == Begin(h, "select_account", Timeout) /\ UNCHANGED auths

SelectAccount(h) == /\ At(h, "select_account")
                    /\ IF zidAccount = Nothing THEN Goto(h, "insert_account") ELSE End(h)
                    /\ UNCHANGED auths

\* ON CONFLICT keeps the id there is; the one that is returned is not read.
InsertAccount(h) == /\ At(h, "insert_account")
                    /\ zidAccount' = IF zidAccount = Nothing THEN NewId(h) ELSE zidAccount
                    /\ Goto(h, "insert_credits")
                    /\ UNCHANGED <<keyRow, cachedFor, revokedFor, admittedAt, funded, zidCut>>

\* The request goes on with its own id; without such an account the foreign
\* key fails and so does the request.
InsertCreditsRow(h) ==
    /\ At(h, "insert_credits")
    /\ funded' = funded \cup ({NewId(h)} \cap {zidAccount})
    /\ End(h)
    /\ UNCHANGED <<keyRow, cachedFor, revokedFor, admittedAt, zidAccount, zidCut>>
-----------------------------------------------------------------------------
DropAuth(h) == /\ Dropped(h)
               /\ zidCut' = (zidCut \/ (At(h, "insert_credits") /\ zidAccount = NewId(h)))
               /\ UNCHANGED <<keyRow, cachedFor, revokedFor, admittedAt, zidAccount, funded>>

\* No request outlives its timeout.
Tick == /\ \A h \in Handlers : ~At(h, "idle") => Left(h) > 0
        /\ local' = [h \in Handlers |-> IF At(h, "idle") THEN Nothing ELSE Left(h) - 1]
        /\ cachedFor' = IF cachedFor > 0 THEN cachedFor - 1 ELSE 0
        /\ revokedFor' = IF keyRow = "revoked" /\ revokedFor <= Ttl + Timeout
                         THEN revokedFor + 1 ELSE revokedFor
        /\ UNCHANGED <<pc, faults, keyRow, admittedAt, zidAccount, funded, zidCut>>

AuthNext == \/ \E h \in Handlers :
                 \/ BeginCreateKey(h) \/ InsertKey(h) \/ BeginBearer(h) \/ CacheHit(h)
                 \/ CacheMiss(h) \/ SelectKey(h) \/ CacheKey(h)
                 \/ BeginZid(h) \/ SelectAccount(h) \/ InsertAccount(h) \/ InsertCreditsRow(h)
                 \/ DropAuth(h)
            \/ Revoke \/ Tick

AuthSpec == RequestsInit /\ AuthInit /\ [][AuthNext]_authVars
-----------------------------------------------------------------------------
(* Type correctness.                                                       *)
AuthTypeOK == /\ RequestsTypeOK(AuthLocations, 0..Timeout)
              /\ keyRow \in {"none", "valid", "revoked"}
              /\ cachedFor \in 0..Ttl
              /\ revokedFor \in 0..Ttl + Timeout + 1
              /\ admittedAt \in Int
              /\ zidAccount \in {NewId(h) : h \in Handlers} \cup {Nothing}
              /\ funded \subseteq {NewId(h) : h \in Handlers}
              /\ zidCut \in BOOLEAN

(* Nothing removes the cache entry of a key that is revoked, and a request *)
(* that read the row before may write the entry after: the key is accepted *)
(* for one lifetime of an entry and one of a request, and no longer.       *)
RevokedIsRefused == admittedAt < Ttl + Timeout

(* Two requests create the account of a ZID together, and only one of      *)
(* their ids is stored: credits belong to the stored account, and it has   *)
(* them, unless its creation is between the two rows or ended there.       *)
AccountIsFunded ==
    /\ funded \subseteq {zidAccount}
    /\ zidAccount # Nothing /\ funded = {} =>
           zidCut \/ \E h \in Handlers : At(h, "insert_credits") /\ NewId(h) = zidAccount

(* Whoever is let in is somebody: the holder of a key that is valid or was *)
(* a moment ago, or of a ZID with one account that can be charged.         *)
IdentityHolds == RevokedIsRefused /\ AccountIsFunded
=============================================================================
