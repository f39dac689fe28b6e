------------------------------ MODULE Passkeys ------------------------------
(***************************************************************************)
(* Passkeys of one mail address (sonotxt-api/src/routes/passkey.rs and     *)
(* services/passkey.rs).  A ceremony starts with a challenge, whose state  *)
(* is kept in redis under the mail address, and finishes with the answer   *)
(* an authenticator signed.  An answer carries the authenticator's         *)
(* signature counter, and the credential is stored with the last one.      *)
(* Credentials share nothing but the ceremonies: one authenticator is      *)
(* enough.  Its limiter is that of the module Logins.                      *)
(***************************************************************************)
EXTENDS Requests, FiniteSets

CONSTANTS Ceremonies   \* challenges, in the order of their creation

ASSUME PasskeysAssumption == Ceremonies \subseteq Nat /\ Nothing \notin Ceremonies

VARIABLES ceremony,    \* passkey:reg:<email> and passkey:login:<email>
          asked,       \* what a ceremony is for, "none" before it starts
          base,        \* the stored counter a login was started with
          answered,    \* ceremonies the authenticator has answered
          count,       \* with which counter
          device,      \* the authenticator's counter
          enrolled,    \* the row in passkey_credentials
          counter,     \* its counter
          sessions,    \* opened with a ceremony: none, one, or 2 for more
          shared,      \* ceremonies two requests fetched together (history)
          skewed       \* a counter was written over another than read (history)

redisKeys == <<ceremony, asked, base>>
authenticator == <<answered, count, device>>
credential == <<enrolled, counter, skewed>>
passkeys == <<redisKeys, authenticator, credential, sessions, shared>>
passkeyVars == <<requests, passkeys>>

Rites == {"registration", "login"}
PasskeyLocations == {"read_credentials", "set_ceremony", "get_ceremony", "del_ceremony",
                     "store_credential", "select_credential", "update_credential",
                     "passkey_session"}

\* With or without a passkey.
PasskeyInit == /\ ceremony = [r \in Rites |-> Nothing]
               /\ asked = [c \in Ceremonies |-> "none"]
               /\ base = [c \in Ceremonies |-> 0]
               /\ answered = {}
               /\ count = [c \in Ceremonies |-> 0]
               /\ device = 0
               /\ enrolled \in BOOLEAN /\ counter = 0 /\ skewed = FALSE
               /\ sessions = [c \in Ceremonies |-> 0]
               /\ shared = {}

\* What a request keeps: the rite, the ceremony its client answers, the one it
\* fetched, and the counter it read.
Rite(h)     == local[h].rite
Answered(h) == local[h].answer
Held(h)     == local[h].held
Read(h)     == local[h].read
Passing(r, c, d, n) == [rite |-> r, answer |-> c, held |-> d, read |-> n]
PasskeyData == [rite : Rites, answer : Ceremonies \cup {Nothing},
                held : Ceremonies \cup {Nothing}, read : Nat]
-----------------------------------------------------------------------------
\* register_start and login_start.
BeginStart(h, r) == /\ Begin(h, "read_credentials", Passing(r, Nothing, Nothing, 0))
                    /\ UNCHANGED passkeys

\* Nobody signs in without a credential.
ReadCredentials(h) ==
    /\ At(h, "read_credentials")
    /\ IF Rite(h) = "login" /\ ~enrolled THEN End(h)
       ELSE Keep(h, "set_ceremony", Passing(Rite(h), Nothing, Nothing, counter))
    /\ UNCHANGED passkeys

\* A second start replaces the ceremony of the first.
SetCeremony(h, c) ==
    /\ At(h, "set_ceremony")
    /\ asked[c] = "none" /\ \A d \in Ceremonies : d < c => asked[d] # "none"
    /\ asked' = [asked EXCEPT ![c] = Rite(h)]
    /\ base' = [base EXCEPT ![c] = Read(h)]
    /\ ceremony' = [ceremony EXCEPT ![Rite(h)] = c]
    /\ End(h)
    /\ UNCHANGED <<authenticator, credential, sessions, shared>>

\* Five minutes pass.
CeremonyExpires(r) ==
    /\ ceremony[r] # Nothing
    /\ ceremony' = [ceremony EXCEPT ![r] = Nothing]
    /\ UNCHANGED <<requests, asked, base, authenticator, credential, sessions, shared>>

\* The authenticator: each assertion has a counter of its own.
Answer(c) ==
    /\ asked[c] # "none" /\ c \notin answered
    /\ answered' = answered \cup {c}
    /\ IF asked[c] = "login"
       THEN device' = device + 1 /\ count' = [count EXCEPT ![c] = device + 1]
       ELSE UNCHANGED <<device, count>>
    /\ UNCHANGED <<requests, redisKeys, credential, sessions, shared>>
-----------------------------------------------------------------------------
\* register_finish and login_finish, with an answer that may come again.
BeginFinish(h, c) ==
    /\ c \in answered
    /\ Begin(h, "get_ceremony", Passing(asked[c], c, Nothing, 0))
    /\ UNCHANGED passkeys

GetCeremony(h) ==
    LET c == ceremony[Rite(h)] IN
    /\ At(h, "get_ceremony")
    /\ IF c = Nothing THEN End(h)
       ELSE Keep(h, "del_ceremony", Passing(Rite(h), Answered(h), c, 0))
    /\ shared' = shared \cup {d \in {c} \ {Nothing} :
                                \E g \in Handlers : At(g, "del_ceremony") /\ Held(g) = d}
    /\ UNCHANGED <<redisKeys, authenticator, credential, sessions>>

\* The answer must be to the ceremony that was fetched, and newer than the
\* counter that one was started with.
Verified(h) == /\ Held(h) = Answered(h)
               /\ Rite(h) = "login" => count[Held(h)] > base[Held(h)]

Verify(h) == IF Verified(h)
             THEN Goto(h, IF Rite(h) = "login" THEN "select_credential" ELSE "store_credential")
             ELSE End(h)

\* Mutant: the ceremony is left to expire.
DelCeremony_Kept(h) == At(h, "del_ceremony") /\ Verify(h) /\ UNCHANGED passkeys

\* DEL, of whatever is there by now; then the answer is verified.
DelCeremony(h) ==
    /\ At(h, "del_ceremony")
    /\ ceremony' = [ceremony EXCEPT ![Rite(h)] = Nothing]
    /\ Verify(h)
    /\ UNCHANGED <<asked, base, authenticator, credential, sessions, shared>>

\* The user's row is upserted before it, with nothing that could be lost.
StoreCredential(h) ==
    /\ At(h, "store_credential")
    /\ enrolled' = TRUE
    /\ Goto(h, "passkey_session")
    /\ UNCHANGED <<redisKeys, authenticator, counter, skewed, sessions, shared>>

\* update_credential says whether the counter it was read with is older.
SelectCredential(h) ==
    /\ At(h, "select_credential")
    /\ Keep(h, IF count[Answered(h)] > counter THEN "update_credential" ELSE "passkey_session",
            Passing(Rite(h), Answered(h), Held(h), counter))
    /\ UNCHANGED passkeys

\* The whole credential is written, whatever the row holds by now.
UpdateCredential(h) ==
    /\ At(h, "update_credential")
    /\ counter' = count[Answered(h)]
    /\ skewed' = (skewed \/ counter # Read(h))
    /\ Goto(h, "passkey_session")
    /\ UNCHANGED <<redisKeys, authenticator, enrolled, sessions, shared>>

PasskeySession(h) ==
    /\ At(h, "passkey_session")
    /\ sessions' = [sessions EXCEPT ![Answered(h)] = IF @ = 0 THEN 1 ELSE 2]
    /\ End(h)
    /\ UNCHANGED <<redisKeys, authenticator, credential, shared>>

DropPasskey(h) == Dropped(h) /\ UNCHANGED passkeys

PasskeyNext ==
    \/ \E h \in Handlers :
         \/ \E r \in Rites : BeginStart(h, r)
         \/ \E c \in Ceremonies : SetCeremony(h, c) \/ BeginFinish(h, c)
         \/ ReadCredentials(h) \/ GetCeremony(h) \/ DelCeremony(h) \/ StoreCredential(h)
         \/ SelectCredential(h) \/ UpdateCredential(h) \/ PasskeySession(h) \/ DropPasskey(h)
    \/ \E r \in Rites : CeremonyExpires(r)
    \/ \E c \in Ceremonies : Answer(c)

PasskeySpec == RequestsInit /\ PasskeyInit /\ [][PasskeyNext]_passkeyVars
-----------------------------------------------------------------------------
(* Type correctness.                                                       *)
PasskeyTypeOK ==
    /\ RequestsTypeOK(PasskeyLocations, PasskeyData)
    /\ ceremony \in [Rites -> Ceremonies \cup {Nothing}]
    /\ asked \in [Ceremonies -> Rites \cup {"none"}]
    /\ base \in [Ceremonies -> Nat] /\ count \in [Ceremonies -> Nat]
    /\ answered \subseteq Ceremonies /\ shared \subseteq Ceremonies
    /\ device \in Nat /\ counter \in Nat
    /\ enrolled \in BOOLEAN /\ skewed \in BOOLEAN
    /\ sessions \in [Ceremonies -> 0..2]

(* "Delete the key so it can't be reused" (passkey.rs:147): a ceremony is  *)
(* fetched and deleted in two commands, and opens one session unless two   *)
(* requests fetched it in between.  And the credential keeps the newest    *)
(* counter a session was opened with, however logins overlap, unless one   *)
(* was written over a counter it had not read.                             *)
CeremonyCounts == \A c \in Ceremonies :
    /\ sessions[c] > 1 => c \in shared
    /\ sessions[c] > 0 => count[c] <= counter \/ skewed
=============================================================================
