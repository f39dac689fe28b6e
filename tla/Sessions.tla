------------------------------ MODULE Sessions ------------------------------
(***************************************************************************)
(* What becomes of the token of a login after it: the table it is in, the  *)
(* extractors and endpoints that look it up, and the logout.  There are    *)
(* two kinds of sessions (services/user_auth.rs keeps the hash of a token, *)
(* services/auth.rs the token itself), and the extractors of               *)
(* sonotxt-api/src/auth/ take session tokens and API keys from the same    *)
(* header and remember both under apikey:<token> in redis.                 *)
(***************************************************************************)
EXTENDS Requests

CONSTANTS KeyTokens, UserTokens, LegacyTokens

ASSUME SessionsAssumption == /\ KeyTokens \cap UserTokens = {} /\ KeyTokens \cap LegacyTokens = {}
                             /\ UserTokens \cap LegacyTokens = {}

VARIABLES rowOf,         \* of a token: "none", "live", "expired" or "deleted"
          remembered,    \* tokens with an entry apikey:<token>
          loggedOut,     \* tokens whose logout was answered
          admittedLate,  \* tokens accepted from a request that came after that (history)
          strangers      \* tokens taken for free tier while their row was live (history)

sessionRows == <<rowOf, remembered, loggedOut, admittedLate, strangers>>
history == <<admittedLate, strangers>>

Bearers == KeyTokens \cup UserTokens \cup LegacyTokens
SessionLocations == {"delete", "validate", "get_cache", "select_key", "select_session", "setex"}
Extractors == {"AuthenticatedUser", "TtsUser"}

SessionsInit == /\ rowOf = [t \in Bearers |-> "none"]
                /\ remembered = {} /\ loggedOut = {}
                /\ admittedLate = {} /\ strangers = {}

\* Sha256 of a prefix and a token.
Digest(prefix, t) == <<prefix, t>>

\* hash_token, as every login that writes to sessions uses it; auth_sessions
\* and api_keys have the token itself.
StoredAs(t) == IF t \in UserTokens THEN Digest("", t) ELSE t

\* The live row of sessions under a hash.
SessionUnder(d) == {t \in UserTokens : StoredAs(t) = d /\ rowOf[t] = "live"}

\* Mutant: one hash for all.
TtsHash_Shared(t) == Digest("", t)

\* The hash that TtsUser looks up.
TtsHash(t) == Digest("sonotxt-session-v1", t)

\* What a request keeps: its token, who reads it, and whether its logout had
\* been answered before it came.
Bearing(t, extractor) == [token |-> t, by |-> extractor, late |-> t \in loggedOut]

TokenOf(h) == local[h].token
-----------------------------------------------------------------------------
\* A login or the creation of a key inserts the row.
InsertToken(t) == /\ rowOf[t] = "none"
                  /\ rowOf' = [rowOf EXCEPT ![t] = "live"]
                  /\ UNCHANGED <<requests, remembered, loggedOut, history>>

\* Thirty days pass.
SessionExpires(t) ==
    /\ t \notin KeyTokens /\ rowOf[t] = "live"
    /\ rowOf' = [rowOf EXCEPT ![t] = "expired"]
    /\ UNCHANGED <<requests, remembered, loggedOut, history>>

\* Five minutes pass.
Forget(t) == /\ t \in remembered
             /\ remembered' = remembered \ {t}
             /\ UNCHANGED <<requests, rowOf, loggedOut, history>>

BeginLogout(h, t) == /\ t \notin KeyTokens /\ rowOf[t] # "none"
                     /\ Begin(h, "delete", Bearing(t, "logout"))
                     /\ UNCHANGED sessionRows

DeleteSession(h) == /\ At(h, "delete")
                    /\ rowOf' = [rowOf EXCEPT ![TokenOf(h)] = "deleted"]
                    /\ loggedOut' = loggedOut \cup {TokenOf(h)}
                    /\ End(h)
                    /\ UNCHANGED <<remembered, history>>

Admitted(h) == admittedLate' = admittedLate \cup {t \in {TokenOf(h)} : local[h].late}

\* get_session and me
BeginValidate(h, t) == /\ t \notin KeyTokens /\ rowOf[t] # "none"
                       /\ Begin(h, "validate", Bearing(t, "validate"))
                       /\ UNCHANGED sessionRows

Validate(h) == /\ At(h, "validate")
               /\ IF rowOf[TokenOf(h)] = "live" THEN Admitted(h) ELSE UNCHANGED admittedLate
               /\ End(h)
               /\ UNCHANGED <<rowOf, remembered, loggedOut, strangers>>
-----------------------------------------------------------------------------
(* The extractors                                                          *)

BeginExtract(h, t, extractor) == /\ rowOf[t] # "none"
                                 /\ Begin(h, "get_cache", Bearing(t, extractor))
                                 /\ UNCHANGED sessionRows

GetCache(h) == /\ At(h, "get_cache")
               /\ IF TokenOf(h) \in remembered
                  THEN Admitted(h) /\ End(h)
                  ELSE Goto(h, "select_key") /\ UNCHANGED admittedLate
               /\ UNCHANGED <<rowOf, remembered, loggedOut, strangers>>

\* AuthenticatedUser knows keys only.
SelectKeyRow(h) ==
    /\ At(h, "select_key")
    /\ IF TokenOf(h) \in KeyTokens THEN Goto(h, "setex")
       ELSE IF local[h].by = "TtsUser" THEN Goto(h, "select_session") ELSE End(h)
    /\ UNCHANGED sessionRows

\* Without a row the request is one of the free tier.
SelectSession(h) ==
    /\ At(h, "select_session")
    /\ IF SessionUnder(TtsHash(TokenOf(h))) # {}
       THEN Goto(h, "setex") /\ UNCHANGED strangers
       ELSE /\ strangers' = strangers \cup {t \in {TokenOf(h)} : rowOf[t] = "live"}
            /\ End(h)
    /\ UNCHANGED <<rowOf, remembered, loggedOut, admittedLate>>

\* The error of SETEX is ignored.
Remember(h) == /\ At(h, "setex")
               /\ remembered' \in {remembered, remembered \cup {TokenOf(h)}}
               /\ Admitted(h)
               /\ End(h)
               /\ UNCHANGED <<rowOf, loggedOut, strangers>>

\* A dropped logout may have deleted the row; its answer is not seen.
DropSession(h) == /\ Dropped(h)
                  /\ rowOf' \in {rowOf} \cup
                         {[rowOf EXCEPT ![t] = "deleted"] :
                              t \in {u \in Bearers : At(h, "delete") /\ u = TokenOf(h)}}
                  /\ UNCHANGED <<remembered, loggedOut, history>>

SessionsNext ==
    \/ \E t \in Bearers : InsertToken(t) \/ SessionExpires(t) \/ Forget(t)
    \/ \E h \in Handlers :
           \/ \E t \in Bearers : \/ BeginLogout(h, t) \/ BeginValidate(h, t)
                                 \/ \E x \in Extractors : BeginExtract(h, t, x)
           \/ DeleteSession(h) \/ Validate(h) \/ GetCache(h) \/ SelectKeyRow(h)
           \/ SelectSession(h) \/ Remember(h) \/ DropSession(h)

SessionsSpec == RequestsInit /\ SessionsInit /\ [][SessionsNext]_<<requests, sessionRows>>
-----------------------------------------------------------------------------
(* Type correctness.                                                       *)
SessionsTypeOK ==
    /\ RequestsTypeOK(SessionLocations,
                      [token : Bearers, by : Extractors \cup {"logout", "validate"}, late : BOOLEAN])
    /\ rowOf \in [Bearers -> {"none", "live", "expired", "deleted"}]
    /\ remembered \subseteq Bearers /\ loggedOut \subseteq Bearers \ KeyTokens
    /\ admittedLate \subseteq Bearers /\ strangers \subseteq Bearers

(* A request that comes after the logout of its token was answered is not  *)
(* accepted, by any endpoint or extractor: the row is gone, and no copy of *)
(* a session outlives it in the cache.                                     *)
LoggedOutIsRefused == admittedLate = {}

(* TtsUser looks a session up (sonotxt-api/src/auth/free_tier.rs: "check   *)
(* user sessions table (wallet/magic-link/pubkey auth)"): a token whose    *)
(* session is live is not taken for free tier.                             *)
SessionIsRecognised == strangers \cap UserTokens = {}
=============================================================================
