------------------------------- MODULE Logins -------------------------------
(***************************************************************************)
(* Signing in (sonotxt-api/src/services/user_auth.rs, magic_link.rs and    *)
(* auth.rs, with their routes): the attempts of one identity, the tokens   *)
(* it is given (challenges to sign, links in a mail), and the sessions it  *)
(* opens with them.  Identities share nothing, so one is enough; its kind  *)
(* says which of the five ways to sign in it uses:                         *)
(*   nickname  verify_and_login          pubkey   verify_pubkey_login      *)
(*   wallet    verify_wallet_login       email    magic_link.rs            *)
(*   account   AuthService (auth.rs)                                       *)
(*                                                                         *)
(* Each step of a handler is one redis command or one SQL statement; there *)
(* is no transaction.  The columns of magic_links are those the statements *)
(* name.                                                                   *)
(***************************************************************************)
EXTENDS Requests, FiniteSets

CONSTANTS Tokens,       \* challenges or links, in the order of their creation
          NoToken,      \* "no token in hand"
          Kinds,        \* the kinds of identity to consider
          Counted,      \* the purposes whose limiter keys are kept: each has
                        \* keys of its own, and a request uses those of one
          MaxAttempts,  \* MAX_AUTH_ATTEMPTS
          MaxLinks,     \* links a mail address is sent in an hour
          MaxChallenges \* bound on the challenges given out

AllKinds == {"nickname", "pubkey", "wallet", "email", "account"}
Purposes == {"register", "challenge", "login"}

ASSUME LoginsAssumption ==
    /\ Tokens \subseteq Nat
    /\ NoToken \notin Tokens
    /\ IsFiniteSet(Handlers)
    /\ IsFiniteSet(Tokens)
    /\ Kinds \subseteq AllKinds
    /\ Counted \subseteq Purposes
    /\ MaxAttempts \in Nat \ {0}
    /\ MaxLinks \in Nat
    /\ MaxChallenges \in Nat
    /\ MaxFaults \in Nat

VARIABLES kind,        \* of the identity; never changes
          attempts,    \* auth_limit:<purpose>, at most MaxAttempts + 1 is told apart
          expiring,    \* purposes whose counter has a time to live
          locked,      \* purposes with an auth_lockout key
          unbounded,   \* purposes that lost the EXPIRE of a counter (history)
          token,       \* the row of a challenge or link
          recent,      \* links stored within the hour
          registered,  \* the row in users, or in accounts
          credits,     \* the row in account_credits
          opened,      \* sessions opened with a token: none, one, or 2 for more
          raced,       \* tokens that two attempts held at once (history)
          wasted,      \* tokens spent by an attempt that failed (history)
          bare         \* an attempt ended between account and credits (history)

limiter == <<attempts, expiring, locked, unbounded>>
links   == <<token, recent>>
rows    == <<registered, credits>>
outcome == <<opened, raced, wasted, bare>>
logins  == <<limiter, links, rows, outcome>>
loginVars == <<requests, kind, logins>>

Limited  == {"nickname", "pubkey", "wallet"}
Redis    == {"lock", "incr", "expire", "lockout", "clear"}
Spending == {"user", "insert_user", "credits", "session"}
LoginLocations == {"check", "count", "store", "mail", "find", "spend"} \cup Redis \cup Spending

LoginInit ==
        /\ kind \in Kinds
        /\ attempts = [p \in Purposes |-> 0]
        /\ expiring = {} /\ locked = {} /\ unbounded = {}
        /\ token = [t \in Tokens |-> "none"]
        /\ recent = {}
        /\ registered = FALSE /\ credits = FALSE
        /\ opened = [t \in Tokens |-> 0]
        /\ raced = {} /\ wasted = {} /\ bare = FALSE
-----------------------------------------------------------------------------
\* A request keeps what it is for and the token it was given.
Request(p, t) == [purpose |-> p, token |-> t]
LoginData == [purpose : Purposes, token : Tokens \cup {NoToken}]
Purpose(h) == local[h].purpose
Token(h)   == local[h].token

\* What a request does once it has passed the limiter, or without one.
Work(p) == CASE p = "register"  -> "check"
             [] p = "challenge" -> IF kind = "email" THEN "count" ELSE "store"
             [] p = "login"     -> IF kind = "pubkey" THEN "user" ELSE "find"

\* Whom a new user row leaves to do: the caller's next statement.
AfterUser(h) == CASE Purpose(h) = "register" -> "clear"
                  [] kind = "pubkey"         -> "find"
                  [] OTHER                   -> "session"

(* The requests of one identity: register, ask for a token, sign in with   *)
(* one.  A token that was given out may be presented again.                *)
Presentable(t) == token[t] \in {"live", "spent", "gone"}

BeginLogin(h, p, t) ==
    /\ p = "register" => kind = "nickname"
    /\ IF p = "login" THEN t \in Tokens /\ Presentable(t) ELSE t = NoToken
    /\ Begin(h, IF kind \in Limited /\ p \in Counted THEN "lock" ELSE Work(p), Request(p, t))
    /\ UNCHANGED <<kind, logins>>
-----------------------------------------------------------------------------
(* check_rate_limit and clear_rate_limit.                                  *)

CheckLockout(h) ==
    /\ At(h, "lock")
    /\ IF Purpose(h) \in locked THEN End(h) ELSE Goto(h, "incr")
    /\ UNCHANGED <<limiter, links, rows, outcome, kind>>

\* INCR: only a counter that it creates has no time to live yet.
Increment(h) ==
    LET p == Purpose(h)
        n == attempts[p] + 1 IN
    /\ At(h, "incr")
    /\ attempts' = [attempts EXCEPT ![p] = IF n > MaxAttempts THEN MaxAttempts + 1 ELSE n]
    /\ Goto(h, IF n = 1 THEN "expire" ELSE IF n > MaxAttempts THEN "lockout" ELSE Work(p))
    /\ UNCHANGED <<expiring, locked, unbounded, links, rows, outcome, kind>>

\* Mutant: the window is set by the attempt that fills it.
SetExpiry_Last(h) ==
    /\ At(h, "expire")
    /\ expiring' = IF attempts[Purpose(h)] = MaxAttempts
                   THEN expiring \cup {Purpose(h)} ELSE expiring
    /\ Goto(h, Work(Purpose(h)))
    /\ UNCHANGED <<attempts, locked, unbounded, links, rows, outcome, kind>>

\* EXPIRE of a key that is gone has no effect.
SetExpiry(h) ==
    /\ At(h, "expire")
    /\ expiring' = IF attempts[Purpose(h)] > 0 THEN expiring \cup {Purpose(h)} ELSE expiring
    /\ Goto(h, Work(Purpose(h)))
    /\ UNCHANGED <<attempts, locked, unbounded, links, rows, outcome, kind>>

SetLockout(h) ==
    /\ At(h, "lockout")
    /\ locked' = locked \cup {Purpose(h)}
    /\ End(h)
    /\ UNCHANGED <<attempts, expiring, unbounded, links, rows, outcome, kind>>

Clear(h) ==
    /\ At(h, "clear")
    /\ attempts' = [attempts EXCEPT ![Purpose(h)] = 0]
    /\ expiring' = expiring \ {Purpose(h)}
    /\ End(h)
    /\ UNCHANGED <<locked, unbounded, links, rows, outcome, kind>>

\* The error of a redis command is swallowed: not locked, the first attempt.
RedisFails(h) ==
    /\ pc[h] \in Redis
    /\ Fault
    /\ unbounded' = unbounded \cup {p \in {Purpose(h)} : At(h, "expire")}
    /\ \/ At(h, "lock") /\ Moved(h, "incr", local[h])
       \/ At(h, "incr") /\ Moved(h, "expire", local[h])
       \/ At(h, "expire") /\ Moved(h, Work(Purpose(h)), local[h])
       \/ pc[h] \in {"lockout", "clear"} /\ Leave(h)
    /\ UNCHANGED <<attempts, expiring, locked, links, rows, outcome, kind>>

\* RATE_LIMIT_WINDOW after the EXPIRE.
WindowEnds(p) ==
    /\ p \in expiring
    /\ attempts' = [attempts EXCEPT ![p] = 0]
    /\ expiring' = expiring \ {p}
    /\ UNCHANGED <<kind, locked, unbounded, links, rows, outcome, requests>>

\* LOCKOUT_DURATION is three windows: a counter that expires is gone by then.
LockoutEnds(p) ==
    /\ p \in locked
    /\ p \notin expiring
    /\ locked' = locked \ {p}
    /\ UNCHANGED <<kind, attempts, expiring, unbounded, links, rows, outcome, requests>>
-----------------------------------------------------------------------------
(* Registration: register_with_pubkey asks for a row and inserts it.       *)

CheckFree(h) ==
    /\ At(h, "check")
    /\ IF registered THEN End(h) ELSE Goto(h, "insert_user")
    /\ UNCHANGED <<limiter, links, rows, outcome, kind>>

(* Tokens: get_login_challenge, get_pubkey_challenge, get_wallet_challenge, *)
(* request_magic_link and send_magic_link.                                 *)

\* recent_count < 3
RoomForLink == Cardinality(recent) < MaxLinks

CountLinks(h) ==
    /\ At(h, "count")
    /\ IF RoomForLink THEN Goto(h, "store") ELSE End(h)
    /\ UNCHANGED <<limiter, links, rows, outcome, kind>>

\* The challenge of someone unknown is given out and not stored.
StoreChallenge(h, t) ==
    /\ At(h, "store")
    /\ kind \in Limited
    /\ token[t] = "none" /\ \A u \in Tokens : u < t => token[u] # "none"
    /\ Cardinality({u \in Tokens : token[u] # "none"}) < MaxChallenges
    /\ token' = [token EXCEPT ![t] = IF kind = "wallet" \/ registered THEN "live" ELSE "gone"]
    /\ End(h)
    /\ UNCHANGED <<limiter, recent, rows, outcome, kind>>

StoreLink(h, t) ==
    /\ At(h, "store")
    /\ kind \notin Limited
    /\ token[t] = "none" /\ \A u \in Tokens : u < t => token[u] # "none"
    /\ token' = [token EXCEPT ![t] = "stored"]
    /\ recent' = recent \cup {t}
    /\ Keep(h, "mail", Request(Purpose(h), t))
    /\ UNCHANGED <<limiter, rows, outcome, kind>>

\* send_jmap_email.  A link that was not sent stays stored, and counts; the
\* submission is answered with Ok whatever became of the mail.
Mail(h) ==
    /\ At(h, "mail")
    /\ \/ token' = [token EXCEPT ![Token(h)] = "live"]
       \/ UNCHANGED token
    /\ End(h)
    /\ UNCHANGED <<limiter, recent, rows, outcome, kind>>

Expires(t) ==
    /\ token[t] = "live"
    /\ token' = [token EXCEPT ![t] = "gone"]
    /\ UNCHANGED <<kind, limiter, recent, rows, outcome, requests>>

HourPasses(t) ==
    /\ t \in recent
    /\ recent' = recent \ {t}
    /\ UNCHANGED <<kind, limiter, token, rows, outcome, requests>>
-----------------------------------------------------------------------------
(* Signing in.  The SELECT finds a live token, or the attempt is rejected; *)
(* only verify_pubkey_login goes on without one.  A wrong signature is     *)
(* rejected before the token is spent, and by verify_pubkey_login before   *)
(* anything is looked up.                                                  *)

\* Mutant: the link is looked up without asking for used = FALSE.
Found_EvenSpent(t) == token[t] \in {"live", "spent"}

Found(t) == token[t] = "live"

Find(h) ==
    LET t == Token(h) IN
    /\ At(h, "find")
    /\ IF Found(t) THEN Goto(h, "spend")
       ELSE IF kind = "pubkey" THEN Goto(h, "session") ELSE End(h)
    /\ raced' = raced \cup {u \in {t} : \E g \in Handlers : At(g, "spend") /\ Token(g) = u}
    /\ UNCHANGED <<limiter, links, rows, opened, wasted, bare, kind>>

\* verify_signature: ed25519, over the challenge as it was presented.
RejectSignature(h) ==
    /\ \/ kind = "pubkey" /\ At(h, "user")
       \/ kind = "nickname" /\ At(h, "find") /\ Found(Token(h))
    /\ End(h)
    /\ UNCHANGED <<limiter, links, rows, outcome, kind>>

\* decode_ss58 and verify_sr25519, over the challenge as a wallet wraps it.
RejectWallet(h) ==
    /\ kind = "wallet" /\ At(h, "find") /\ Found(Token(h))
    /\ End(h)
    /\ UNCHANGED <<limiter, links, rows, outcome, kind>>

\* DELETE, or UPDATE ... SET used = TRUE, of whatever state the row has.
Spend(h) ==
    /\ At(h, "spend")
    /\ token' = [token EXCEPT ![Token(h)] = "spent"]
    /\ Goto(h, IF kind \in {"nickname", "pubkey"} THEN "session" ELSE "user")
    /\ UNCHANGED <<limiter, recent, rows, outcome, kind>>

\* Get or create; the mail address is upserted in one statement.
FindUser(h) ==
    /\ At(h, "user")
    /\ registered' = (registered \/ kind = "email")
    /\ Goto(h, IF registered' THEN AfterUser(h) ELSE "insert_user")
    /\ UNCHANGED <<limiter, links, credits, outcome, kind>>

InsertUser(h) ==
    /\ At(h, "insert_user")
    /\ ~registered
    /\ registered' = TRUE
    /\ Goto(h, IF kind = "account" THEN "credits" ELSE AfterUser(h))
    /\ UNCHANGED <<limiter, links, credits, outcome, kind>>

\* The token of an attempt that fails when it is spent.
Wasting(h) == {t \in Tokens : pc[h] \in Spending /\ Token(h) = t /\ token[t] = "spent"}

\* UNIQUE: another request has inserted the row.
InsertConflict(h) ==
    /\ At(h, "insert_user")
    /\ registered
    /\ End(h)
    /\ wasted' = wasted \cup Wasting(h)
    /\ UNCHANGED <<limiter, links, rows, opened, raced, bare, kind>>

InsertCredits(h) ==
    /\ At(h, "credits")
    /\ credits' = TRUE
    /\ Goto(h, "session")
    /\ UNCHANGED <<limiter, links, registered, outcome, kind>>

\* INSERT INTO sessions; then last_login, and clear_rate_limit.
OpenSession(h) ==
    /\ At(h, "session")
    /\ opened' = [opened EXCEPT ![Token(h)] = IF @ = 0 THEN 1 ELSE 2]
    /\ IF kind \in Limited THEN Goto(h, "clear") ELSE End(h)
    /\ UNCHANGED <<limiter, links, rows, raced, wasted, bare, kind>>

\* A failed statement, the request timeout or a crash.
DropLogin(h) ==
    /\ Dropped(h)
    /\ unbounded' = unbounded \cup {p \in {Purpose(h)} : At(h, "expire")}
    /\ wasted' = wasted \cup Wasting(h)
    /\ bare' = (bare \/ At(h, "credits"))
    /\ UNCHANGED <<attempts, expiring, locked, links, rows, opened, raced, kind>>
-----------------------------------------------------------------------------
LoginStep(h) ==
    \/ CheckLockout(h) \/ Increment(h) \/ SetExpiry(h) \/ SetLockout(h) \/ Clear(h)
    \/ CheckFree(h) \/ CountLinks(h)
    \/ \E t \in Tokens : StoreChallenge(h, t) \/ StoreLink(h, t)
    \/ Mail(h) \/ Find(h) \/ RejectSignature(h) \/ RejectWallet(h) \/ Spend(h)
    \/ FindUser(h) \/ InsertUser(h) \/ InsertConflict(h) \/ InsertCredits(h)
    \/ OpenSession(h)

LoginNext ==
    \/ \E h \in Handlers :
           \/ \E p \in Purposes, t \in Tokens \cup {NoToken} : BeginLogin(h, p, t)
           \/ LoginStep(h) \/ RedisFails(h) \/ DropLogin(h)
    \/ \E p \in Purposes : WindowEnds(p) \/ LockoutEnds(p)
    \/ \E t \in Tokens : Expires(t) \/ HourPasses(t)

\* A request that was not dropped is polled, and keys expire.
LoginFairness == /\ \A h \in Handlers : WF_loginVars(LoginStep(h))
                 /\ \A p \in Counted : WF_loginVars(WindowEnds(p)) /\ WF_loginVars(LockoutEnds(p))

LoginSpec == RequestsInit /\ LoginInit /\ [][LoginNext]_loginVars /\ LoginFairness
-----------------------------------------------------------------------------
(* Type correctness.                                                       *)
LoginTablesOK ==
    /\ attempts \in [Purposes -> 0..MaxAttempts + 1]
    /\ expiring \subseteq Purposes /\ locked \subseteq Purposes /\ unbounded \subseteq Purposes
    /\ token \in [Tokens -> {"none", "stored", "live", "spent", "gone"}]
    /\ recent \subseteq Tokens
    /\ registered \in BOOLEAN /\ credits \in BOOLEAN
    /\ opened \in [Tokens -> 0..2]
    /\ raced \subseteq Tokens /\ wasted \subseteq Tokens /\ bare \in BOOLEAN

LoginTypeOK == RequestsTypeOK(LoginLocations, LoginData) /\ kind \in Kinds /\ LoginTablesOK

(* migrations/002: links are "short-lived, single use", and a challenge is *)
(* deleted when it is used.  Look-up and use are two statements: a token   *)
(* opens one session, unless two attempts held it at once.  A challenge of *)
(* verify_pubkey_login is not asked for and not limited to one.            *)
TokenOpensOnce == kind # "pubkey" =>
    \A t \in Tokens \ raced : opened[t] <= 1

(* A token that was spent has opened a session, or an attempt is about to, *)
(* or the attempt was dropped or lost the race for a new user row: no      *)
(* rejected attempt, and no signature that does not match, spends one.     *)
SpentForALogin == \A t \in Tokens :
    token[t] = "spent" => \/ opened[t] > 0 \/ t \in wasted
                          \/ \E h \in Handlers : pc[h] \in Spending /\ Token(h) = t

(* A new account gets its account_credits row in a later statement; later  *)
(* sign-ins find the account and do not look for the row, and a deposit    *)
(* for it updates no row.  It is missing only while the first sign-in is   *)
(* between the two, or because that sign-in ended there.                   *)
AccountHasCredits == kind = "account" /\ registered =>
    credits \/ bare \/ \E h \in Handlers : At(h, "credits")

(* A sign-in is whole: its token, its session and its account go together. *)
SignInWhole == TokenOpensOnce /\ SpentForALogin /\ AccountHasCredits

(* Links are counted in one statement and stored in a later one: requests  *)
(* at the same time exceed the limit by one link each, and no more.        *)
LinksWithinLimit == kind = "email" =>
    Cardinality(recent) <= MaxLinks + Cardinality(Handlers) - 1

(* However attempts, resets and expiries interleave, a counter without a   *)
(* time to live is one whose first attempt is about to set it, or whose    *)
(* EXPIRE was lost.                                                        *)
CounterExpires == \A p \in Purposes :
    attempts[p] > 0 /\ p \notin expiring =>
        p \in unbounded \/ \E h \in Handlers : At(h, "expire") /\ Purpose(h) = p

(* Whoever is locked out or has used up his attempts is admitted again at  *)
(* some time, unless the EXPIRE of a counter was lost: such a counter is   *)
(* reset by a successful attempt only, and there is none any more.         *)
Readmitted == \A p \in Counted :
    (p \in locked \/ attempts[p] >= MaxAttempts)
        ~> (p \notin locked /\ attempts[p] < MaxAttempts) \/ p \in unbounded
=============================================================================
