-------------------------- MODULE EndpointsProofs --------------------------
(***************************************************************************)
(* Theorems about the modules of the endpoints, for any number of requests *)
(* and values of the constants.  Each part has its type correctness and an *)
(* inductive invariant of its own; the two facts of the first section are  *)
(* about the request machinery they share.                                 *)
(***************************************************************************)
EXTENDS Logins, RequestAuth, Vault, Contents, Contacts, Embeds, Calls, PriceOracle,
        Passkeys, JobWatch, ZcashScanner, Handshake, ObjectStore, PaymentSecrets,
        Sessions, SplitCharge, Conversation, SumProofs, FiniteSetTheorems, SequenceTheorems,
        TLAPS

-----------------------------------------------------------------------------
(* Requests.                                                               *)

\* A request that moves to a known location with data of the module keeps
\* the part of the type that all modules share.
LEMMA MovedType ==
    ASSUME NEW locs, NEW data, RequestsTypeOK(locs, data),
           NEW h \in Handlers, NEW loc \in locs, NEW d \in data,
           Moved(h, loc, d), faults' \in 0..MaxFaults
    PROVE  RequestsTypeOK(locs, data)'
  <1>1. /\ pc' \in [Handlers -> locs \cup {"idle"}]
        /\ local' \in [Handlers -> data \cup {Nothing}]
    BY DEF Moved, RequestsTypeOK
  <1>2. ASSUME NEW g \in Handlers PROVE pc'[g] = "idle" \/ local'[g] \in data
    BY <1>2 DEF Moved, RequestsTypeOK, At
  <1> QED BY <1>1, <1>2 DEF RequestsTypeOK, At

\* So does a request that ends.
LEMMA LeaveType ==
    ASSUME NEW locs, NEW data, RequestsTypeOK(locs, data),
           NEW h \in Handlers, Leave(h), faults' \in 0..MaxFaults
    PROVE  RequestsTypeOK(locs, data)'
  <1>1. /\ pc' \in [Handlers -> locs \cup {"idle"}]
        /\ local' \in [Handlers -> data \cup {Nothing}]
    BY DEF Leave, Moved, RequestsTypeOK
  <1>2. ASSUME NEW g \in Handlers PROVE pc'[g] = "idle" \/ local'[g] \in data
    BY <1>2 DEF Leave, Moved, RequestsTypeOK, At
  <1> QED BY <1>1, <1>2 DEF RequestsTypeOK, At

\* A fault is counted within its bound.
LEMMA FaultType ==
    ASSUME NEW locs, NEW data, RequestsTypeOK(locs, data), Fault
    PROVE  faults' \in 0..MaxFaults
  BY RequestsAssumption DEF Fault, RequestsTypeOK

LEMMA RequestsStart ==
    ASSUME NEW locs, NEW data, RequestsInit
    PROVE  RequestsTypeOK(locs, data)
  BY RequestsAssumption DEF RequestsInit, RequestsTypeOK, At

LEMMA RequestsStay ==
    ASSUME NEW locs, NEW data, RequestsTypeOK(locs, data), UNCHANGED requests
    PROVE  RequestsTypeOK(locs, data)'
  BY DEF requests, RequestsTypeOK, At

-----------------------------------------------------------------------------
(* Logins.                                                                 *)

\* What a request keeps fits its location: who signs in has a token, and only
\* registrations and sign-ins insert a user.
LoginShape ==
    /\ LoginTypeOK
    /\ \A h \in Handlers :
         /\ ~At(h, "idle") /\ Purpose(h) = "login" => Token(h) \in Tokens
         /\ ~At(h, "idle") /\ Purpose(h) = "register" => kind = "nickname" /\ Token(h) = NoToken
         /\ pc[h] \in {"find", "spend", "user", "credits", "session"} => Purpose(h) = "login"
         /\ At(h, "check") => Purpose(h) = "register"
         /\ At(h, "insert_user") => Purpose(h) \in {"register", "login"}
         /\ pc[h] \in {"count", "store", "mail"} => Purpose(h) = "challenge"
         /\ At(h, "mail") => Token(h) \in Tokens

LEMMA LoginWork ==
    ASSUME NEW p \in Purposes
    PROVE  /\ Work(p) \in {"check", "count", "store", "user", "find"}
           /\ Work(p) \in {"user", "find"} <=> p = "login"
           /\ Work(p) \in {"count", "store"} <=> p = "challenge"
           /\ Work(p) = "check" <=> p = "register"
  BY DEF Work, Purposes

LEMMA LoginShapeInit == RequestsInit /\ LoginInit => LoginShape
  <1> SUFFICES ASSUME RequestsInit, LoginInit PROVE LoginShape
    OBVIOUS
  <1>1. RequestsTypeOK(LoginLocations, LoginData)
    BY RequestsStart
  <1>2. attempts \in [Purposes -> 0..MaxAttempts + 1]
    BY LoginsAssumption DEF LoginInit
  <1>3. LoginTypeOK
    <2>1. token \in [Tokens -> {"none", "stored", "live", "spent", "gone"}] /\ opened \in [Tokens -> 0..2]
      BY DEF LoginInit
    <2>2. kind \in Kinds /\ registered \in BOOLEAN /\ credits \in BOOLEAN /\ bare \in BOOLEAN
      BY DEF LoginInit
    <2>3. /\ expiring \subseteq Purposes /\ locked \subseteq Purposes /\ unbounded \subseteq Purposes
          /\ recent \subseteq Tokens /\ raced \subseteq Tokens /\ wasted \subseteq Tokens
      BY DEF LoginInit
    <2> QED BY <1>1, <1>2, <2>1, <2>2, <2>3 DEF LoginTypeOK, LoginTablesOK
  <1> QED BY <1>3 DEF LoginShape, RequestsInit, At

\* A step of request h to loc keeps the shape, if what it keeps fits there.
LEMMA LoginMoves ==
    ASSUME LoginShape, NEW h \in Handlers, NEW loc \in LoginLocations,
           NEW p \in Purposes, NEW t \in Tokens \cup {NoToken},
           Moved(h, loc, Request(p, t)), faults' \in 0..MaxFaults,
           p = "login" => t \in Tokens, p = "register" => kind = "nickname" /\ t = NoToken,
           loc \in {"find", "spend", "user", "credits", "session"} => p = "login",
           loc = "check" => p = "register",
           loc = "insert_user" => p \in {"register", "login"},
           loc \in {"count", "store", "mail"} => p = "challenge",
           loc = "mail" => t \in Tokens,
           LoginTablesOK', kind' = kind
    PROVE  LoginShape'
  <1>1. RequestsTypeOK(LoginLocations, LoginData)'
    <2>1. Request(p, t) \in LoginData
      BY DEF Request, LoginData
    <2>2. RequestsTypeOK(LoginLocations, LoginData)
      BY DEF LoginShape, LoginTypeOK
    <2> QED BY <2>1, <2>2, MovedType
  <1>2. LoginTypeOK'
    BY <1>1 DEF LoginShape, LoginTypeOK
  <1>3. pc' = [pc EXCEPT ![h] = loc] /\ local' = [local EXCEPT ![h] = Request(p, t)]
    BY DEF Moved
  <1>4. pc \in [Handlers -> LoginLocations \cup {"idle"}] /\ local \in [Handlers -> LoginData \cup {Nothing}]
    BY DEF LoginShape, LoginTypeOK, RequestsTypeOK
  <1>5. ASSUME NEW g \in Handlers, g # h PROVE pc'[g] = pc[g] /\ local'[g] = local[g]
    BY <1>3, <1>4, <1>5
  <1>6. pc'[h] = loc /\ local'[h] = Request(p, t)
    BY <1>3, <1>4
  <1> QED BY <1>2, <1>5, <1>6 DEF LoginShape, At, Purpose, Token, Request

\* So does a request that ends.
LEMMA LoginLeaves ==
    ASSUME LoginShape, NEW h \in Handlers, Leave(h), faults' \in 0..MaxFaults,
           LoginTablesOK', kind' = kind
    PROVE  LoginShape'
  <1>1. RequestsTypeOK(LoginLocations, LoginData)'
    BY LeaveType DEF LoginShape, LoginTypeOK
  <1>2. LoginTypeOK'
    BY <1>1 DEF LoginShape, LoginTypeOK
  <1>4. pc \in [Handlers -> LoginLocations \cup {"idle"}] /\ local \in [Handlers -> LoginData \cup {Nothing}]
    BY DEF LoginShape, LoginTypeOK, RequestsTypeOK
  <1>5. ASSUME NEW g \in Handlers, g # h PROVE pc'[g] = pc[g] /\ local'[g] = local[g]
    BY <1>4, <1>5 DEF Leave, Moved
  <1>6. pc'[h] = "idle"
    BY <1>4 DEF Leave, Moved
  <1> QED BY <1>2, <1>5, <1>6 DEF LoginShape, At, Purpose, Token

\* A request under way keeps a purpose and perhaps a token.
LEMMA LoginKeeps ==
    ASSUME LoginShape, NEW h \in Handlers, ~At(h, "idle")
    PROVE  /\ Purpose(h) \in Purposes /\ Token(h) \in Tokens \cup {NoToken}
           /\ local[h] = Request(Purpose(h), Token(h))
           /\ Purpose(h) = "login" => Token(h) \in Tokens
           /\ Purpose(h) = "register" => kind = "nickname" /\ Token(h) = NoToken
  <1>1. local[h] \in LoginData
    BY DEF LoginShape, LoginTypeOK, RequestsTypeOK
  <1> QED BY <1>1 DEF LoginData, Purpose, Token, Request, LoginShape

\* LoginMoves for a request that keeps what it has.
LEMMA LoginGoes ==
    ASSUME LoginShape, NEW h \in Handlers, ~At(h, "idle"), NEW loc \in LoginLocations,
           Moved(h, loc, local[h]), faults' \in 0..MaxFaults, LoginTablesOK', kind' = kind,
           loc \in {"find", "spend", "user", "credits", "session"} => Purpose(h) = "login",
           loc = "check" => Purpose(h) = "register",
           loc = "insert_user" => Purpose(h) \in {"register", "login"},
           loc \in {"count", "store"} => Purpose(h) = "challenge",
           loc # "mail"
    PROVE  LoginShape'
  BY LoginKeeps, LoginMoves

LEMMA LoginFaults == ASSUME LoginShape PROVE faults \in 0..MaxFaults
  BY DEF LoginShape, LoginTypeOK, RequestsTypeOK

\* The tables keep their types.
LEMMA LoginTablesStep ==
    ASSUME LoginShape, LoginNext PROVE LoginTablesOK'
  <1> USE DEF limiter, links, rows, outcome, logins
  <1>1. LoginTablesOK
    BY DEF LoginShape, LoginTypeOK
  <1>n. MaxAttempts \in Nat /\ MaxAttempts # 0
    BY LoginsAssumption
  <1>2. ASSUME NEW h \in Handlers, NEW p \in Purposes, NEW t \in Tokens \cup {NoToken}, BeginLogin(h, p, t)
        PROVE  LoginTablesOK'
    BY <1>1, <1>2 DEF BeginLogin, LoginTablesOK
  <1>3. ASSUME NEW h \in Handlers, LoginStep(h) PROVE LoginTablesOK'
    <2>k. ~At(h, "idle") => Purpose(h) \in Purposes /\ Token(h) \in Tokens \cup {NoToken}
      BY LoginKeeps
    <2>1. CASE CheckLockout(h) \/ CheckFree(h) \/ CountLinks(h)
      BY <1>1, <2>1 DEF CheckLockout, CheckFree, CountLinks, LoginTablesOK
    <2>2. CASE Increment(h)
      BY <1>1, <1>n, <2>2, <2>k DEF Increment, At, LoginTablesOK
    <2>3. CASE SetExpiry(h)
      BY <1>1, <2>3, <2>k DEF SetExpiry, At, LoginTablesOK
    <2>4. CASE SetLockout(h)
      BY <1>1, <2>4, <2>k DEF SetLockout, At, LoginTablesOK
    <2>5. CASE Clear(h)
      BY <1>1, <1>n, <2>5, <2>k DEF Clear, At, LoginTablesOK
    <2>6. CASE \E t \in Tokens : StoreChallenge(h, t) \/ StoreLink(h, t)
      BY <1>1, <2>6 DEF StoreChallenge, StoreLink, LoginTablesOK
    <2>7. CASE Mail(h) \/ Spend(h)
      BY <1>1, <2>7 DEF Mail, Spend, LoginTablesOK
    <2>8. CASE Find(h)
      <3>1. Token(h) \in Tokens
        BY <2>8 DEF Find, At, LoginShape
      <3>2. raced' \subseteq raced \cup {Token(h)}
        BY <2>8 DEF Find
      <3> QED BY <1>1, <2>8, <3>1, <3>2 DEF Find, LoginTablesOK
    <2>9. CASE RejectSignature(h) \/ RejectWallet(h) \/ FindUser(h) \/ InsertUser(h) \/ InsertCredits(h)
      BY <1>1, <2>9 DEF RejectSignature, RejectWallet, FindUser, InsertUser, InsertCredits, LoginTablesOK
    <2>10. CASE InsertConflict(h)
      BY <1>1, <2>10 DEF InsertConflict, Wasting, LoginTablesOK
    <2>11. CASE OpenSession(h)
      <3>1. opened' \in [Tokens -> 0..2]
        <4>1. PICK n \in {1, 2} : opened' = [opened EXCEPT ![Token(h)] = n]
          BY <2>11 DEF OpenSession
        <4>2. opened \in [Tokens -> 0..2] /\ n \in 0..2
          BY <1>1 DEF LoginTablesOK
        <4> QED BY <4>1, <4>2
      <3> QED BY <1>1, <2>11, <3>1 DEF OpenSession, LoginTablesOK
    <2> QED BY <1>3, <2>1, <2>2, <2>3, <2>4, <2>5, <2>6, <2>7, <2>8, <2>9, <2>10, <2>11 DEF LoginStep
  <1>4. ASSUME NEW h \in Handlers, RedisFails(h) PROVE LoginTablesOK'
    <2>1. Purpose(h) \in Purposes
      BY <1>4, LoginKeeps DEF RedisFails, At, Redis
    <2> QED BY <1>1, <1>4, <2>1 DEF RedisFails, LoginTablesOK
  <1>5. ASSUME NEW h \in Handlers, DropLogin(h) PROVE LoginTablesOK'
    <2>1. Purpose(h) \in Purposes
      BY <1>5, LoginKeeps DEF DropLogin, Dropped
    <2> QED BY <1>1, <1>5, <2>1 DEF DropLogin, Wasting, LoginTablesOK
  <1>6. ASSUME NEW p \in Purposes, WindowEnds(p) \/ LockoutEnds(p) PROVE LoginTablesOK'
    BY <1>1, <1>n, <1>6 DEF WindowEnds, LockoutEnds, LoginTablesOK
  <1>7. ASSUME NEW t \in Tokens, Expires(t) \/ HourPasses(t) PROVE LoginTablesOK'
    BY <1>1, <1>7 DEF Expires, HourPasses, LoginTablesOK
  <1> QED BY <1>2, <1>3, <1>4, <1>5, <1>6, <1>7 DEF LoginNext

\* The requests keep their shape.
LEMMA LoginShapeStep ==
    ASSUME LoginShape, [LoginNext]_loginVars PROVE LoginShape'
  <1> USE DEF Redis, LoginLocations, Spending
  <1>f. faults \in 0..MaxFaults
    BY LoginFaults
  <1>0. CASE UNCHANGED loginVars
    BY <1>0 DEF loginVars, logins, limiter, links, rows, outcome, requests, LoginShape, LoginTypeOK,
                LoginTablesOK, RequestsTypeOK, At, Purpose, Token
  <1>1. CASE LoginNext
    <2>t. LoginTablesOK'
      BY <1>1, LoginTablesStep
    <2>1. ASSUME NEW h \in Handlers, NEW p \in Purposes, NEW t \in Tokens \cup {NoToken}, BeginLogin(h, p, t)
          PROVE  LoginShape'
      <3>1. kind' = kind /\ faults' = faults /\ (p = "login" => t \in Tokens) /\ (p = "register" => kind = "nickname" /\ t = NoToken)
        BY <2>1 DEF BeginLogin, Begin
      <3>2. PICK loc \in {"lock", Work(p)} : Moved(h, loc, Request(p, t))
        BY <2>1 DEF BeginLogin, Begin
      <3> QED BY <1>f, <2>t, <3>1, <3>2, LoginWork, LoginMoves
    <2>2. ASSUME NEW h \in Handlers, LoginStep(h) PROVE LoginShape'
      <3>1. faults' = faults /\ kind' = kind
        BY <2>2 DEF LoginStep, CheckLockout, Increment, SetExpiry, SetLockout, Clear, CheckFree, CountLinks,
                    StoreChallenge, StoreLink, Mail, Find, RejectSignature, RejectWallet, Spend, FindUser, InsertUser, InsertConflict,
                    InsertCredits, OpenSession, End, Goto, Keep
      <3>2. CASE Leave(h)
        BY <1>f, <2>t, <3>1, <3>2, LoginLeaves
      <3>3. CASE CheckLockout(h) \/ Increment(h) \/ SetExpiry(h)
        <4>1. PICK loc \in {"incr", "expire", "lockout", Work(Purpose(h))} :
                  Leave(h) \/ Moved(h, loc, local[h])
          BY <3>3 DEF CheckLockout, Increment, SetExpiry, End, Goto, Keep
        <4>2. ~At(h, "idle")
          BY <3>3 DEF CheckLockout, Increment, SetExpiry, At
        <4> QED BY <1>f, <2>t, <3>1, <3>2, <4>1, <4>2, LoginKeeps, LoginWork, LoginGoes
      <3>4. CASE \E t \in Tokens : StoreLink(h, t)
        <4>1. PICK t \in Tokens : At(h, "store") /\ Moved(h, "mail", Request(Purpose(h), t))
          BY <3>4 DEF StoreLink, Keep
        <4>2. Purpose(h) = "challenge"
          BY <4>1 DEF LoginShape, At
        <4>3. Purpose(h) \in Purposes
          BY <4>2 DEF Purposes
        <4> QED BY <1>f, <2>t, <3>1, <4>1, <4>2, <4>3, LoginMoves
      <3>5. CASE CheckFree(h) \/ CountLinks(h)
        <4>1. Leave(h) \/ (At(h, "check") /\ Moved(h, "insert_user", local[h]))
                 \/ (At(h, "count") /\ Moved(h, "store", local[h]))
          BY <3>5 DEF CheckFree, CountLinks, End, Goto, Keep
        <4>2. ~At(h, "idle") /\ (At(h, "check") => Purpose(h) = "register")
                             /\ (At(h, "count") => Purpose(h) = "challenge")
          BY <3>5 DEF CheckFree, CountLinks, At, LoginShape
        <4> QED BY <1>f, <2>t, <3>1, <3>2, <4>1, <4>2, LoginGoes
      <3>6. CASE Find(h) \/ Spend(h) \/ FindUser(h) \/ InsertCredits(h)
        <4>1. Purpose(h) = "login" /\ ~At(h, "idle")
          BY <3>6 DEF Find, Spend, FindUser, InsertCredits, At, LoginShape
        <4>2. PICK loc \in {"spend", "session", "user", "find", "insert_user"} :
                  Leave(h) \/ Moved(h, loc, local[h])
          BY <3>6, <4>1 DEF Find, Spend, FindUser, InsertCredits, AfterUser, End, Goto, Keep
        <4> QED BY <1>f, <2>t, <3>1, <3>2, <4>1, <4>2, LoginGoes
      <3>8. CASE InsertUser(h)
        <4>1. ~At(h, "idle") /\ Purpose(h) \in {"register", "login"}
          BY <3>8 DEF InsertUser, At, LoginShape
        <4>2. Purpose(h) = "register" => Moved(h, "clear", local[h])
          BY <3>8, <4>1, LoginKeeps DEF InsertUser, AfterUser, Goto, Keep
        <4>3. PICK loc \in {"credits", "clear", "find", "session"} : Moved(h, loc, local[h])
          BY <3>8 DEF InsertUser, AfterUser, Goto, Keep
        <4> QED BY <1>f, <2>t, <3>1, <4>1, <4>2, <4>3, LoginGoes
      <3>7. CASE OpenSession(h)
        <4>1. ~At(h, "idle") /\ (Leave(h) \/ Moved(h, "clear", local[h]))
          BY <3>7 DEF OpenSession, End, Goto, Keep, At
        <4> QED BY <1>f, <2>t, <3>1, <3>2, <4>1, LoginGoes
      <3> QED
        <4>1. SetLockout(h) \/ Clear(h) \/ Mail(h) \/ RejectSignature(h) \/ RejectWallet(h) \/ InsertConflict(h)
                 \/ (\E t \in Tokens : StoreChallenge(h, t)) => Leave(h)
          BY DEF SetLockout, Clear, Mail, RejectSignature, RejectWallet, InsertConflict, StoreChallenge, End
        <4> QED BY <2>2, <3>2, <3>3, <3>4, <3>5, <3>6, <3>7, <3>8, <4>1 DEF LoginStep
    <2>3. ASSUME NEW h \in Handlers, RedisFails(h) PROVE LoginShape'
      <3>1. kind' = kind /\ faults' \in 0..MaxFaults /\ ~At(h, "idle")
        <4>1. faults' \in 0..MaxFaults
          BY <2>3, FaultType DEF RedisFails, LoginShape, LoginTypeOK
        <4> QED BY <2>3, <4>1 DEF RedisFails, At
      <3>2. \/ Leave(h) \/ Moved(h, "incr", local[h]) \/ Moved(h, "expire", local[h])
            \/ Moved(h, Work(Purpose(h)), local[h])
        BY <2>3, Zenon DEF RedisFails
      <3>3. CASE Leave(h)
        BY <2>t, <3>1, <3>3, LoginLeaves
      <3>4. CASE Moved(h, "incr", local[h]) \/ Moved(h, "expire", local[h])
        BY <2>t, <3>1, <3>4, LoginGoes
      <3>5. CASE Moved(h, Work(Purpose(h)), local[h])
        <4>1. Purpose(h) \in Purposes
          BY <3>1, LoginKeeps
        <4> QED BY <2>t, <3>1, <3>5, <4>1, LoginWork, LoginGoes
      <3> QED BY <3>2, <3>3, <3>4, <3>5
    <2>4. ASSUME NEW h \in Handlers, DropLogin(h) PROVE LoginShape'
      <3>1. kind' = kind /\ faults' \in 0..MaxFaults /\ Leave(h)
        BY <2>4, FaultType DEF DropLogin, Dropped, LoginShape, LoginTypeOK
      <3> QED BY <2>t, <3>1, LoginLeaves
    <2>5. CASE UNCHANGED <<kind, requests>>
      BY <2>t, <2>5 DEF requests, LoginShape, LoginTypeOK, RequestsTypeOK, At, Purpose, Token
    <2>6. ASSUME NEW p \in Purposes, WindowEnds(p) \/ LockoutEnds(p)
          PROVE  UNCHANGED <<kind, requests>>
      BY <2>6 DEF WindowEnds, LockoutEnds
    <2>7. ASSUME NEW t \in Tokens, Expires(t) \/ HourPasses(t)
          PROVE  UNCHANGED <<kind, requests>>
      BY <2>7 DEF Expires, HourPasses
    <2> QED BY <1>1, <2>1, <2>2, <2>3, <2>4, <2>5, <2>6, <2>7 DEF LoginNext
  <1> QED BY <1>0, <1>1

\* The counters, the tables and the requests of logins have their types.
THEOREM LoginTypeCorrect == LoginSpec => []LoginTypeOK
  <1>1. LoginShape /\ [LoginNext]_loginVars => LoginShape'
    BY LoginShapeStep
  <1>2. LoginShape => LoginTypeOK
    BY DEF LoginShape
  <1> QED BY <1>1, <1>2, LoginShapeInit, PTL DEF LoginSpec

\* The invariant LoginShape, as the theorems below use it.
LEMMA LoginShapeAlways == LoginSpec => []LoginShape
  <1>1. LoginShape /\ [LoginNext]_loginVars => LoginShape'
    BY LoginShapeStep
  <1> QED BY <1>1, LoginShapeInit, PTL DEF LoginSpec

(* A counter without a time to live has its EXPIRE before it or lost it.   *)
LEMMA CounterExpiresStep ==
    ASSUME LoginShape, CounterExpires, [LoginNext]_loginVars PROVE CounterExpires'
  <1> USE DEF Redis, limiter, links, rows, outcome, logins
  <1>t. /\ attempts \in [Purposes -> 0..MaxAttempts + 1] /\ expiring \subseteq Purposes
        /\ pc \in [Handlers -> LoginLocations \cup {"idle"}]
        /\ local \in [Handlers -> LoginData \cup {Nothing}]
    BY DEF LoginShape, LoginTypeOK, LoginTablesOK, RequestsTypeOK
  <1>n. MaxAttempts \in Nat /\ MaxAttempts # 0
    BY LoginsAssumption
  \* A step that leaves the limiter alone, and is taken by nobody at "expire".
  <1>1. ASSUME NEW h \in Handlers, ~At(h, "expire"), UNCHANGED <<attempts, expiring>>,
               unbounded \subseteq unbounded',
               \A g \in Handlers \ {h} : pc'[g] = pc[g] /\ local'[g] = local[g]
        PROVE  CounterExpires'
    BY <1>1 DEF CounterExpires, At, Purpose
  <1>m. ASSUME NEW h \in Handlers, NEW loc, NEW d, Moved(h, loc, d)
        PROVE  /\ \A g \in Handlers \ {h} : pc'[g] = pc[g] /\ local'[g] = local[g]
               /\ pc'[h] = loc /\ local'[h] = d
    BY <1>t, <1>m DEF Moved
  <1>0. CASE UNCHANGED loginVars
    BY <1>0 DEF loginVars, requests, CounterExpires, At, Purpose
  <1>2. ASSUME NEW h \in Handlers, NEW p \in Purposes, NEW t \in Tokens \cup {NoToken}, BeginLogin(h, p, t)
        PROVE  CounterExpires'
    BY <1>1, <1>2, <1>m DEF BeginLogin, Begin, At
  <1>3. ASSUME NEW h \in Handlers, LoginStep(h) PROVE CounterExpires'
    <2>1. CASE Increment(h)
      <3>1. DEFINE p == Purpose(h)
      <3>2. PICK loc : Moved(h, loc, local[h]) /\ (attempts[p] = 0 => loc = "expire")
        BY <2>1, <1>t, <1>n, LoginKeeps DEF Increment, Goto, Keep, At
      <3>3. p \in Purposes /\ At(h, "incr")
        BY <2>1, LoginKeeps DEF Increment, At
      <3>4. \A q \in Purposes \ {p} : attempts'[q] = attempts[q]
        BY <2>1, <1>t DEF Increment
      <3>5. UNCHANGED <<expiring, unbounded>>
        BY <2>1 DEF Increment
      <3>6. CASE attempts[p] = 0
        BY <3>2, <3>3, <3>4, <3>5, <3>6, <1>m DEF CounterExpires, At, Purpose
      <3>7. CASE attempts[p] > 0
        BY <3>2, <3>3, <3>4, <3>5, <3>7, <1>m DEF CounterExpires, At, Purpose
      <3> QED BY <3>3, <3>6, <3>7, <1>t
    <2>2. CASE SetExpiry(h)
      <3>1. PICK loc : Moved(h, loc, local[h])
        BY <2>2 DEF SetExpiry, Goto, Keep
      <3>2. attempts' = attempts /\ unbounded' = unbounded /\ expiring \subseteq expiring'
        BY <2>2 DEF SetExpiry
      <3>3. attempts[Purpose(h)] > 0 => Purpose(h) \in expiring'
        BY <2>2 DEF SetExpiry
      <3> QED BY <3>1, <3>2, <3>3, <1>m DEF CounterExpires, At, Purpose
    <2>3. CASE Clear(h)
      <3>1. Moved(h, "idle", Nothing) /\ ~At(h, "expire") /\ Purpose(h) \in Purposes
        BY <2>3, LoginKeeps DEF Clear, End, Leave, At
      <3>2. attempts' = [attempts EXCEPT ![Purpose(h)] = 0] /\ unbounded' = unbounded
            /\ expiring' = expiring \ {Purpose(h)}
        BY <2>3 DEF Clear
      <3> QED BY <3>1, <3>2, <1>t, <1>m DEF CounterExpires, At, Purpose
    <2>4. CASE ~Increment(h) /\ ~SetExpiry(h) /\ ~Clear(h)
      <3>1. ~At(h, "expire") /\ UNCHANGED <<attempts, expiring, unbounded>>
        BY <1>3, <2>4 DEF LoginStep, CheckLockout, SetLockout, CheckFree, CountLinks, StoreChallenge,
             StoreLink, Mail, Find, RejectSignature, RejectWallet, Spend, FindUser, InsertUser, InsertConflict, InsertCredits, OpenSession, At
      <3>2. PICK loc, d : Moved(h, loc, d)
        BY <1>3, <2>4 DEF LoginStep, CheckLockout, SetLockout, CheckFree, CountLinks, StoreChallenge,
             StoreLink, Mail, Find, RejectSignature, RejectWallet, Spend, FindUser, InsertUser, InsertConflict, InsertCredits, OpenSession,
             End, Leave, Goto, Keep
      <3> QED BY <1>1, <1>m, <3>1, <3>2
    <2> QED BY <2>1, <2>2, <2>3, <2>4
  <1>4. ASSUME NEW h \in Handlers, RedisFails(h) \/ DropLogin(h) PROVE CounterExpires'
    <2>1. PICK loc, d : Moved(h, loc, d)
      BY <1>4 DEF RedisFails, DropLogin, Dropped, Leave
    <2>2. UNCHANGED <<attempts, expiring>> /\ unbounded \subseteq unbounded'
          /\ (At(h, "expire") => Purpose(h) \in unbounded')
      BY <1>4 DEF RedisFails, DropLogin
    <2> QED BY <2>1, <2>2, <1>m DEF CounterExpires, At, Purpose
  <1>5. ASSUME NEW p \in Purposes, WindowEnds(p) \/ LockoutEnds(p) PROVE CounterExpires'
    BY <1>5, <1>t DEF WindowEnds, LockoutEnds, requests, CounterExpires, At, Purpose
  <1>6. ASSUME NEW t \in Tokens, Expires(t) \/ HourPasses(t) PROVE CounterExpires'
    BY <1>6 DEF Expires, HourPasses, requests, CounterExpires, At, Purpose
  <1> QED BY <1>0, <1>2, <1>3, <1>4, <1>5, <1>6 DEF LoginNext

\* No counter of attempts is left without a window, but by a lost EXPIRE.
THEOREM CountersExpire == LoginSpec => []CounterExpires
  <1>1. RequestsInit /\ LoginInit => CounterExpires
    BY DEF LoginInit, CounterExpires
  <1>2. LoginShape /\ CounterExpires /\ [LoginNext]_loginVars => CounterExpires'
    BY CounterExpiresStep
  <1> QED BY <1>1, <1>2, LoginShapeAlways, PTL DEF LoginSpec

\* What a step of request h leaves of the others.
LEMMA OthersStay ==
    ASSUME NEW h \in Handlers, NEW loc, NEW d, Moved(h, loc, d),
           NEW locs, NEW data, RequestsTypeOK(locs, data)
    PROVE  /\ \A g \in Handlers \ {h} : pc'[g] = pc[g] /\ local'[g] = local[g]
           /\ pc'[h] = loc /\ local'[h] = d
  BY DEF Moved, RequestsTypeOK

\* Between the two rows of a new account there is a request, or was one.
THEOREM AccountsHaveCredits == LoginSpec => []AccountHasCredits
  <1>1. RequestsInit /\ LoginInit => AccountHasCredits
    BY DEF LoginInit, AccountHasCredits
  <1>2. LoginShape /\ AccountHasCredits /\ [LoginNext]_loginVars => AccountHasCredits'
    <2> SUFFICES ASSUME LoginShape, AccountHasCredits, [LoginNext]_loginVars
                 PROVE  AccountHasCredits'
      OBVIOUS
    <2> USE DEF limiter, links, rows, outcome, logins
    <2>t. RequestsTypeOK(LoginLocations, LoginData) /\ registered \in BOOLEAN /\ credits \in BOOLEAN /\ bare \in BOOLEAN
      BY DEF LoginShape, LoginTypeOK, LoginTablesOK
    <2>0. CASE UNCHANGED <<kind, registered, credits, bare, pc>>
      BY <2>0 DEF AccountHasCredits, At
    \* A step of a request that is not between the rows.
    <2>1. ASSUME NEW h \in Handlers, NEW loc, NEW d, Moved(h, loc, d), ~At(h, "credits"),
                 UNCHANGED <<kind, registered, credits>>, bare => bare'
          PROVE  AccountHasCredits'
      BY <2>1, <2>t, OthersStay DEF AccountHasCredits, At
    <2>2. ASSUME NEW h \in Handlers, NEW p \in Purposes, NEW t \in Tokens \cup {NoToken}, BeginLogin(h, p, t)
          PROVE  AccountHasCredits'
      BY <2>1, <2>2 DEF BeginLogin, Begin, At
    <2>3. ASSUME NEW h \in Handlers, LoginStep(h) PROVE AccountHasCredits'
      <3>1. CASE FindUser(h)
        <4>1. kind' = kind /\ credits' = credits /\ bare' = bare /\ ~At(h, "credits")
              /\ (kind = "account" => registered' = registered)
          BY <3>1, <2>t DEF FindUser, At
        <4>2. PICK loc : Moved(h, loc, local[h])
          BY <3>1 DEF FindUser, Goto, Keep
        <4> QED BY <4>1, <4>2, <2>t, OthersStay DEF AccountHasCredits, At
      <3>2. CASE InsertUser(h)
        <4>1. PICK loc : Moved(h, loc, local[h]) /\ (kind = "account" => loc = "credits")
          BY <3>2 DEF InsertUser, Goto, Keep
        <4>2. kind' = kind
          BY <3>2 DEF InsertUser
        <4> QED BY <4>1, <4>2, <2>t, OthersStay DEF AccountHasCredits, At
      <3>3. CASE InsertCredits(h)
        BY <3>3 DEF InsertCredits, AccountHasCredits
      <3>4. CASE ~FindUser(h) /\ ~InsertUser(h) /\ ~InsertCredits(h)
        <4>1. ~At(h, "credits") /\ UNCHANGED <<kind, registered, credits, bare>>
          BY <2>3, <3>4 DEF LoginStep, CheckLockout, Increment, SetExpiry, Clear, SetLockout, CheckFree,
               CountLinks, StoreChallenge, StoreLink, Mail, Find, RejectSignature, RejectWallet, Spend, InsertConflict, OpenSession, At
        <4>2. PICK loc, d : Moved(h, loc, d)
          BY <2>3, <3>4 DEF LoginStep, CheckLockout, Increment, SetExpiry, Clear, SetLockout, CheckFree,
               CountLinks, StoreChallenge, StoreLink, Mail, Find, RejectSignature, RejectWallet, Spend, InsertConflict, OpenSession,
               End, Leave, Goto, Keep
        <4> QED BY <2>1, <4>1, <4>2
      <3> QED BY <3>1, <3>2, <3>3, <3>4
    <2>4. ASSUME NEW h \in Handlers, RedisFails(h) PROVE AccountHasCredits'
      BY <2>1, <2>4 DEF RedisFails, Redis, At, Leave
    <2>5. ASSUME NEW h \in Handlers, DropLogin(h) PROVE AccountHasCredits'
      <3>1. Moved(h, "idle", Nothing) /\ UNCHANGED <<kind, registered, credits>>
            /\ (bare => bare') /\ (At(h, "credits") => bare')
        BY <2>5, <2>t DEF DropLogin, Dropped, Leave
      <3> QED BY <2>1, <3>1 DEF AccountHasCredits
    <2>6. ASSUME NEW p \in Purposes, WindowEnds(p) \/ LockoutEnds(p) PROVE AccountHasCredits'
      BY <2>0, <2>6 DEF WindowEnds, LockoutEnds, requests
    <2>7. ASSUME NEW t \in Tokens, Expires(t) \/ HourPasses(t) PROVE AccountHasCredits'
      BY <2>0, <2>7 DEF Expires, HourPasses, requests
    <2>8. CASE UNCHANGED loginVars
      BY <2>0, <2>8 DEF loginVars, requests
    <2> QED BY <2>2, <2>3, <2>4, <2>5, <2>6, <2>7, <2>8 DEF LoginNext
  <1> QED BY <1>1, <1>2, LoginShapeAlways, PTL DEF LoginSpec

\* The request h has spent token t and has still to open a session with it,
\* or to fail.
Holds(h, t) == Token(h) = t /\ pc[h] \in (IF kind = "pubkey" THEN {"session"} ELSE Spending)

SpentIsHeld == \A t \in Tokens :
    token[t] = "spent" => opened[t] > 0 \/ t \in wasted \/ \E h \in Handlers : Holds(h, t)

LEMMA SpentIsHeldStep ==
    ASSUME LoginShape, SpentIsHeld, [LoginNext]_loginVars PROVE SpentIsHeld'
  <1> USE DEF limiter, links, rows, outcome, logins
  <1>t. /\ RequestsTypeOK(LoginLocations, LoginData) /\ token \in [Tokens -> {"none", "stored", "live", "spent", "gone"}]
        /\ opened \in [Tokens -> 0..2]
    BY DEF LoginShape, LoginTypeOK, LoginTablesOK
  <1>0. CASE UNCHANGED <<kind, token, opened, wasted, pc, local>>
    BY <1>0 DEF SpentIsHeld, Holds, Token
  \* A step that spends no token and opens no session.
  <1>1. ASSUME NEW h \in Handlers, NEW loc, NEW d, Moved(h, loc, d), kind' = kind, opened' = opened,
               \A t \in Tokens : token'[t] = "spent" => token[t] = "spent",
               wasted \subseteq wasted',
               \A t \in Tokens : Holds(h, t) /\ token[t] = "spent" => t \in wasted' \/ Holds(h, t)'
        PROVE  SpentIsHeld'
    <2>1. \A g \in Handlers \ {h} : pc'[g] = pc[g] /\ local'[g] = local[g]
      BY <1>1, <1>t, OthersStay
    <2>2. \A g \in Handlers \ {h}, t \in Tokens : Holds(g, t) => Holds(g, t)'
      BY <1>1, <2>1 DEF Holds, Token
    <2> QED BY <1>1, <2>2 DEF SpentIsHeld
  <1>2. ASSUME NEW h \in Handlers, NEW p \in Purposes, NEW t \in Tokens \cup {NoToken}, BeginLogin(h, p, t)
        PROVE  SpentIsHeld'
    <2>1. PICK loc, d : Moved(h, loc, d) /\ pc[h] = "idle"
      BY <1>2 DEF BeginLogin, Begin, At
    <2>2. \A u \in Tokens : ~Holds(h, u)
      BY <2>1 DEF Holds, Spending
    <2> QED BY <1>1, <1>2, <2>1, <2>2 DEF BeginLogin
  <1>3. ASSUME NEW h \in Handlers, LoginStep(h) PROVE SpentIsHeld'
    <2>1. CASE Spend(h)
      <3>1. PICK loc \in {"session", "user"} : Moved(h, loc, local[h]) /\ (kind = "pubkey" => loc = "session")
        BY <2>1 DEF Spend, Goto, Keep
      <3>2. pc'[h] = loc /\ local'[h] = local[h] /\ \A g \in Handlers \ {h} : pc'[g] = pc[g] /\ local'[g] = local[g]
        BY <3>1, <1>t, OthersStay
      <3>3. kind' = kind /\ opened' = opened /\ wasted' = wasted /\ token' = [token EXCEPT ![Token(h)] = "spent"]
            /\ pc[h] = "spend"
        BY <2>1 DEF Spend, At
      <3>4. Holds(h, Token(h))'
        BY <3>1, <3>2, <3>3 DEF Holds, Token, Spending
      <3>5. \A g \in Handlers, t \in Tokens : Holds(g, t) => Holds(g, t)'
        BY <3>2, <3>3 DEF Holds, Token, Spending
      <3>6. ASSUME NEW t \in Tokens, token'[t] = "spent" PROVE token[t] = "spent" \/ t = Token(h)
        BY <3>3, <3>6, <1>t
      <3>7. Token(h)' = Token(h)
        BY <3>2 DEF Token
      <3> QED BY <3>3, <3>4, <3>5, <3>6, <3>7 DEF SpentIsHeld
    <2>2. CASE OpenSession(h)
      <3>1. PICK loc, d : Moved(h, loc, d)
        BY <2>2 DEF OpenSession, Goto, Keep, End, Leave
      <3>2. \A g \in Handlers \ {h} : pc'[g] = pc[g] /\ local'[g] = local[g]
        BY <3>1, <1>t, OthersStay
      <3>3. kind' = kind /\ token' = token /\ wasted' = wasted
        BY <2>2 DEF OpenSession
      <3>4. \A t \in Tokens : (opened[t] > 0 => opened'[t] > 0) /\ (t = Token(h) => opened'[t] > 0)
        BY <2>2, <1>t DEF OpenSession
      <3>5. \A g \in Handlers \ {h}, t \in Tokens : Holds(g, t) => Holds(g, t)'
        BY <3>2, <3>3 DEF Holds, Token
      <3> QED BY <3>3, <3>4, <3>5 DEF SpentIsHeld, Holds
    <2>3. CASE FindUser(h) \/ InsertUser(h) \/ InsertCredits(h)
      <3>1. PICK loc \in LoginLocations : Moved(h, loc, local[h])
        BY <2>3 DEF FindUser, InsertUser, InsertCredits, AfterUser, Goto, Keep, LoginLocations, Redis, Spending
      <3>2. UNCHANGED <<kind, token, opened, wasted>>
        BY <2>3 DEF FindUser, InsertUser, InsertCredits
      <3>3. ASSUME NEW t \in Tokens, Holds(h, t) PROVE Holds(h, t)'
        <4>1. ~At(h, "idle") /\ kind # "pubkey" /\ Token(h) = t
          BY <2>3, <3>3 DEF FindUser, InsertUser, InsertCredits, Holds, At
        <4>2. Purpose(h) = "login"
          BY <2>3, <3>3, <4>1, LoginKeeps, LoginsAssumption DEF FindUser, InsertUser, InsertCredits, At, LoginShape
        <4>3. Moved(h, "session", local[h]) \/ Moved(h, "insert_user", local[h]) \/ Moved(h, "credits", local[h])
          BY <2>3, <4>1, <4>2 DEF FindUser, InsertUser, InsertCredits, AfterUser, Goto, Keep
        <4>4. pc'[h] \in Spending /\ local'[h] = local[h]
          BY <4>3, <1>t, OthersStay DEF Spending
        <4> QED BY <4>1, <4>4, <3>2 DEF Holds, Token
      <3> QED BY <1>1, <3>1, <3>2, <3>3
    <2>4. CASE InsertConflict(h)
      <3>1. Moved(h, "idle", Nothing) /\ UNCHANGED <<kind, token, opened>> /\ wasted' = wasted \cup Wasting(h)
        BY <2>4 DEF InsertConflict, End, Leave
      <3>2. \A t \in Tokens : Holds(h, t) /\ token[t] = "spent" => t \in wasted'
        BY <3>1 DEF Holds, Wasting, Spending
      <3> QED BY <1>1, <3>1, <3>2
    <2>5. CASE RejectSignature(h) \/ RejectWallet(h)
      <3>1. Moved(h, "idle", Nothing) /\ UNCHANGED <<kind, token, opened, wasted>>
        BY <2>5 DEF RejectSignature, RejectWallet, End, Leave
      <3>2. \A t \in Tokens : ~Holds(h, t)
        BY <2>5 DEF RejectSignature, RejectWallet, At, Holds, Spending
      <3> QED BY <1>1, <3>1, <3>2
    <2>6. CASE /\ ~Spend(h) /\ ~OpenSession(h) /\ ~FindUser(h) /\ ~InsertUser(h) /\ ~InsertCredits(h)
               /\ ~InsertConflict(h) /\ ~RejectSignature(h) /\ ~RejectWallet(h)
      <3>1. PICK loc, d : Moved(h, loc, d)
        BY <1>3, <2>6 DEF LoginStep, CheckLockout, Increment, SetExpiry, Clear, SetLockout, CheckFree, CountLinks,
             StoreChallenge, StoreLink, Mail, Find, End, Leave, Goto, Keep
      <3>2. pc[h] \notin Spending /\ UNCHANGED <<kind, opened, wasted>>
        BY <1>3, <2>6 DEF LoginStep, CheckLockout, Increment, SetExpiry, Clear, SetLockout, CheckFree, CountLinks,
             StoreChallenge, StoreLink, Mail, Find, At, Spending
      <3>3. \/ token' = token
            \/ \E t \in Tokens \cup {NoToken}, s \in {"stored", "live", "gone"} : token' = [token EXCEPT ![t] = s]
        <4>1. Mail(h) => Token(h) \in Tokens
          BY DEF Mail, LoginShape, At
        <4> QED BY <4>1, <1>3, <2>6 DEF LoginStep, CheckLockout, Increment, SetExpiry, Clear, SetLockout, CheckFree, CountLinks,
             StoreChallenge, StoreLink, Mail, Find
      <3>4. \A t \in Tokens : token'[t] = "spent" => token[t] = "spent"
        BY <3>3, <1>t
      <3>5. \A t \in Tokens : ~Holds(h, t)
        BY <3>2 DEF Holds, Spending
      <3> QED BY <1>1, <3>1, <3>2, <3>4, <3>5
    <2> QED BY <2>1, <2>2, <2>3, <2>4, <2>5, <2>6
  <1>4. ASSUME NEW h \in Handlers, RedisFails(h) PROVE SpentIsHeld'
    <2>1. PICK loc, d : Moved(h, loc, d)
      BY <1>4 DEF RedisFails, Leave
    <2>2. \A t \in Tokens : ~Holds(h, t)
      BY <1>4 DEF RedisFails, Redis, Holds, Spending
    <2>3. UNCHANGED <<kind, token, opened, wasted>>
      BY <1>4 DEF RedisFails
    <2> QED BY <1>1, <2>1, <2>2, <2>3
  <1>5. ASSUME NEW h \in Handlers, DropLogin(h) PROVE SpentIsHeld'
    <2>1. Moved(h, "idle", Nothing) /\ UNCHANGED <<kind, token, opened>> /\ wasted' = wasted \cup Wasting(h)
      BY <1>5 DEF DropLogin, Dropped, Leave
    <2>2. \A t \in Tokens : Holds(h, t) /\ token[t] = "spent" => t \in wasted'
      BY <2>1 DEF Holds, Wasting, Spending
    <2> QED BY <1>1, <2>1, <2>2
  <1>6. ASSUME NEW p \in Purposes, WindowEnds(p) \/ LockoutEnds(p) PROVE SpentIsHeld'
    BY <1>0, <1>6 DEF WindowEnds, LockoutEnds, requests
  <1>7. ASSUME NEW t \in Tokens, Expires(t) \/ HourPasses(t) PROVE SpentIsHeld'
    <2>1. UNCHANGED <<kind, opened, wasted, pc, local>>
      BY <1>7 DEF Expires, HourPasses, requests
    <2>2. \A u \in Tokens : token'[u] = "spent" => token[u] = "spent"
      BY <1>7, <1>t DEF Expires, HourPasses
    <2> QED BY <2>1, <2>2 DEF SpentIsHeld, Holds, Token
  <1>8. CASE UNCHANGED loginVars
    BY <1>0, <1>8 DEF loginVars, requests
  <1> QED BY <1>2, <1>3, <1>4, <1>5, <1>6, <1>7, <1>8 DEF LoginNext

\* No rejected attempt spends a token.
THEOREM TokensSpentForLogins == LoginSpec => []SpentForALogin
  <1>1. RequestsInit /\ LoginInit => SpentIsHeld
    BY DEF LoginInit, SpentIsHeld
  <1>2. LoginShape /\ SpentIsHeld /\ [LoginNext]_loginVars => SpentIsHeld'
    BY SpentIsHeldStep
  <1>3. SpentIsHeld => SpentForALogin
    BY DEF SpentIsHeld, SpentForALogin, Holds, Spending
  <1> QED BY <1>1, <1>2, <1>3, LoginShapeAlways, PTL DEF LoginSpec

\* The request h has found token t alive and has not ended since.
Claims(h, t) == Token(h) = t /\ pc[h] \in {"spend"} \cup Spending

\* A link that is being mailed is nobody's; a token has one claim, unless it
\* was raced for, and none once it has opened a session.
MailedOnce == \A h \in Handlers : At(h, "mail") =>
    /\ kind \notin Limited /\ token[Token(h)] = "stored"
    /\ \A g \in Handlers : At(g, "mail") /\ Token(g) = Token(h) => g = h
OneClaim(t) ==
    /\ \A h \in Handlers : Claims(h, t) => token[t] \in {"live", "spent", "gone"}
    /\ t \notin raced =>
         /\ \A g, h \in Handlers : Claims(g, t) /\ Claims(h, t) => g = h
         /\ \A h \in Handlers : Claims(h, t) /\ pc[h] # "spend" => token[t] = "spent"
         /\ opened[t] <= 1
         /\ opened[t] > 0 => token[t] = "spent" /\ \A h \in Handlers : ~Claims(h, t)
ClaimedOnce == kind # "pubkey" => \A t \in Tokens : OneClaim(t)

\* A request that leaves the limiter or ends claims nothing.
LEMMA NoClaim ==
    ASSUME LoginShape, NEW h \in Handlers, ~At(h, "idle"), NEW d, kind' = kind,
           NEW loc \in {"idle", "incr", "expire", "lockout", "store", Work(Purpose(h))}, Moved(h, loc, d)
    PROVE  loc # "mail" /\ (kind # "pubkey" => \A t \in Tokens : ~Claims(h, t)')
  <1>1. RequestsTypeOK(LoginLocations, LoginData)
    BY DEF LoginShape, LoginTypeOK
  <1>2. pc'[h] = loc
    BY <1>1, OthersStay
  <1>3. Work(Purpose(h)) # "mail" /\ (kind # "pubkey" => Work(Purpose(h)) \notin {"spend"} \cup Spending)
    BY LoginKeeps DEF Work, Spending, Purposes
  <1> QED BY <1>2, <1>3 DEF Claims, Spending

LEMMA ClaimedOnceStep ==
    ASSUME LoginShape, MailedOnce, ClaimedOnce, [LoginNext]_loginVars PROVE MailedOnce' /\ ClaimedOnce'
  <1> USE DEF limiter, links, rows, outcome, logins
  <1>t. /\ RequestsTypeOK(LoginLocations, LoginData) /\ token \in [Tokens -> {"none", "stored", "live", "spent", "gone"}]
        /\ opened \in [Tokens -> 0..2]
    BY DEF LoginShape, LoginTypeOK, LoginTablesOK
  <1>0. CASE UNCHANGED <<kind, token, opened, raced, pc, local>>
    BY <1>0 DEF MailedOnce, ClaimedOnce, OneClaim, Claims, At, Token
  \* A step that changes no token and claims none.
  <1>1. ASSUME NEW h \in Handlers, NEW loc, NEW d, Moved(h, loc, d), loc # "mail",
               UNCHANGED <<kind, token, opened>>, raced \subseteq raced',
               kind # "pubkey" => \A t \in Tokens : Claims(h, t)' => Claims(h, t) /\ pc[h] # "spend"
        PROVE  MailedOnce' /\ ClaimedOnce'
    <2>1. pc'[h] = loc /\ \A g \in Handlers \ {h} : pc'[g] = pc[g] /\ local'[g] = local[g]
      BY <1>1, <1>t, OthersStay
    <2>2. \A g \in Handlers \ {h}, t \in Tokens : Claims(g, t)' <=> Claims(g, t)
      BY <2>1 DEF Claims, Token
    <2>3. MailedOnce'
      BY <1>1, <2>1 DEF MailedOnce, At, Token
    <2>4. ClaimedOnce'
      BY <1>1, <2>1, <2>2 DEF ClaimedOnce, OneClaim
    <2> QED BY <2>3, <2>4
  <1>2. ASSUME NEW h \in Handlers, NEW p \in Purposes, NEW t \in Tokens \cup {NoToken}, BeginLogin(h, p, t)
        PROVE  MailedOnce' /\ ClaimedOnce'
    <2>1. PICK loc, d : Moved(h, loc, d) /\ loc \in {"lock", "check", "count", "store", "user", "find"}
              /\ (kind # "pubkey" => loc # "user")
      BY <1>2 DEF BeginLogin, Begin, Work, Purposes
    <2>2. pc'[h] = loc
      BY <2>1, <1>t, OthersStay
    <2> QED BY <1>1, <1>2, <2>1, <2>2 DEF BeginLogin, Claims, Spending
  <1>3. ASSUME NEW h \in Handlers, LoginStep(h) PROVE MailedOnce' /\ ClaimedOnce'
    <2>1. CASE Spend(h)
      <3>1. PICK loc \in {"session", "user"} : Moved(h, loc, local[h])
        BY <2>1 DEF Spend, Goto, Keep
      <3>2. pc'[h] = loc /\ local'[h] = local[h] /\ \A g \in Handlers \ {h} : pc'[g] = pc[g] /\ local'[g] = local[g]
        BY <3>1, <1>t, OthersStay
      <3>3. UNCHANGED <<kind, opened, raced>> /\ token' = [token EXCEPT ![Token(h)] = "spent"] /\ pc[h] = "spend"
            /\ Token(h) \in Tokens
        BY <2>1, LoginKeeps DEF Spend, At, LoginShape
      <3>4. \A g \in Handlers, t \in Tokens : Claims(g, t)' <=> Claims(g, t)
        BY <3>2, <3>3 DEF Claims, Token, Spending
      <3>5. ClaimedOnce'
        <4> SUFFICES ASSUME kind # "pubkey", NEW t \in Tokens
                     PROVE  OneClaim(t)'
          BY <3>3 DEF ClaimedOnce
        <4>1. CASE t = Token(h)
          <5>1. Claims(h, t) /\ token'[t] = "spent" /\ opened'[t] = opened[t]
            BY <3>3, <4>1, <1>t DEF Claims
          <5> QED BY <5>1, <3>3, <3>4 DEF ClaimedOnce, OneClaim
        <4>2. CASE t # Token(h)
          <5>1. token'[t] = token[t] /\ ~Claims(h, t)
            BY <3>3, <4>2, <1>t DEF Claims
          <5> QED BY <5>1, <3>2, <3>3, <3>4 DEF ClaimedOnce, OneClaim
        <4> QED BY <4>1, <4>2
      <3>6. MailedOnce'
        <4>1. ASSUME NEW g \in Handlers, At(g, "mail")' PROVE At(g, "mail") /\ g # h /\ Token(g) # Token(h)
          <5>1. At(g, "mail") /\ g # h
            BY <3>2, <4>1 DEF At
          <5>2. kind # "pubkey" /\ token[Token(g)] = "stored"
            BY <5>1 DEF MailedOnce, Limited
          <5>3. token[Token(h)] # "stored"
            BY <5>2, <3>3 DEF ClaimedOnce, OneClaim, Claims
          <5> QED BY <5>1, <5>2, <5>3
        <4> QED BY <4>1, <3>2, <3>3, <1>t DEF MailedOnce, At, Token
      <3> QED BY <3>5, <3>6
    <2>2. CASE OpenSession(h)
      <3>1. PICK loc, d : loc \in {"clear", "idle"} /\ Moved(h, loc, d)
        BY <2>2 DEF OpenSession, Goto, Keep, End, Leave
      <3>2. pc'[h] = loc /\ \A g \in Handlers \ {h} : pc'[g] = pc[g] /\ local'[g] = local[g]
        BY <3>1, <1>t, OthersStay
      <3>3. UNCHANGED <<kind, token, raced>> /\ pc[h] = "session" /\ Token(h) \in Tokens
            /\ opened' = [opened EXCEPT ![Token(h)] = IF @ = 0 THEN 1 ELSE 2]
        BY <2>2, LoginKeeps DEF OpenSession, At, LoginShape
      <3>4. \A g \in Handlers, t \in Tokens : Claims(g, t)' <=> Claims(g, t) /\ g # h
        BY <3>1, <3>2 DEF Claims, Token, Spending
      <3>5. ASSUME kind # "pubkey", NEW t \in Tokens PROVE OneClaim(t)'
        <4>1. CASE t = Token(h)
          <5>1. Claims(h, t)
            BY <3>3, <4>1 DEF Claims, Spending
          <5>2. t \notin raced => opened[t] = 0 /\ token[t] = "spent"
            BY <5>1, <3>3, <3>5, <1>t DEF ClaimedOnce, OneClaim
          <5>3. opened[t] = 0 => opened'[t] = 1
            BY <3>3, <4>1, <1>t
          <5> QED BY <5>1, <5>2, <5>3, <3>3, <3>4, <3>5 DEF ClaimedOnce, OneClaim
        <4>2. CASE t # Token(h)
          <5>1. opened'[t] = opened[t] /\ ~Claims(h, t)
            BY <3>3, <4>2, <1>t DEF Claims
          <5> QED BY <5>1, <3>2, <3>3, <3>4, <3>5 DEF ClaimedOnce, OneClaim
        <4> QED BY <4>1, <4>2
      <3>6. MailedOnce'
        BY <3>1, <3>2, <3>3 DEF MailedOnce, At, Token
      <3> QED BY <3>3, <3>5, <3>6 DEF ClaimedOnce
    <2>3. CASE Find(h) /\ Moved(h, "spend", local[h])
      <3>1. pc'[h] = "spend" /\ local'[h] = local[h] /\ pc[h] = "find"
            /\ \A g \in Handlers \ {h} : pc'[g] = pc[g] /\ local'[g] = local[g]
        BY <2>3, <1>t, OthersStay DEF Find, At
      <3>2. UNCHANGED <<kind, token, opened>> /\ token[Token(h)] = "live"
            /\ raced' = raced \cup {u \in {Token(h)} : \E g \in Handlers : At(g, "spend") /\ Token(g) = u}
        BY <2>3, <3>1 DEF Find, Found, Goto, Keep, End, Leave, Moved
      <3>3. \A g \in Handlers, t \in Tokens : Claims(g, t)' <=> Claims(g, t) \/ (g = h /\ t = Token(h))
        BY <3>1 DEF Claims, Token, Spending
      <3>4. ASSUME kind # "pubkey", NEW t \in Tokens PROVE OneClaim(t)'
        <4>1. CASE t = Token(h)
          <5>1. t \notin raced' => t \notin raced /\ \A g \in Handlers : ~Claims(g, t)
            <6> SUFFICES ASSUME t \notin raced', NEW g \in Handlers, Claims(g, t)
                         PROVE  FALSE
              BY <3>2
            <6>1. pc[g] # "spend"
              BY <3>2, <4>1 DEF At, Claims
            <6>2. token[t] = "spent"
              BY <6>1, <3>2, <3>4 DEF ClaimedOnce, OneClaim
            <6> QED BY <6>2, <3>2, <4>1
          <5>2. t \notin raced' => opened[t] = 0
            BY <3>2, <3>4, <4>1, <1>t DEF ClaimedOnce, OneClaim
          <5> QED BY <5>1, <5>2, <3>1, <3>2, <3>3, <4>1 DEF OneClaim
        <4>2. CASE t # Token(h)
          <5>1. (t \notin raced' <=> t \notin raced) /\ \A g \in Handlers : Claims(g, t)' <=> Claims(g, t)
            BY <3>2, <3>3, <4>2
          <5>2. \A g \in Handlers : Claims(g, t) => pc'[g] = pc[g]
            BY <3>1, <4>2 DEF Claims
          <5> QED BY <5>1, <5>2, <3>2, <3>4 DEF ClaimedOnce, OneClaim
        <4> QED BY <4>1, <4>2
      <3>5. MailedOnce'
        BY <3>1, <3>2 DEF MailedOnce, At, Token
      <3> QED BY <3>2, <3>4, <3>5 DEF ClaimedOnce
    <2>4. CASE \E t \in Tokens : StoreChallenge(h, t)
      <3>1. PICK t \in Tokens : StoreChallenge(h, t)
        BY <2>4
      <3>2. PICK s \in {"live", "gone"} : token' = [token EXCEPT ![t] = s]
        BY <3>1 DEF StoreChallenge
      <3>3. UNCHANGED <<kind, opened, raced>> /\ token[t] = "none" /\ pc[h] = "store" /\ Moved(h, "idle", Nothing)
            /\ kind \in Limited
        BY <3>1 DEF StoreChallenge, At, End, Leave
      <3>4. pc'[h] = "idle" /\ \A g \in Handlers \ {h} : pc'[g] = pc[g] /\ local'[g] = local[g]
        BY <3>3, <1>t, OthersStay
      <3>5. \A g \in Handlers, u \in Tokens : (Claims(g, u)' <=> Claims(g, u)) /\ (Claims(g, u) => pc'[g] = pc[g])
        BY <3>3, <3>4 DEF Claims, Token, Spending
      <3>6. MailedOnce'
        BY <3>3, <3>4 DEF MailedOnce, At, Token
      <3>7. ASSUME kind # "pubkey", NEW u \in Tokens PROVE OneClaim(u)'
        BY <3>2, <3>3, <3>5, <3>7, <1>t DEF ClaimedOnce, OneClaim
      <3> QED BY <3>3, <3>6, <3>7 DEF ClaimedOnce
    <2>5. CASE \E t \in Tokens : StoreLink(h, t)
      <3>1. PICK t \in Tokens : StoreLink(h, t)
        BY <2>5
      <3>2. token' = [token EXCEPT ![t] = "stored"] /\ UNCHANGED <<kind, opened, raced>> /\ token[t] = "none"
            /\ pc[h] = "store" /\ Moved(h, "mail", Request(Purpose(h), t)) /\ kind \notin Limited
        BY <3>1 DEF StoreLink, At, Keep
      <3>3. pc'[h] = "mail" /\ local'[h] = Request(Purpose(h), t)
            /\ \A g \in Handlers \ {h} : pc'[g] = pc[g] /\ local'[g] = local[g]
        BY <3>2, <1>t, OthersStay
      <3>4. Token(h)' = t
        BY <3>3 DEF Token, Request
      <3>5. \A g \in Handlers, u \in Tokens : (Claims(g, u)' <=> Claims(g, u)) /\ (Claims(g, u) => pc'[g] = pc[g])
        BY <3>2, <3>3 DEF Claims, Token, Spending
      <3>6. MailedOnce'
        <4>1. \A g \in Handlers \ {h} : At(g, "mail")' => At(g, "mail") /\ Token(g)' = Token(g) /\ Token(g) # t
          BY <3>2, <3>3 DEF MailedOnce, At, Token
        <4>2. token'[t] = "stored" /\ \A u \in Tokens : u # t => token'[u] = token[u]
          BY <3>2, <1>t
        <4>3. \A g \in Handlers : At(g, "mail") => Token(g) \in Tokens
          BY DEF LoginShape
        <4> QED BY <3>2, <3>4, <4>1, <4>2, <4>3 DEF MailedOnce, At
      <3>7. ASSUME kind # "pubkey", NEW u \in Tokens PROVE OneClaim(u)'
        BY <3>2, <3>5, <3>7, <1>t DEF ClaimedOnce, OneClaim
      <3> QED BY <3>2, <3>6, <3>7 DEF ClaimedOnce
    <2>6. CASE Mail(h)
      <3>1. token' \in {token, [token EXCEPT ![Token(h)] = "live"]} /\ UNCHANGED <<kind, opened, raced>>
            /\ pc[h] = "mail" /\ Moved(h, "idle", Nothing) /\ token[Token(h)] = "stored"
        BY <2>6 DEF Mail, At, End, Leave, MailedOnce
      <3>2. pc'[h] = "idle" /\ \A g \in Handlers \ {h} : pc'[g] = pc[g] /\ local'[g] = local[g]
        BY <3>1, <1>t, OthersStay
      <3>3. \A g \in Handlers, u \in Tokens : (Claims(g, u)' <=> Claims(g, u)) /\ (Claims(g, u) => pc'[g] = pc[g])
        BY <3>1, <3>2 DEF Claims, Token, Spending
      <3>4. MailedOnce'
        <4>1. \A g \in Handlers : At(g, "mail")' => g # h /\ At(g, "mail") /\ Token(g)' = Token(g) /\ Token(g) # Token(h)
          BY <3>1, <3>2 DEF MailedOnce, At, Token
        <4>2. kind \notin Limited
          BY <3>1 DEF MailedOnce, At
        <4>3. \A u \in Tokens : u # Token(h) => token'[u] = token[u]
          BY <3>1, <1>t
        <4>4. \A g \in Handlers : At(g, "mail") => Token(g) \in Tokens
          BY DEF LoginShape
        <4> QED BY <3>1, <4>1, <4>2, <4>3, <4>4 DEF MailedOnce
      <3>5. ASSUME kind # "pubkey", NEW u \in Tokens PROVE OneClaim(u)'
        BY <3>1, <3>3, <3>5, <1>t DEF ClaimedOnce, OneClaim
      <3> QED BY <3>1, <3>4, <3>5 DEF ClaimedOnce
    <2>7. CASE FindUser(h) \/ InsertUser(h) \/ InsertCredits(h)
      <3>1. PICK loc : Moved(h, loc, local[h]) /\ loc # "mail"
        BY <2>7 DEF FindUser, InsertUser, InsertCredits, AfterUser, Goto, Keep
      <3>2. local'[h] = local[h]
        BY <3>1, <1>t, OthersStay
      <3>3. pc[h] \in Spending /\ UNCHANGED <<kind, token, opened, raced>>
        BY <2>7 DEF FindUser, InsertUser, InsertCredits, At, Spending
      <3>4. \A t \in Tokens : Claims(h, t)' => Claims(h, t) /\ pc[h] # "spend"
        BY <3>2, <3>3 DEF Claims, Token, Spending
      <3> QED BY <1>1, <3>1, <3>3, <3>4
    <2>8. CASE Find(h) /\ ~Moved(h, "spend", local[h])
      <3>1. PICK loc, d : loc \in {"session", "idle"} /\ Moved(h, loc, d) /\ (kind # "pubkey" => loc = "idle")
        BY <2>8 DEF Find, Goto, Keep, End, Leave
      <3>2. pc'[h] = loc
        BY <3>1, <1>t, OthersStay
      <3>3. UNCHANGED <<kind, token, opened>> /\ raced \subseteq raced'
        BY <2>8 DEF Find
      <3> QED BY <1>1, <3>1, <3>2, <3>3 DEF Claims, Spending
    <2>11. CASE RejectSignature(h) \/ RejectWallet(h)
      <3>1. Moved(h, "idle", Nothing) /\ UNCHANGED <<kind, token, opened, raced>>
        BY <2>11 DEF RejectSignature, RejectWallet, End, Leave
      <3>2. pc'[h] = "idle"
        BY <3>1, <1>t, OthersStay
      <3> QED BY <1>1, <3>1, <3>2 DEF Claims, Spending
    <2>9. CASE CheckFree(h)
      <3>1. UNCHANGED <<kind, token, opened, raced>> /\ Token(h) = NoToken /\ ~At(h, "idle")
        BY <2>9, LoginKeeps DEF CheckFree, At, LoginShape
      <3>2. PICK loc, d : Moved(h, loc, d) /\ loc # "mail" /\ (loc = "idle" \/ d = local[h])
        BY <2>9 DEF CheckFree, End, Leave, Goto, Keep
      <3>3. pc'[h] = loc /\ local'[h] = d
        BY <3>2, <1>t, OthersStay
      <3>4. \A t \in Tokens : ~Claims(h, t)'
        BY <3>1, <3>2, <3>3, LoginsAssumption DEF Claims, Token, Spending
      <3> QED BY <1>1, <3>1, <3>2, <3>4
    <2>10. CASE CheckLockout(h) \/ Increment(h) \/ SetExpiry(h) \/ SetLockout(h) \/ Clear(h)
                \/ CountLinks(h) \/ InsertConflict(h)
      <3>1. UNCHANGED <<kind, token, opened, raced>> /\ ~At(h, "idle")
        BY <2>10 DEF CheckLockout, Increment, SetExpiry, SetLockout, Clear, CountLinks, InsertConflict, At
      <3>2. PICK loc, d : loc \in {"idle", "incr", "expire", "lockout", "store", Work(Purpose(h))} /\ Moved(h, loc, d)
        BY <2>10 DEF CheckLockout, Increment, SetExpiry, SetLockout, Clear, CountLinks, InsertConflict,
             End, Leave, Goto, Keep
      <3> QED BY <1>1, <3>1, <3>2, NoClaim
    <2> QED BY <1>3, <2>1, <2>2, <2>3, <2>4, <2>5, <2>6, <2>7, <2>8, <2>9, <2>10, <2>11 DEF LoginStep
  <1>4. ASSUME NEW h \in Handlers, RedisFails(h) PROVE MailedOnce' /\ ClaimedOnce'
    <2>1. PICK loc, d : loc \in {"idle", "incr", "expire", Work(Purpose(h))} /\ Moved(h, loc, d)
      BY <1>4 DEF RedisFails, Leave
    <2>2. UNCHANGED <<kind, token, opened, raced>> /\ ~At(h, "idle")
      BY <1>4 DEF RedisFails, At, Redis
    <2> QED BY <1>1, <2>1, <2>2, NoClaim
  <1>5. ASSUME NEW h \in Handlers, DropLogin(h) PROVE MailedOnce' /\ ClaimedOnce'
    BY <1>1, <1>5, NoClaim DEF DropLogin, Dropped, Leave
  <1>6. ASSUME NEW p \in Purposes, WindowEnds(p) \/ LockoutEnds(p) PROVE MailedOnce' /\ ClaimedOnce'
    BY <1>0, <1>6 DEF WindowEnds, LockoutEnds, requests
  <1>7. ASSUME NEW t \in Tokens, HourPasses(t) PROVE MailedOnce' /\ ClaimedOnce'
    BY <1>0, <1>7 DEF HourPasses, requests
  <1>8. ASSUME NEW t \in Tokens, Expires(t) PROVE MailedOnce' /\ ClaimedOnce'
    <2>1. UNCHANGED <<kind, opened, raced, pc, local>> /\ token[t] = "live" /\ token' = [token EXCEPT ![t] = "gone"]
      BY <1>8 DEF Expires, requests
    <2>2. MailedOnce'
      <3>1. \A h \in Handlers : At(h, "mail") => Token(h) # t /\ token[Token(h)] = "stored"
        BY <2>1 DEF MailedOnce
      <3> QED BY <2>1, <3>1, <1>t DEF MailedOnce, At, Token
    <2>3. ASSUME kind # "pubkey", NEW u \in Tokens PROVE OneClaim(u)'
      BY <2>1, <2>3, <1>t DEF ClaimedOnce, OneClaim, Claims, Token
    <2> QED BY <2>1, <2>2, <2>3 DEF ClaimedOnce
  <1>9. CASE UNCHANGED loginVars
    BY <1>0, <1>9 DEF loginVars, requests
  <1> QED BY <1>2, <1>3, <1>4, <1>5, <1>6, <1>7, <1>8, <1>9 DEF LoginNext

\* A token opens one session, unless two attempts held it at once.
THEOREM TokensOpenOnce == LoginSpec => []TokenOpensOnce
  <1>1. RequestsInit /\ LoginInit => MailedOnce /\ ClaimedOnce
    BY DEF RequestsInit, LoginInit, MailedOnce, ClaimedOnce, OneClaim, Claims, At, Spending
  <1>2. LoginShape /\ MailedOnce /\ ClaimedOnce /\ [LoginNext]_loginVars => MailedOnce' /\ ClaimedOnce'
    BY ClaimedOnceStep
  <1>3. ClaimedOnce => TokenOpensOnce
    BY DEF ClaimedOnce, OneClaim, TokenOpensOnce
  <1> QED BY <1>1, <1>2, <1>3, LoginShapeAlways, PTL DEF LoginSpec

\* Together: token, session and account of a sign-in agree.
THEOREM SignInsWhole == LoginSpec => []SignInWhole
  BY TokensOpenOnce, TokensSpentForLogins, AccountsHaveCredits, PTL DEF SignInWhole

-----------------------------------------------------------------------------
(* RequestAuth.                                                            *)

\* A step of request h to loc, or its end, that keeps at most the time left.
LEMMA AuthMoves ==
    ASSUME AuthTypeOK, AuthNext, ~Tick, ~Revoke
    PROVE  /\ RequestsTypeOK(AuthLocations, 0..Timeout)'
           /\ \E h \in Handlers : \E loc, d : Moved(h, loc, d)
  <1> USE RequestAuthAssumption DEF AuthLocations
  <1>1. PICK h \in Handlers :
           \/ BeginCreateKey(h) \/ InsertKey(h) \/ BeginBearer(h) \/ CacheHit(h) \/ CacheMiss(h)
           \/ SelectKey(h) \/ CacheKey(h) \/ BeginZid(h) \/ SelectAccount(h) \/ InsertAccount(h)
           \/ InsertCreditsRow(h) \/ DropAuth(h)
    BY DEF AuthNext
  <1>2. RequestsTypeOK(AuthLocations, 0..Timeout)
    BY DEF AuthTypeOK
  <1>3. CASE Leave(h)
    <2>1. faults' \in 0..MaxFaults
      <3>1. CASE DropAuth(h)
        BY <1>2, <3>1, FaultType DEF DropAuth, Dropped
      <3>2. CASE ~DropAuth(h)
        <4>1. UNCHANGED faults
          BY <1>1, <3>2 DEF BeginCreateKey, InsertKey, BeginBearer, CacheHit, CacheMiss, SelectKey, CacheKey, BeginZid,
               SelectAccount, InsertAccount, InsertCreditsRow, Begin, Goto, Keep, End
        <4> QED BY <1>2, <4>1 DEF RequestsTypeOK
      <3> QED BY <3>1, <3>2
    <2> QED BY <1>2, <1>3, <2>1, LeaveType DEF Leave
  <1>4. CASE ~Leave(h)
    <2>1. PICK loc \in AuthLocations, d \in {Timeout, local[h]} :
              Moved(h, loc, d) /\ UNCHANGED faults /\ (At(h, "idle") => d = Timeout)
      BY <1>1, <1>4 DEF BeginCreateKey, InsertKey, BeginBearer, CacheHit, CacheMiss, SelectKey, CacheKey, BeginZid,
           SelectAccount, InsertAccount, InsertCreditsRow, DropAuth, Dropped, Begin, Goto, Keep, End, At
    <2>2. d \in 0..Timeout /\ faults' \in 0..MaxFaults
      BY <1>2, <2>1 DEF RequestsTypeOK
    <2> QED BY <1>2, <2>1, <2>2, MovedType
  <1> QED BY <1>3, <1>4

LEMMA AuthTypeStep == ASSUME AuthTypeOK, [AuthNext]_authVars PROVE AuthTypeOK'
  <1> USE RequestAuthAssumption
  <1>0. CASE UNCHANGED authVars
    BY <1>0, RequestsStay DEF authVars, auths, AuthTypeOK
  <1>1. CASE Revoke
    BY <1>1, RequestsStay DEF Revoke, AuthTypeOK
  <1>2. CASE Tick
    <2>1. RequestsTypeOK(AuthLocations, 0..Timeout)'
      <3>1. local' \in [Handlers -> 0..Timeout \cup {Nothing}]
        BY <1>2 DEF Tick, AuthTypeOK, RequestsTypeOK, At, Left
      <3>2. \A h \in Handlers : At(h, "idle")' \/ local'[h] \in 0..Timeout
        BY <1>2 DEF Tick, AuthTypeOK, RequestsTypeOK, At, Left
      <3> QED BY <1>2, <3>1, <3>2 DEF Tick, AuthTypeOK, RequestsTypeOK
    <2>2. cachedFor' \in 0..Ttl /\ revokedFor' \in 0..Ttl + Timeout + 1
      BY <1>2 DEF Tick, AuthTypeOK
    <2> QED BY <1>2, <2>1, <2>2 DEF Tick, AuthTypeOK
  <1>3. CASE AuthNext /\ ~Tick /\ ~Revoke
    <2>1. PICK h \in Handlers :
             \/ BeginCreateKey(h) \/ InsertKey(h) \/ BeginBearer(h) \/ CacheHit(h) \/ CacheMiss(h)
             \/ SelectKey(h) \/ CacheKey(h) \/ BeginZid(h) \/ SelectAccount(h) \/ InsertAccount(h)
             \/ InsertCreditsRow(h) \/ DropAuth(h)
      BY <1>3 DEF AuthNext
    <2>2. keyRow' \in {"none", "valid", "revoked"} /\ cachedFor' \in 0..Ttl /\ revokedFor' = revokedFor
      BY <2>1 DEF BeginCreateKey, InsertKey, BeginBearer, CacheHit, CacheMiss, SelectKey, CacheKey, BeginZid,
           SelectAccount, InsertAccount, InsertCreditsRow, DropAuth, auths, AuthTypeOK
    <2>3. admittedAt' \in Int
      BY <2>1 DEF BeginCreateKey, InsertKey, BeginBearer, CacheHit, CacheMiss, SelectKey, CacheKey, BeginZid,
           SelectAccount, InsertAccount, InsertCreditsRow, DropAuth, auths, AuthTypeOK, Admit
    <2>4. zidAccount' \in {NewId(g) : g \in Handlers} \cup {Nothing} /\ funded' \subseteq {NewId(g) : g \in Handlers}
      BY <2>1 DEF BeginCreateKey, InsertKey, BeginBearer, CacheHit, CacheMiss, SelectKey, CacheKey, BeginZid,
           SelectAccount, InsertAccount, InsertCreditsRow, DropAuth, auths, AuthTypeOK
    <2>5. zidCut' \in BOOLEAN
      BY <2>1 DEF BeginCreateKey, InsertKey, BeginBearer, CacheHit, CacheMiss, SelectKey, CacheKey, BeginZid,
           SelectAccount, InsertAccount, InsertCreditsRow, DropAuth, auths, AuthTypeOK
    <2>6. RequestsTypeOK(AuthLocations, 0..Timeout)'
      BY <1>3, AuthMoves
    <2> QED BY <2>2, <2>3, <2>4, <2>5, <2>6 DEF AuthTypeOK
  <1> QED BY <1>0, <1>1, <1>2, <1>3

LEMMA AuthTypeInit == ASSUME RequestsInit, AuthInit PROVE AuthTypeOK
  <1>1. RequestsTypeOK(AuthLocations, 0..Timeout)
    BY RequestsStart
  <1>2. cachedFor \in 0..Ttl /\ revokedFor \in 0..Ttl + Timeout + 1 /\ admittedAt \in Int
    BY RequestAuthAssumption DEF AuthInit
  <1>3. zidAccount \in {NewId(h) : h \in Handlers} \cup {Nothing} /\ funded \subseteq {NewId(h) : h \in Handlers}
    BY DEF AuthInit
  <1> QED BY <1>1, <1>2, <1>3 DEF AuthInit, AuthTypeOK

\* The rows, the cache entry and the requests have their types.
THEOREM AuthTypeCorrect == AuthSpec => []AuthTypeOK
  <1>1. AuthTypeOK /\ [AuthNext]_authVars => AuthTypeOK'
    BY AuthTypeStep
  <1> QED BY <1>1, AuthTypeInit, PTL DEF AuthSpec

\* Until when a revoked key is accepted: an entry outlives the revocation by
\* what it has left, and one may still be written by a request that read the
\* row before; each tick takes one from both.
AcceptedUntil ==
    /\ keyRow # "revoked" => revokedFor = 0
    /\ cachedFor > 0 => cachedFor + revokedFor <= Ttl + Timeout
    /\ \A h \in Handlers : At(h, "setex") => Left(h) + revokedFor <= Timeout
    /\ RevokedIsRefused

LEMMA AcceptedUntilStep ==
    ASSUME AuthTypeOK, AcceptedUntil, [AuthNext]_authVars PROVE AcceptedUntil'
  <1> USE RequestAuthAssumption DEF RevokedIsRefused
  <1>t. /\ RequestsTypeOK(AuthLocations, 0..Timeout) /\ cachedFor \in 0..Ttl
        /\ revokedFor \in 0..Ttl + Timeout + 1 /\ admittedAt \in Int
    BY DEF AuthTypeOK
  <1>l. \A h \in Handlers : ~At(h, "idle") => Left(h) \in 0..Timeout
    BY <1>t DEF RequestsTypeOK, Left
  <1>0. CASE UNCHANGED authVars
    BY <1>0 DEF authVars, auths, requests, AcceptedUntil, At, Left
  <1>1. CASE Revoke
    BY <1>1 DEF Revoke, requests, AcceptedUntil, At, Left
  <1>2. CASE Tick
    <2>1. cachedFor' > 0 => cachedFor' + revokedFor' <= Ttl + Timeout
      BY <1>2, <1>t DEF Tick, AcceptedUntil
    <2>2. ASSUME NEW h \in Handlers, At(h, "setex")' PROVE Left(h)' + revokedFor' <= Timeout
      <3>1. At(h, "setex") /\ ~At(h, "idle") /\ Left(h)' = Left(h) - 1
        BY <1>2, <2>2 DEF Tick, At, Left
      <3>2. revokedFor' <= revokedFor + 1 /\ revokedFor' \in Int
        BY <1>2, <1>t DEF Tick
      <3> QED BY <3>1, <3>2, <1>l, <1>t DEF AcceptedUntil
    <2> QED BY <1>2, <2>1, <2>2 DEF Tick, AcceptedUntil
  <1>3. CASE AuthNext /\ ~Tick /\ ~Revoke
    <2>1. PICK h \in Handlers :
             \/ BeginCreateKey(h) \/ InsertKey(h) \/ BeginBearer(h) \/ CacheHit(h) \/ CacheMiss(h)
             \/ SelectKey(h) \/ CacheKey(h) \/ BeginZid(h) \/ SelectAccount(h) \/ InsertAccount(h)
             \/ InsertCreditsRow(h) \/ DropAuth(h)
      BY <1>3 DEF AuthNext
    \* A step that writes no entry and admits nobody.
    <2>2. ASSUME NEW loc, NEW d, Moved(h, loc, d), UNCHANGED <<cachedFor, revokedFor, admittedAt>>,
                 keyRow' = "revoked" => keyRow = "revoked", revokedFor = 0 \/ keyRow' = keyRow,
                 loc = "setex" => revokedFor = 0 /\ d \in 0..Timeout
          PROVE  AcceptedUntil'
      <3>1. pc'[h] = loc /\ local'[h] = d /\ \A g \in Handlers \ {h} : pc'[g] = pc[g] /\ local'[g] = local[g]
        BY <2>2, <1>t, OthersStay
      <3> QED BY <2>2, <3>1, <1>t DEF AcceptedUntil, At, Left
    <2>3. CASE CacheHit(h)
      <3>1. Moved(h, "idle", Nothing) /\ UNCHANGED <<keyRow, cachedFor, revokedFor>> /\ cachedFor > 0
            /\ admittedAt' \in {admittedAt, revokedFor}
        BY <2>3 DEF CacheHit, Admit, End, Leave
      <3>2. pc'[h] = "idle" /\ \A g \in Handlers \ {h} : pc'[g] = pc[g] /\ local'[g] = local[g]
        BY <3>1, <1>t, OthersStay
      <3> QED BY <3>1, <3>2, <1>t DEF AcceptedUntil, At, Left
    <2>4. CASE CacheKey(h)
      <3>1. Moved(h, "idle", Nothing) /\ UNCHANGED <<keyRow, revokedFor>> /\ cachedFor' \in {Ttl, cachedFor}
            /\ admittedAt' \in {admittedAt, revokedFor} /\ At(h, "setex")
        BY <2>4 DEF CacheKey, Admit, End, Leave
      <3>2. pc'[h] = "idle" /\ \A g \in Handlers \ {h} : pc'[g] = pc[g] /\ local'[g] = local[g]
        BY <3>1, <1>t, OthersStay
      <3>3. revokedFor <= Timeout
        BY <3>1, <1>l, <1>t DEF AcceptedUntil, At
      <3>4. (cachedFor' > 0 => cachedFor' + revokedFor <= Ttl + Timeout) /\ admittedAt' < Ttl + Timeout
        <4>1. Ttl \in Nat /\ Ttl >= 1 /\ Timeout \in Nat /\ cachedFor \in Int /\ revokedFor \in Int
          BY <1>t
        <4>2. admittedAt < Ttl + Timeout /\ (cachedFor > 0 => cachedFor + revokedFor <= Ttl + Timeout)
          BY DEF AcceptedUntil
        <4>3. admittedAt' < Ttl + Timeout
          <5>1. CASE admittedAt' = admittedAt
            BY <4>2, <5>1
          <5>2. CASE admittedAt' = revokedFor
            BY <3>3, <4>1, <5>2
          <5> QED BY <3>1, <5>1, <5>2
        <4>4. cachedFor' > 0 => cachedFor' + revokedFor <= Ttl + Timeout
          <5>1. CASE cachedFor' = cachedFor
            BY <4>2, <5>1
          <5>2. CASE cachedFor' = Ttl
            BY <3>3, <4>1, <5>2
          <5> QED BY <3>1, <5>1, <5>2
        <4> QED BY <4>3, <4>4
      <3>5. \A g \in Handlers : At(g, "setex")' => At(g, "setex") /\ Left(g)' = Left(g)
        BY <3>2 DEF At, Left
      <3> QED BY <3>1, <3>4, <3>5 DEF AcceptedUntil
    <2>5. CASE InsertKey(h) \/ SelectKey(h)
      <3>1. PICK loc, d : Moved(h, loc, d) /\ (loc = "setex" => keyRow # "revoked" /\ d = local[h])
        BY <2>5 DEF InsertKey, SelectKey, Goto, Keep, End, Leave
      <3>2. UNCHANGED <<cachedFor, revokedFor, admittedAt>> /\ (keyRow' = "revoked" => keyRow = "revoked")
            /\ (revokedFor = 0 \/ keyRow' = keyRow) /\ ~At(h, "idle")
        BY <2>5 DEF InsertKey, SelectKey, auths, AcceptedUntil, At
      <3>3. loc = "setex" => revokedFor = 0 /\ d \in 0..Timeout
        BY <3>1, <3>2, <1>l DEF AcceptedUntil, Left
      <3> QED BY <2>2, <3>1, <3>2, <3>3
    <2>6. CASE ~CacheHit(h) /\ ~CacheKey(h) /\ ~InsertKey(h) /\ ~SelectKey(h)
      <3>1. PICK loc, d : Moved(h, loc, d) /\ loc # "setex"
        BY <2>1, <2>6 DEF BeginCreateKey, BeginBearer, CacheMiss, BeginZid, SelectAccount, InsertAccount,
             InsertCreditsRow, DropAuth, Dropped, Begin, Goto, Keep, End, Leave
      <3>2. UNCHANGED <<keyRow, cachedFor, revokedFor, admittedAt>>
        BY <2>1, <2>6 DEF BeginCreateKey, BeginBearer, CacheMiss, BeginZid, SelectAccount, InsertAccount,
             InsertCreditsRow, DropAuth, auths
      <3> QED BY <2>2, <3>1, <3>2
    <2> QED BY <2>3, <2>4, <2>5, <2>6
  <1> QED BY <1>0, <1>1, <1>2, <1>3

\* A revoked key is refused after one lifetime of an entry and of a request.
THEOREM RevokedKeysRefused == AuthSpec => []RevokedIsRefused
  <1>1. RequestsInit /\ AuthInit => AcceptedUntil
    BY RequestAuthAssumption DEF RequestsInit, AuthInit, AcceptedUntil, RevokedIsRefused, At
  <1>2. AuthTypeOK /\ AcceptedUntil /\ [AuthNext]_authVars => AcceptedUntil'
    BY AcceptedUntilStep
  <1>3. AcceptedUntil => RevokedIsRefused
    BY DEF AcceptedUntil
  <1> QED BY <1>1, <1>2, <1>3, AuthTypeCorrect, PTL DEF AuthSpec

\* The stored account of a ZID is the one that has credits.
THEOREM AccountsAreFunded == AuthSpec => []AccountIsFunded
  <1>1. RequestsInit /\ AuthInit => AccountIsFunded
    BY DEF AuthInit, AccountIsFunded
  <1>2. AuthTypeOK /\ AccountIsFunded /\ [AuthNext]_authVars => AccountIsFunded'
    <2> SUFFICES ASSUME AuthTypeOK, AccountIsFunded, [AuthNext]_authVars PROVE AccountIsFunded'
      OBVIOUS
    <2> USE RequestAuthAssumption
    <2>t. RequestsTypeOK(AuthLocations, 0..Timeout) /\ funded \subseteq {NewId(h) : h \in Handlers} /\ zidCut \in BOOLEAN
      BY DEF AuthTypeOK
    <2>0. CASE UNCHANGED <<pc, zidAccount, funded, zidCut>>
      BY <2>0 DEF AccountIsFunded, At
    <2>1. CASE Revoke \/ Tick \/ UNCHANGED authVars
      BY <2>0, <2>1 DEF Revoke, Tick, authVars, auths, requests
    <2>2. ASSUME NEW h \in Handlers, InsertAccount(h) PROVE AccountIsFunded'
      <3>1. Moved(h, "insert_credits", local[h]) /\ UNCHANGED <<funded, zidCut>> /\ At(h, "insert_account")
            /\ zidAccount' = IF zidAccount = Nothing THEN NewId(h) ELSE zidAccount
        BY <2>2 DEF InsertAccount, Goto, Keep
      <3>2. pc'[h] = "insert_credits" /\ \A g \in Handlers \ {h} : pc'[g] = pc[g]
        BY <3>1, <2>t, OthersStay
      <3>3. zidAccount = Nothing => funded = {}
        BY <2>t DEF AccountIsFunded
      <3> QED BY <3>1, <3>2, <3>3 DEF AccountIsFunded, At
    <2>3. ASSUME NEW h \in Handlers, InsertCreditsRow(h) PROVE AccountIsFunded'
      <3>1. Moved(h, "idle", Nothing) /\ UNCHANGED <<zidAccount, zidCut>>
            /\ funded' = funded \cup ({NewId(h)} \cap {zidAccount})
        BY <2>3 DEF InsertCreditsRow, End, Leave
      <3>2. \A g \in Handlers \ {h} : pc'[g] = pc[g]
        BY <3>1, <2>t, OthersStay
      <3> QED BY <3>1, <3>2 DEF AccountIsFunded, At
    <2>4. ASSUME NEW h \in Handlers, DropAuth(h) PROVE AccountIsFunded'
      <3>1. Moved(h, "idle", Nothing) /\ UNCHANGED <<zidAccount, funded>>
            /\ (zidCut => zidCut') /\ (At(h, "insert_credits") /\ zidAccount = NewId(h) => zidCut')
        BY <2>4, <2>t DEF DropAuth, Dropped, Leave
      <3>2. \A g \in Handlers \ {h} : pc'[g] = pc[g]
        BY <3>1, <2>t, OthersStay
      <3> QED BY <3>1, <3>2 DEF AccountIsFunded, At
    <2>5. ASSUME NEW h \in Handlers,
                 \/ BeginCreateKey(h) \/ InsertKey(h) \/ BeginBearer(h) \/ CacheHit(h) \/ CacheMiss(h)
                 \/ SelectKey(h) \/ CacheKey(h) \/ BeginZid(h) \/ SelectAccount(h)
          PROVE  AccountIsFunded'
      <3>1. PICK loc, d : Moved(h, loc, d)
        BY <2>5 DEF BeginCreateKey, InsertKey, BeginBearer, CacheHit, CacheMiss, SelectKey, CacheKey, BeginZid,
             SelectAccount, Begin, Goto, Keep, End, Leave
      <3>2. UNCHANGED <<zidAccount, funded, zidCut>> /\ ~At(h, "insert_credits")
        BY <2>5 DEF BeginCreateKey, InsertKey, BeginBearer, CacheHit, CacheMiss, SelectKey, CacheKey, BeginZid,
             SelectAccount, Begin, auths, At
      <3>3. \A g \in Handlers \ {h} : pc'[g] = pc[g]
        BY <3>1, <2>t, OthersStay
      <3> QED BY <3>2, <3>3 DEF AccountIsFunded, At
    <2> QED BY <2>1, <2>2, <2>3, <2>4, <2>5 DEF AuthNext
  <1> QED BY <1>1, <1>2, AuthTypeCorrect, PTL DEF AuthSpec

(* Both together. *)
THEOREM IdentitiesHold == AuthSpec => []IdentityHolds
  <1>1. RevokedIsRefused /\ AccountIsFunded => IdentityHolds
    BY DEF IdentityHolds
  <1> QED BY <1>1, RevokedKeysRefused, AccountsAreFunded, PTL

-----------------------------------------------------------------------------
(* Vault.                                                                  *)

LEMMA VaultTypeStep == ASSUME VaultTypeOK, [VaultNext]_vaultVars PROVE VaultTypeOK'
  <1> USE DEF VaultLocations, vault
  <1>0. CASE UNCHANGED vaultVars
    BY <1>0, RequestsStay DEF vaultVars, VaultTypeOK
  <1>t. RequestsTypeOK(VaultLocations, Items)
    BY DEF VaultTypeOK
  <1>s. \A h \in Handlers : ~At(h, "idle") => local[h] \in Items
    BY <1>t DEF RequestsTypeOK
  <1>f. faults \in 0..MaxFaults
    BY <1>t DEF RequestsTypeOK
  <1>1. ASSUME NEW h \in Handlers, NEW i \in Items, BeginUpload(h, i) \/ BeginDelete(h, i) \/ BeginPublish(h, i)
        PROVE  VaultTypeOK'
    <2>1. PICK loc \in VaultLocations : Moved(h, loc, i) /\ UNCHANGED faults
      BY <1>1 DEF BeginUpload, BeginDelete, BeginPublish, Begin
    <2>2. RequestsTypeOK(VaultLocations, Items)'
      BY <1>t, <1>f, <2>1, MovedType
    <2> QED BY <1>1, <2>2 DEF BeginUpload, BeginDelete, BeginPublish, VaultTypeOK
  <1>2. ASSUME NEW h \in Handlers,
               \/ PutObject(h) \/ InsertItem(h) \/ DeleteObject(h) \/ DeleteItem(h) \/ ReadBalance(h)
               \/ Deduct(h) \/ PutCopy(h) \/ UpdateItem(h) \/ RefuseData(h)
        PROVE  VaultTypeOK'
    <2>1. local[h] \in Items
      BY <1>2, <1>s DEF PutObject, InsertItem, DeleteObject, DeleteItem, ReadBalance, Deduct, PutCopy, UpdateItem,
           RefuseData, At
    <2>2. RequestsTypeOK(VaultLocations, Items)'
      <3>1. UNCHANGED faults /\ (Leave(h) \/ \E loc \in VaultLocations : Moved(h, loc, local[h]))
        BY <1>2 DEF PutObject, InsertItem, DeleteObject, DeleteItem, ReadBalance, Deduct, PutCopy, UpdateItem,
             RefuseData, Goto, Keep, End
      <3> QED BY <1>t, <1>f, <2>1, <3>1, MovedType, LeaveType
    <2>3. balance' \in Int
      BY <1>2, <2>1, VaultAssumption DEF PutObject, InsertItem, DeleteObject, DeleteItem, ReadBalance, Deduct,
           PutCopy, UpdateItem, RefuseData, VaultTypeOK
    <2> QED BY <1>2, <2>1, <2>2, <2>3 DEF PutObject, InsertItem, DeleteObject, DeleteItem, ReadBalance, Deduct,
           PutCopy, UpdateItem, RefuseData, VaultTypeOK
  <1>3. ASSUME NEW h \in Handlers, DropVault(h) PROVE VaultTypeOK'
    <2>1. local[h] \in Items /\ RequestsTypeOK(VaultLocations, Items)'
      BY <1>3, <1>t, <1>s, FaultType, LeaveType DEF DropVault, Dropped
    <2> QED BY <1>3, <2>1 DEF DropVault, VaultTypeOK
  <1> QED BY <1>0, <1>1, <1>2, <1>3 DEF VaultNext

\* The rows, the objects and the requests of the vault have their types.
THEOREM VaultTypeCorrect == VaultSpec => []VaultTypeOK
  <1>1. RequestsInit /\ VaultInit => VaultTypeOK
    BY RequestsStart, VaultAssumption DEF VaultInit, VaultTypeOK
  <1>2. VaultTypeOK /\ [VaultNext]_vaultVars => VaultTypeOK'
    BY VaultTypeStep
  <1> QED BY <1>1, <1>2, PTL DEF VaultSpec

\* An upload owns its item: no row, no other upload and no delete has it yet.
Uploads(h) == pc[h] \in {"put_object", "insert_item"}
Deletes(h) == pc[h] \in {"delete_object", "delete_item"}
UploadIsAlone ==
    /\ listed \subseteq used
    /\ \A h \in Handlers : Uploads(h) \/ Deletes(h) => local[h] \in used
    /\ \A h \in Handlers : Uploads(h) =>
         /\ local[h] \notin listed
         /\ \A g \in Handlers : (Uploads(g) \/ Deletes(g)) /\ local[g] = local[h] => g = h
         /\ At(h, "insert_item") => local[h] \in objects

LEMMA UploadIsAloneStep ==
    ASSUME VaultTypeOK, UploadIsAlone, ListedIsStored, [VaultNext]_vaultVars
    PROVE  UploadIsAlone' /\ ListedIsStored'
  <1> USE DEF Uploads, Deletes, Running, vault
  <1>t. RequestsTypeOK(VaultLocations, Items)
    BY DEF VaultTypeOK
  <1>0. CASE UNCHANGED vaultVars
    BY <1>0 DEF vaultVars, requests, UploadIsAlone, ListedIsStored, At
  <1>m. ASSUME NEW h \in Handlers, NEW loc, NEW i, Moved(h, loc, i)
        PROVE  pc'[h] = loc /\ local'[h] = i /\ \A g \in Handlers \ {h} : pc'[g] = pc[g] /\ local'[g] = local[g]
    BY <1>m, <1>t, OthersStay
  \* A step outside uploads and deletes.
  <1>1. ASSUME NEW h \in Handlers, NEW loc, NEW i, Moved(h, loc, i), UNCHANGED <<listed, used, objects>>,
               ~Uploads(h) \/ loc = "idle", At(h, "delete_item") => torn' = torn \cup {local[h]},
               torn \subseteq torn',
               loc \notin {"put_object", "insert_item", "delete_object", "delete_item"}
        PROVE  UploadIsAlone' /\ ListedIsStored'
    <2>1. pc'[h] = loc /\ \A g \in Handlers \ {h} : pc'[g] = pc[g] /\ local'[g] = local[g]
      BY <1>1, <1>m
    <2> QED BY <1>1, <2>1 DEF UploadIsAlone, ListedIsStored, At
  <1>2. ASSUME NEW h \in Handlers, NEW i \in Items, BeginUpload(h, i) PROVE UploadIsAlone' /\ ListedIsStored'
    <2>1. Moved(h, "put_object", i) /\ At(h, "idle") /\ UNCHANGED <<listed, objects, torn>>
          /\ used' = used \cup {i} /\ i \notin used
      BY <1>2 DEF BeginUpload, Begin
    <2> QED BY <2>1, <1>m DEF UploadIsAlone, ListedIsStored, At
  <1>3. ASSUME NEW h \in Handlers, NEW i \in Items, BeginDelete(h, i) PROVE UploadIsAlone' /\ ListedIsStored'
    <2>1. Moved(h, "delete_object", i) /\ At(h, "idle") /\ UNCHANGED vault /\ i \in listed
      BY <1>3 DEF BeginDelete, Begin
    <2> QED BY <2>1, <1>m DEF UploadIsAlone, ListedIsStored, At
  <1>4. ASSUME NEW h \in Handlers, PutObject(h) PROVE UploadIsAlone' /\ ListedIsStored'
    <2>1. Moved(h, "insert_item", local[h]) /\ At(h, "put_object") /\ UNCHANGED <<listed, used, torn>>
          /\ objects' = objects \cup {local[h]}
      BY <1>4 DEF PutObject, Goto, Keep
    <2> QED BY <2>1, <1>m DEF UploadIsAlone, ListedIsStored, At
  <1>5. ASSUME NEW h \in Handlers, InsertItem(h) PROVE UploadIsAlone' /\ ListedIsStored'
    <2>1. Moved(h, "idle", Nothing) /\ At(h, "insert_item") /\ UNCHANGED <<used, objects, torn>>
          /\ listed' = listed \cup {local[h]}
      BY <1>5 DEF InsertItem, End, Leave
    <2> QED BY <2>1, <1>m DEF UploadIsAlone, ListedIsStored, At
  <1>6. ASSUME NEW h \in Handlers, DeleteObject(h) PROVE UploadIsAlone' /\ ListedIsStored'
    <2>1. Moved(h, "delete_item", local[h]) /\ At(h, "delete_object") /\ UNCHANGED <<listed, used, torn>>
          /\ objects' \in {objects, objects \ {local[h]}}
      BY <1>6 DEF DeleteObject, Goto, Keep
    <2>2. UploadIsAlone'
      BY <2>1, <1>m DEF UploadIsAlone, At
    <2>3. ListedIsStored'
      BY <2>1, <1>m DEF ListedIsStored, At
    <2> QED BY <2>2, <2>3
  <1>7. ASSUME NEW h \in Handlers, DeleteItem(h) PROVE UploadIsAlone' /\ ListedIsStored'
    <2>1. Moved(h, "idle", Nothing) /\ At(h, "delete_item") /\ UNCHANGED <<used, objects, torn>>
          /\ listed' = listed \ {local[h]}
      BY <1>7 DEF DeleteItem, End, Leave
    <2> QED BY <2>1, <1>m DEF UploadIsAlone, ListedIsStored, At
  <1>8. ASSUME NEW h \in Handlers,
               \/ \E i \in Items : BeginPublish(h, i)
               \/ ReadBalance(h) \/ Deduct(h) \/ PutCopy(h) \/ UpdateItem(h) \/ RefuseData(h)
        PROVE  UploadIsAlone' /\ ListedIsStored'
    <2>1. PICK loc, i : loc \in {"read_balance", "deduct", "put_copy", "update_item", "idle"} /\ Moved(h, loc, i)
      BY <1>8 DEF BeginPublish, ReadBalance, Deduct, PutCopy, UpdateItem, RefuseData, Begin, Goto, Keep, End, Leave
    <2>2. UNCHANGED <<listed, used, objects, torn>> /\ ~Uploads(h) /\ ~At(h, "delete_item")
      BY <1>8 DEF BeginPublish, ReadBalance, Deduct, PutCopy, UpdateItem, RefuseData, Begin, At
    <2> QED BY <1>1, <2>1, <2>2
  <1>9. ASSUME NEW h \in Handlers, DropVault(h) PROVE UploadIsAlone' /\ ListedIsStored'
    <2>1. Moved(h, "idle", Nothing) /\ UNCHANGED <<listed, used, objects>> /\ torn \subseteq torn'
          /\ (At(h, "delete_item") => torn' = torn \cup {local[h]})
      BY <1>9 DEF DropVault, Dropped, Leave
    <2> QED BY <1>1, <2>1
  <1> QED BY <1>0, <1>2, <1>3, <1>4, <1>5, <1>6, <1>7, <1>8, <1>9 DEF VaultNext

\* An item of the list has its object, but for a delete that was dropped.
THEOREM ListedItemsStored == VaultSpec => []ListedIsStored
  <1>1. RequestsInit /\ VaultInit => UploadIsAlone /\ ListedIsStored
    BY DEF RequestsInit, VaultInit, UploadIsAlone, ListedIsStored, Uploads, Deletes, At
  <1>2. VaultTypeOK /\ UploadIsAlone /\ ListedIsStored /\ [VaultNext]_vaultVars
           => UploadIsAlone' /\ ListedIsStored'
    BY UploadIsAloneStep
  <1> QED BY <1>1, <1>2, VaultTypeCorrect, PTL DEF VaultSpec

\* The sizes of the items that the requests at locs work on.
SizesAt(locs) == [h \in Handlers |-> IF pc[h] \in locs THEN SizeOf[local[h]] ELSE 0]
SizesSum(locs) == SumFunctionOnSet(SizesAt(locs), Handlers)

Uploading == {"put_object", "insert_item"}
Paying == {"deduct"}
Further == (Cardinality(Handlers) - 1) * MaxSize

\* No request works on an item that is larger than a file may be.
FilesFit == /\ IsFiniteSet(listed) /\ listed \subseteq used
            /\ \A i \in used : SizeOf[i] <= MaxSize
            /\ \A h \in Handlers : At(h, "idle") \/ local[h] \in used

\* What is listed and what will be, and what is left after the prices that
\* will be deducted, overrun by one file for every further request.
WithinBudget == /\ TotalSize(listed) + SizesSum(Uploading) <= Quota + Further
                /\ balance - SizesSum(Paying) >= 0 - Further

BudgetInv == VaultTypeOK /\ FilesFit /\ WithinBudget

\* A request that moves takes its size along.
LEMMA SizesMove ==
    ASSUME VaultTypeOK, NEW locs, "idle" \notin locs,
           NEW h \in Handlers, NEW loc, NEW i, Moved(h, loc, i), loc \in locs => i \in Items
    PROVE  /\ SizesSum(locs) \in Nat /\ SizesSum(locs)' \in Nat
           /\ SizesSum(locs)' = SizesSum(locs) - (IF pc[h] \in locs THEN SizeOf[local[h]] ELSE 0)
                                               + (IF loc \in locs THEN SizeOf[i] ELSE 0)
  <1>1. RequestsTypeOK(VaultLocations, Items)
    BY DEF VaultTypeOK
  <1>2. \A g \in Handlers : SizesAt(locs)[g] \in Nat
    BY <1>1, VaultAssumption DEF SizesAt, RequestsTypeOK, At
  <1>3. pc'[h] = loc /\ local'[h] = i /\ \A g \in Handlers \ {h} : pc'[g] = pc[g] /\ local'[g] = local[g]
    BY <1>1, OthersStay
  <1>4. /\ \A g \in Handlers \ {h} : SizesAt(locs)'[g] = SizesAt(locs)[g]
        /\ SizesAt(locs)'[h] = IF loc \in locs THEN SizeOf[i] ELSE 0
        /\ SizesAt(locs)[h] = IF pc[h] \in locs THEN SizeOf[local[h]] ELSE 0
    BY <1>3 DEF SizesAt
  <1>5. SizesAt(locs)'[h] \in Nat
    BY <1>4, VaultAssumption
  <1>6. IsFiniteSet(Handlers)
    BY VaultAssumption
  <1>7. /\ SumFunctionOnSet(SizesAt(locs), Handlers) \in Nat
        /\ SumFunctionOnSet(SizesAt(locs)', Handlers) \in Nat
        /\ SumFunctionOnSet(SizesAt(locs)', Handlers)
              = SumFunctionOnSet(SizesAt(locs), Handlers) - SizesAt(locs)[h] + SizesAt(locs)'[h]
    BY <1>2, <1>4, <1>5, <1>6, SumOfReplaced
  <1> QED BY <1>4, <1>7 DEF SizesSum

\* The other requests have at most one largest file each.
LEMMA SizesOfOthers ==
    ASSUME VaultTypeOK, FilesFit, NEW locs, "idle" \notin locs, NEW h \in Handlers, pc[h] \notin locs
    PROVE  SizesSum(locs) \in Nat /\ Further \in Nat /\ SizesSum(locs) <= Further
  <1>1. \A g \in Handlers : SizesAt(locs)[g] \in Nat /\ SizesAt(locs)[g] <= MaxSize
    BY VaultAssumption DEF SizesAt, FilesFit, VaultTypeOK, RequestsTypeOK, At
  <1>2. SizesAt(locs)[h] = 0
    BY DEF SizesAt
  <1>3. IsFiniteSet(Handlers) /\ MaxSize \in Nat
    BY VaultAssumption
  <1>4. /\ Cardinality(Handlers) - 1 \in Nat
        /\ (Cardinality(Handlers) - 1) * MaxSize \in Nat
        /\ SizesSum(locs) <= SizesAt(locs)[h] + (Cardinality(Handlers) - 1) * MaxSize
    BY <1>1, <1>3, SumOfOthers DEF SizesSum
  <1>5. SizesSum(locs) \in Nat
    BY <1>1, <1>3, SumIsNat DEF SizesSum
  <1> QED BY <1>2, <1>4, <1>5 DEF Further

\* The rows in the list have a size.
LEMMA ListedHaveSize ==
    ASSUME NEW S \in SUBSET Items, IsFiniteSet(S), NEW i \in Items
    PROVE  /\ TotalSize(S) \in Nat /\ IsFiniteSet(S \cup {i}) /\ IsFiniteSet(S \ {i})
           /\ TotalSize(S \cup {i}) <= TotalSize(S) + SizeOf[i]
           /\ TotalSize(S \ {i}) <= TotalSize(S)
           /\ TotalSize(S \cup {i}) \in Nat /\ TotalSize(S \ {i}) \in Nat
  <1>1. \A j \in Items : SizeOf[j] \in Nat
    BY VaultAssumption
  <1>2. IsFiniteSet(S \cup {i}) /\ IsFiniteSet(S \ {i})
    BY FS_AddElement, FS_RemoveElement
  <1>3. TotalSize(S) \in Nat /\ TotalSize(S \cup {i}) \in Nat /\ TotalSize(S \ {i}) \in Nat
    BY <1>1, <1>2, SumIsNat DEF TotalSize
  <1>4. TotalSize(S \ {i}) <= TotalSize(S)
    BY <1>1, SumOfMore DEF TotalSize
  <1>5. TotalSize(S \cup {i}) <= TotalSize(S) + SizeOf[i]
    <2>1. CASE i \in S
      <3>1. S \cup {i} = S
        BY <2>1
      <3> QED BY <1>1, <1>3, <3>1
    <2>2. CASE i \notin S
      <3>1. \A j \in S \cup {i} : SizeOf[j] \in Int
        BY <1>1
      <3>2. TotalSize(S \cup {i}) = TotalSize(S) + SizeOf[i]
        BY <2>2, <3>1, SumTakesIn DEF TotalSize
      <3> QED BY <1>3, <3>2
    <2> QED BY <2>1, <2>2
  <1> QED BY <1>2, <1>3, <1>4, <1>5

LEMMA FilesFitStep ==
    ASSUME VaultTypeOK, FilesFit, [VaultNext]_vaultVars PROVE FilesFit'
  <1> USE DEF vault
  <1>t. RequestsTypeOK(VaultLocations, Items)
    BY DEF VaultTypeOK
  <1>0. CASE UNCHANGED vaultVars
    BY <1>0 DEF vaultVars, requests, FilesFit, At
  <1>m. ASSUME NEW h \in Handlers, NEW loc, NEW i, Moved(h, loc, i), used \subseteq used', loc = "idle" \/ i \in used'
        PROVE  \A g \in Handlers : pc'[g] = "idle" \/ local'[g] \in used'
    <2>1. pc'[h] = loc /\ local'[h] = i /\ \A g \in Handlers \ {h} : pc'[g] = pc[g] /\ local'[g] = local[g]
      BY <1>m, <1>t, OthersStay
    <2> QED BY <1>m, <2>1 DEF FilesFit, At
  <1>1. ASSUME NEW h \in Handlers, NEW i \in Items, BeginUpload(h, i) PROVE FilesFit'
    <2>1. \A g \in Handlers : pc'[g] = "idle" \/ local'[g] \in used'
      BY <1>1, <1>m DEF BeginUpload, Begin
    <2> QED BY <1>1, <2>1 DEF BeginUpload, WithinQuota, FilesFit, At
  <1>2. ASSUME NEW h \in Handlers, NEW i \in Items, BeginDelete(h, i) \/ BeginPublish(h, i) PROVE FilesFit'
    <2>1. \A g \in Handlers : pc'[g] = "idle" \/ local'[g] \in used'
      BY <1>2, <1>m DEF BeginDelete, BeginPublish, Begin, FilesFit
    <2> QED BY <1>2, <2>1 DEF BeginDelete, BeginPublish, FilesFit, At
  <1>3. ASSUME NEW h \in Handlers, InsertItem(h) PROVE FilesFit'
    <2>1. local[h] \in used /\ \A g \in Handlers : pc'[g] = "idle" \/ local'[g] \in used'
      BY <1>3, <1>m DEF InsertItem, End, Leave, FilesFit, At
    <2>2. IsFiniteSet(listed')
      BY <1>3, FS_AddElement DEF InsertItem, FilesFit
    <2> QED BY <1>3, <2>1, <2>2 DEF InsertItem, FilesFit, At
  <1>4. ASSUME NEW h \in Handlers, DeleteItem(h) PROVE FilesFit'
    <2>1. \A g \in Handlers : pc'[g] = "idle" \/ local'[g] \in used'
      BY <1>4, <1>m DEF DeleteItem, End, Leave
    <2>2. IsFiniteSet(listed')
      BY <1>4, FS_RemoveElement DEF DeleteItem, FilesFit
    <2> QED BY <1>4, <2>1, <2>2 DEF DeleteItem, FilesFit, At
  <1>5. ASSUME NEW h \in Handlers,
               \/ PutObject(h) \/ DeleteObject(h) \/ ReadBalance(h) \/ Deduct(h) \/ PutCopy(h)
               \/ UpdateItem(h) \/ RefuseData(h) \/ DropVault(h)
        PROVE  FilesFit'
    <2>1. /\ \/ Moved(h, "idle", Nothing)
             \/ ~At(h, "idle") /\ \E loc \in VaultLocations : Moved(h, loc, local[h])
          /\ UNCHANGED <<listed, used>>
      BY <1>5 DEF PutObject, DeleteObject, ReadBalance, Deduct, PutCopy, UpdateItem, RefuseData,
           DropVault, Dropped, Goto, Keep, End, Leave, At, VaultLocations
    <2>2. \A g \in Handlers : pc'[g] = "idle" \/ local'[g] \in used'
      BY <2>1, <1>m DEF FilesFit
    <2> QED BY <2>1, <2>2 DEF FilesFit, At
  <1> QED BY <1>0, <1>1, <1>2, <1>3, <1>4, <1>5 DEF VaultNext

LEMMA WithinBudgetStep ==
    ASSUME BudgetInv, [VaultNext]_vaultVars PROVE WithinBudget'
  <1> USE DEF vault, Uploading, Paying
  <1>t. VaultTypeOK /\ FilesFit /\ WithinBudget /\ listed \subseteq Items
    BY DEF BudgetInv, VaultTypeOK
  <1>s. \A i \in Items : SizeOf[i] \in Nat
    BY VaultAssumption
  <1>h. \A h \in Handlers : ~At(h, "idle") => local[h] \in Items
    BY <1>t DEF VaultTypeOK, RequestsTypeOK
  <1>n. Quota \in Nat /\ balance \in Int /\ TotalSize(listed) \in Nat /\ Further \in Nat
    <2>1. PICK h \in Handlers : TRUE
      BY VaultAssumption
    <2>2. Cardinality(Handlers) - 1 \in Nat
      BY <2>1, VaultAssumption, FS_EmptySet, FS_CardinalityType
    <2>3. TotalSize(listed) \in Nat
      BY <1>s, <1>t, SumIsNat DEF TotalSize, FilesFit
    <2> QED BY <1>t, <2>2, <2>3, VaultAssumption DEF Further, VaultTypeOK
  <1>0. CASE UNCHANGED vaultVars
    BY <1>0, <1>t DEF vaultVars, requests, WithinBudget, TotalSize, SizesSum, SizesAt, Further
  \* A request that neither begins to upload nor to pay.
  <1>m. ASSUME NEW h \in Handlers, NEW loc, NEW i, Moved(h, loc, i),
               loc \in Uploading => pc[h] \in Uploading /\ i = local[h], loc # "deduct",
               UNCHANGED <<listed, balance>>
        PROVE  WithinBudget'
    <2>1. /\ SizesSum(Uploading) \in Nat /\ SizesSum(Uploading)' \in Nat
          /\ SizesSum(Uploading)' <= SizesSum(Uploading)
      <3>1. loc \in Uploading => i \in Items
        BY <1>m, <1>h DEF At
      <3>2. /\ SizesSum(Uploading) \in Nat /\ SizesSum(Uploading)' \in Nat
            /\ SizesSum(Uploading)' = SizesSum(Uploading)
                   - (IF pc[h] \in Uploading THEN SizeOf[local[h]] ELSE 0)
                   + (IF loc \in Uploading THEN SizeOf[i] ELSE 0)
        BY <1>m, <1>t, <3>1, SizesMove
      <3>3. pc[h] \in Uploading => SizeOf[local[h]] \in Nat
        BY <1>h, <1>s DEF At
      <3> QED BY <1>m, <3>2, <3>3
    <2>2. /\ SizesSum(Paying) \in Nat /\ SizesSum(Paying)' \in Nat
          /\ SizesSum(Paying)' <= SizesSum(Paying)
      <3>1. /\ SizesSum(Paying) \in Nat /\ SizesSum(Paying)' \in Nat
            /\ SizesSum(Paying)' = SizesSum(Paying)
                   - (IF pc[h] \in Paying THEN SizeOf[local[h]] ELSE 0)
                   + (IF loc \in Paying THEN SizeOf[i] ELSE 0)
        BY <1>m, <1>t, SizesMove
      <3>2. pc[h] \in Paying => SizeOf[local[h]] \in Nat
        BY <1>h, <1>s DEF At
      <3> QED BY <1>m, <3>1, <3>2
    <2>3. TotalSize(listed)' = TotalSize(listed) /\ balance' = balance /\ Further' = Further
      BY <1>m DEF TotalSize, Further
    <2> HIDE DEF Uploading, Paying
    <2> QED BY <1>n, <1>t, <2>1, <2>2, <2>3 DEF WithinBudget
  <1>1. ASSUME NEW h \in Handlers, NEW i \in Items, BeginUpload(h, i) PROVE WithinBudget'
    <2>1. Moved(h, "put_object", i) /\ pc[h] = "idle" /\ UNCHANGED <<listed, balance>> /\ WithinQuota(i)
      BY <1>1 DEF BeginUpload, Begin, At
    <2>2. SizesSum(Uploading)' = SizesSum(Uploading) + SizeOf[i] /\ SizesSum(Uploading) \in Nat
      BY <1>s, <1>t, <2>1, SizesMove
    <2>3. SizesSum(Paying)' = SizesSum(Paying) /\ SizesSum(Paying) \in Nat
      BY <1>s, <1>t, <2>1, SizesMove
    <2>4. SizesSum(Uploading) <= Further
      BY <1>t, <2>1, SizesOfOthers
    <2>5. TotalSize(listed)' = TotalSize(listed) /\ balance' = balance /\ Further' = Further
      BY <2>1 DEF TotalSize, Further
    <2>6. TotalSize(listed) + SizeOf[i] <= Quota
      BY <2>1 DEF WithinQuota
    <2> HIDE DEF Uploading, Paying
    <2> QED BY <1>n, <1>s, <1>t, <2>2, <2>3, <2>4, <2>5, <2>6 DEF WithinBudget
  <1>2. ASSUME NEW h \in Handlers, InsertItem(h) \/ DeleteItem(h) PROVE WithinBudget'
    <2>1. Moved(h, "idle", Nothing) /\ balance' = balance /\ local[h] \in Items
      BY <1>2, <1>h DEF InsertItem, DeleteItem, End, Leave, At
    <2>2. SizesSum(Paying)' = SizesSum(Paying) /\ SizesSum(Paying) \in Nat
      BY <1>2, <1>s, <1>t, <2>1, SizesMove DEF InsertItem, DeleteItem, At
    <2>3. /\ SizesSum(Uploading) \in Nat /\ SizesSum(Uploading)' \in Nat
          /\ TotalSize(listed)' \in Nat
          /\ TotalSize(listed)' + SizesSum(Uploading)' <= TotalSize(listed) + SizesSum(Uploading)
      <3>1. IsFiniteSet(listed)
        BY <1>t DEF FilesFit
      <3>2. CASE InsertItem(h)
        <4>1. /\ SizesSum(Uploading) \in Nat /\ SizesSum(Uploading)' \in Nat
              /\ SizesSum(Uploading)' = SizesSum(Uploading) - SizeOf[local[h]]
          BY <3>2, <1>s, <1>t, <2>1, SizesMove DEF InsertItem, At
        <4>2. TotalSize(listed)' \in Nat /\ TotalSize(listed)' <= TotalSize(listed) + SizeOf[local[h]]
          BY <3>1, <3>2, <1>t, <2>1, ListedHaveSize DEF InsertItem, TotalSize
        <4> HIDE DEF Uploading
        <4> QED BY <1>n, <1>s, <2>1, <4>1, <4>2
      <3>3. CASE DeleteItem(h)
        <4>1. SizesSum(Uploading) \in Nat /\ SizesSum(Uploading)' = SizesSum(Uploading)
          BY <3>3, <1>s, <1>t, <2>1, SizesMove DEF DeleteItem, At
        <4>2. TotalSize(listed)' \in Nat /\ TotalSize(listed)' <= TotalSize(listed)
          BY <3>1, <3>3, <1>t, <2>1, ListedHaveSize DEF DeleteItem, TotalSize
        <4> HIDE DEF Uploading
        <4> QED BY <1>n, <4>1, <4>2
      <3> QED BY <1>2, <3>2, <3>3
    <2>4. Further' = Further
      BY DEF Further
    <2> HIDE DEF Uploading, Paying
    <2> QED BY <1>n, <1>t, <2>1, <2>2, <2>3, <2>4 DEF WithinBudget
  <1>3. ASSUME NEW h \in Handlers, ReadBalance(h) PROVE WithinBudget'
    <2>1. CASE balance < SizeOf[local[h]]
      BY <1>3, <1>m, <2>1 DEF ReadBalance, End, Leave
    <2>2. CASE ~(balance < SizeOf[local[h]])
      <3>1. /\ Moved(h, "deduct", local[h]) /\ pc[h] = "read_balance" /\ UNCHANGED <<listed, balance>>
            /\ local[h] \in Items
        BY <1>3, <1>h, <2>2 DEF ReadBalance, Goto, Keep, At
      <3>2. SizesSum(Uploading)' = SizesSum(Uploading) /\ SizesSum(Uploading) \in Nat
        BY <1>s, <1>t, <3>1, SizesMove
      <3>3. SizesSum(Paying)' = SizesSum(Paying) + SizeOf[local[h]] /\ SizesSum(Paying) \in Nat
        BY <1>s, <1>t, <3>1, SizesMove
      <3>4. SizesSum(Paying) <= Further
        BY <1>t, <3>1, SizesOfOthers
      <3>5. TotalSize(listed)' = TotalSize(listed) /\ balance' = balance /\ Further' = Further
        BY <3>1 DEF TotalSize, Further
      <3> HIDE DEF Uploading, Paying
      <3> QED BY <1>n, <1>s, <1>t, <2>2, <3>1, <3>2, <3>3, <3>4, <3>5 DEF WithinBudget
    <2> QED BY <2>1, <2>2
  <1>4. ASSUME NEW h \in Handlers, Deduct(h) PROVE WithinBudget'
    <2>1. PICK loc \in {"put_copy", "update_item"} :
             /\ pc[h] = "deduct" /\ balance' = balance - SizeOf[local[h]] /\ listed' = listed
             /\ Moved(h, loc, local[h])
      BY <1>4 DEF Deduct, Goto, Keep, At
    <2>2. local[h] \in Items
      BY <1>h, <2>1 DEF At
    <2>3. SizesSum(Uploading)' = SizesSum(Uploading) /\ SizesSum(Uploading) \in Nat
      BY <1>s, <1>t, <2>1, SizesMove
    <2>4. SizesSum(Paying)' = SizesSum(Paying) - SizeOf[local[h]] /\ SizesSum(Paying) \in Nat
      <3>1. /\ SizesSum(Paying) \in Nat /\ SizesSum(Paying)' \in Nat
            /\ SizesSum(Paying)' = SizesSum(Paying)
                   - (IF pc[h] \in Paying THEN SizeOf[local[h]] ELSE 0)
                   + (IF loc \in Paying THEN SizeOf[local[h]] ELSE 0)
        BY <1>t, <2>1, <2>2, SizesMove
      <3> QED BY <1>s, <2>1, <2>2, <3>1
    <2>5. TotalSize(listed)' = TotalSize(listed) /\ Further' = Further
      BY <2>1 DEF TotalSize, Further
    <2> HIDE DEF Uploading, Paying
    <2> QED BY <1>n, <1>s, <1>t, <2>1, <2>2, <2>3, <2>4, <2>5 DEF WithinBudget
  <1>5. ASSUME NEW h \in Handlers,
               \/ \E i \in Items : BeginDelete(h, i) \/ BeginPublish(h, i)
               \/ PutObject(h) \/ DeleteObject(h) \/ PutCopy(h) \/ UpdateItem(h) \/ RefuseData(h)
               \/ DropVault(h)
        PROVE  WithinBudget'
    <2>1. UNCHANGED <<listed, balance>>
      BY <1>5 DEF BeginDelete, BeginPublish, PutObject, DeleteObject, PutCopy, UpdateItem, RefuseData,
           DropVault
    <2>2. PICK loc, i : /\ Moved(h, loc, i) /\ loc # "deduct"
                        /\ loc \in Uploading => pc[h] \in Uploading /\ i = local[h]
      <3>1. CASE \E i \in Items : BeginDelete(h, i) \/ BeginPublish(h, i)
        BY <3>1 DEF BeginDelete, BeginPublish, Begin
      <3>2. CASE PutObject(h) \/ DeleteObject(h) \/ PutCopy(h)
        BY <3>2 DEF PutObject, DeleteObject, PutCopy, Goto, Keep, At
      <3>3. CASE UpdateItem(h) \/ RefuseData(h) \/ DropVault(h)
        BY <3>3 DEF UpdateItem, RefuseData, DropVault, Dropped, End, Leave
      <3> QED BY <1>5, <3>1, <3>2, <3>3
    <2> QED BY <1>m, <2>1, <2>2
  <1> QED BY <1>0, <1>1, <1>2, <1>3, <1>4, <1>5 DEF VaultNext

\* Quota and balance are overrun only by requests that overlap, by one file or
\* one price for each further request.
THEOREM OverrunsByOverlap == VaultSpec => []OverrunByOverlap
  <1>1. RequestsInit /\ VaultInit => FilesFit /\ WithinBudget
    <2> SUFFICES ASSUME RequestsInit, VaultInit PROVE FilesFit /\ WithinBudget
      OBVIOUS
    <2>1. IsFiniteSet(Handlers) /\ Quota \in Nat /\ MaxSize \in Nat /\ Credits \in Nat
      BY VaultAssumption
    <2>2. PICK h \in Handlers : TRUE
      BY VaultAssumption
    <2>3. Cardinality(Handlers) - 1 \in Nat
      BY <2>1, <2>2, FS_EmptySet, FS_CardinalityType
    <2>4. FilesFit
      BY FS_EmptySet DEF RequestsInit, VaultInit, FilesFit, At
    <2>5. VaultTypeOK
      BY RequestsStart, VaultAssumption DEF VaultInit, VaultTypeOK
    <2>6. pc[h] \notin Uploading /\ pc[h] \notin Paying
      BY DEF RequestsInit, Uploading, Paying
    <2>7. TotalSize(listed) = 0 /\ balance = Credits
      BY SumOfNothing DEF VaultInit, TotalSize
    <2>8. ASSUME NEW locs, "idle" \notin locs PROVE SizesSum(locs) = 0
      <3>1. \A x \in Handlers : SizesAt(locs)[x] = 0
        BY <2>8 DEF SizesAt, RequestsInit
      <3>2. SumFunctionOnSet(SizesAt(locs), {}) = SumFunctionOnSet(SizesAt(locs), Handlers)
        BY <2>1, <3>1, SumOfPart
      <3> QED BY <3>2, SumOfNothing DEF SizesSum
    <2>9. SizesSum(Uploading) = 0 /\ SizesSum(Paying) = 0
      BY <2>8 DEF Uploading, Paying
    <2>10. Further \in Nat
      BY <2>1, <2>3 DEF Further
    <2> QED BY <2>1, <2>4, <2>7, <2>9, <2>10 DEF WithinBudget
  <1>2. BudgetInv => OverrunByOverlap
    <2> SUFFICES ASSUME BudgetInv PROVE OverrunByOverlap
      OBVIOUS
    <2>1. \A locs : "idle" \notin locs => SizesSum(locs) \in Nat
      <3> SUFFICES ASSUME NEW locs, "idle" \notin locs PROVE SizesSum(locs) \in Nat
        OBVIOUS
      <3>1. \A x \in Handlers : SizesAt(locs)[x] \in Nat
        BY VaultAssumption DEF SizesAt, BudgetInv, VaultTypeOK, RequestsTypeOK, At
      <3> QED BY <3>1, SumIsNat, VaultAssumption DEF SizesSum
    <2>2. SizesSum(Uploading) \in Nat /\ SizesSum(Paying) \in Nat
      BY <2>1 DEF Uploading, Paying
    <2>3. TotalSize(listed) \in Nat /\ balance \in Int /\ Quota \in Nat
      BY SumIsNat, VaultAssumption DEF BudgetInv, FilesFit, VaultTypeOK, TotalSize
    <2>4. Further \in Int
      <3>1. Cardinality(Handlers) \in Nat /\ MaxSize \in Nat
        BY VaultAssumption, FS_CardinalityType
      <3> QED BY <3>1 DEF Further
    <2>5. TotalSize(listed) <= Quota + Further /\ balance >= 0 - Further
      BY <2>2, <2>3, <2>4 DEF BudgetInv, WithinBudget
    <2> QED BY <2>5 DEF OverrunByOverlap, Further
  <1>3. VaultTypeOK /\ FilesFit /\ WithinBudget /\ [VaultNext]_vaultVars => FilesFit' /\ WithinBudget'
    BY FilesFitStep, WithinBudgetStep DEF BudgetInv
  <1> QED BY <1>1, <1>2, <1>3, VaultTypeCorrect, PTL DEF VaultSpec, BudgetInv

-----------------------------------------------------------------------------
(* Contents.                                                               *)

ContentShape ==
    /\ ContentTypeOK
    /\ \A h \in Handlers : ~At(h, "idle") => Page(h) \in Pages \/ pc[h] \in {"find_content", "insert_content"}

\* A step of request h: it ends, or it goes on with a row that it knows.
LEMMA ContentMoves ==
    ASSUME ContentShape, NEW h \in Handlers,
           \/ Leave(h) /\ faults' \in 0..MaxFaults
           \/ \E loc \in ContentLocations, p \in Pages \cup {Nothing}, t \in Texts :
                 /\ Keep(h, loc, Change(p, t))
                 /\ p \in Pages \/ loc \in {"find_content", "insert_content"},
           text' \in [Pages -> Texts \cup {Nothing}], saved' \in [Pages -> SUBSET Texts],
           newest' \in [Pages -> Texts \cup {Nothing}], crossed' \subseteq Pages, unsaved' \subseteq Pages
    PROVE  ContentShape'
  <1>t. RequestsTypeOK(ContentLocations, Changes)
    BY DEF ContentShape, ContentTypeOK
  <1>1. CASE Leave(h) /\ faults' \in 0..MaxFaults
    <2>1. RequestsTypeOK(ContentLocations, Changes)'
      BY <1>1, <1>t, LeaveType
    <2>2. pc'[h] = "idle" /\ \A g \in Handlers \ {h} : pc'[g] = pc[g] /\ local'[g] = local[g]
      BY <1>1, <1>t, OthersStay DEF Leave
    <2> QED BY <2>1, <2>2 DEF ContentShape, ContentTypeOK, At, Page
  <1>2. ASSUME NEW loc \in ContentLocations, NEW p \in Pages \cup {Nothing}, NEW t \in Texts,
               Keep(h, loc, Change(p, t)), p \in Pages \/ loc \in {"find_content", "insert_content"}
        PROVE  ContentShape'
    <2>1. Change(p, t) \in Changes /\ Change(p, t).page = p
      BY DEF Change, Changes
    <2>2. RequestsTypeOK(ContentLocations, Changes)'
      <3>1. faults' \in 0..MaxFaults
        BY <1>2, <1>t DEF Keep, RequestsTypeOK
      <3> QED BY <1>2, <1>t, <2>1, <3>1, MovedType DEF Keep
    <2>3. /\ pc'[h] = loc /\ local'[h] = Change(p, t)
          /\ \A g \in Handlers \ {h} : pc'[g] = pc[g] /\ local'[g] = local[g]
      BY <1>2, <1>t, OthersStay DEF Keep
    <2> QED BY <1>2, <2>1, <2>2, <2>3 DEF ContentShape, ContentTypeOK, At, Page
  <1> QED BY <1>1, <1>2

LEMMA ContentShapeStep == ASSUME ContentShape, [ContentNext]_contentVars PROVE ContentShape'
  <1> USE DEF contents, ContentLocations
  <1>t. /\ RequestsTypeOK(ContentLocations, Changes)
        /\ text \in [Pages -> Texts \cup {Nothing}] /\ saved \in [Pages -> SUBSET Texts]
        /\ newest \in [Pages -> Texts \cup {Nothing}] /\ crossed \subseteq Pages /\ unsaved \subseteq Pages
    BY DEF ContentShape, ContentTypeOK
  <1>l. \A h \in Handlers : ~At(h, "idle") =>
            /\ local[h] = Change(Page(h), Text(h)) /\ Page(h) \in Pages \cup {Nothing} /\ Text(h) \in Texts
            /\ Page(h) \in Pages \/ pc[h] \in {"find_content", "insert_content"}
    BY <1>t DEF RequestsTypeOK, Changes, Change, Page, Text, ContentShape
  <1>f. faults \in 0..MaxFaults
    BY <1>t DEF RequestsTypeOK
  <1>0. CASE UNCHANGED contentVars
    BY <1>0, RequestsStay DEF contentVars, requests, ContentShape, ContentTypeOK, At, Page
  <1>1. ASSUME NEW h \in Handlers, NEW t \in Texts, BeginCrawl(h, t) PROVE ContentShape'
    <2>1. Keep(h, "find_content", Change(Nothing, t)) /\ UNCHANGED contents
      BY <1>1 DEF BeginCrawl, Begin, Keep
    <2> QED BY <1>t, <2>1, ContentMoves
  <1>2. ASSUME NEW h \in Handlers, NEW t \in Texts, NEW p \in Pages, BeginEdit(h, p, t) PROVE ContentShape'
    <2>1. Keep(h, "edit_version", Change(p, t)) /\ UNCHANGED contents
      BY <1>2 DEF BeginEdit, Begin, Keep
    <2> QED BY <1>t, <2>1, ContentMoves
  <1>3. ASSUME NEW h \in Handlers, NEW p \in Pages, SetText(h, p), ~At(h, "idle") PROVE ContentShape'
    <2>1. Keep(h, "save_version", Change(p, Text(h))) /\ Text(h) \in Texts
      BY <1>3, <1>l DEF SetText
    <2>2. text' \in [Pages -> Texts \cup {Nothing}] /\ crossed' \subseteq Pages /\ UNCHANGED <<saved, newest, unsaved>>
      BY <1>3, <1>t, <2>1 DEF SetText
    <2> QED BY <1>t, <2>1, <2>2, ContentMoves
  <1>4. ASSUME NEW h \in Handlers, FindContent(h) PROVE ContentShape'
    <2>1. UNCHANGED contents /\ Text(h) \in Texts /\ local[h] = Change(Page(h), Text(h)) /\ Page(h) \in Pages \cup {Nothing}
      BY <1>4, <1>l DEF FindContent, At
    <2>2. \/ \E p \in Pages : Keep(h, "update_content", Change(p, Text(h)))
          \/ Keep(h, "insert_content", Change(Page(h), Text(h)))
      BY <1>4, <2>1 DEF FindContent, Rows, Goto
    <2> QED BY <1>t, <2>1, <2>2, ContentMoves
  <1>5. ASSUME NEW h \in Handlers, UpdateContent(h) \/ \E p \in Pages : InsertContent(h, p) PROVE ContentShape'
    <2>1. ~At(h, "idle") /\ \E p \in Pages : SetText(h, p)
      BY <1>5, <1>l DEF UpdateContent, InsertContent, At
    <2> QED BY <1>3, <2>1
  <1>6. ASSUME NEW h \in Handlers, SaveVersion(h) PROVE ContentShape'
    <2>1. Page(h) \in Pages /\ Text(h) \in Texts
      BY <1>6, <1>l DEF SaveVersion, At
    <2>2. Leave(h) /\ faults' \in 0..MaxFaults /\ UNCHANGED <<text, crossed, unsaved>>
      BY <1>6, <1>f DEF SaveVersion, End
    <2>3. saved' \in [Pages -> SUBSET Texts] /\ newest' \in [Pages -> Texts \cup {Nothing}]
      BY <1>6, <1>t, <2>1 DEF SaveVersion, Record
    <2> QED BY <1>t, <2>2, <2>3, ContentMoves
  <1>7. ASSUME NEW h \in Handlers, EditVersion(h) PROVE ContentShape'
    <2>1. Page(h) \in Pages /\ Text(h) \in Texts /\ local[h] = Change(Page(h), Text(h))
      BY <1>7, <1>l DEF EditVersion, At
    <2>2. Keep(h, "edit_content", Change(Page(h), Text(h))) /\ UNCHANGED <<text, unsaved>>
      BY <1>7, <2>1 DEF EditVersion, Goto
    <2>3. saved' \in [Pages -> SUBSET Texts] /\ newest' \in [Pages -> Texts \cup {Nothing}] /\ crossed' \subseteq Pages
      BY <1>7, <1>t, <2>1 DEF EditVersion, Record
    <2> QED BY <1>t, <2>1, <2>2, <2>3, ContentMoves
  <1>8. ASSUME NEW h \in Handlers, EditContent(h) PROVE ContentShape'
    <2>1. Page(h) \in Pages /\ Text(h) \in Texts
      BY <1>8, <1>l DEF EditContent, At
    <2>2. Leave(h) /\ faults' \in 0..MaxFaults /\ UNCHANGED <<saved, newest, crossed, unsaved>>
      BY <1>8, <1>f DEF EditContent, End
    <2>3. text' \in [Pages -> Texts \cup {Nothing}]
      BY <1>8, <1>t, <2>1 DEF EditContent
    <2> QED BY <1>t, <2>2, <2>3, ContentMoves
  <1>9. ASSUME NEW h \in Handlers, DropChange(h) PROVE ContentShape'
    <2>1. Leave(h) /\ faults' \in 0..MaxFaults /\ UNCHANGED <<text, saved, newest, crossed>> /\ unsaved' \subseteq Pages
      BY <1>9, <1>t, FaultType DEF DropChange, Dropped
    <2> QED BY <1>t, <2>1, ContentMoves
  <1> QED BY <1>0, <1>1, <1>2, <1>4, <1>5, <1>6, <1>7, <1>8, <1>9 DEF ContentNext

LEMMA ContentShapeInit == ASSUME RequestsInit, ContentInit PROVE ContentShape
  BY RequestsStart DEF ContentInit, ContentShape, ContentTypeOK, RequestsInit, At

\* The rows, the versions and the requests of a site have their types.
THEOREM ContentTypeCorrect == ContentSpec => []ContentTypeOK
  <1>1. ContentShape /\ [ContentNext]_contentVars => ContentShape'
    BY ContentShapeStep
  <1>2. ContentShape => ContentTypeOK
    BY DEF ContentShape
  <1> QED BY <1>1, <1>2, ContentShapeInit, PTL DEF ContentSpec

LEMMA ContentShapeAlways == ContentSpec => []ContentShape
  <1>1. ContentShape /\ [ContentNext]_contentVars => ContentShape'
    BY ContentShapeStep
  <1> QED BY <1>1, ContentShapeInit, PTL DEF ContentSpec

\* What holds of a row: its text is a version or about to be one, and a row
\* that no two changes crossed has one change, whose text was set or recorded.
RowHistory(p) ==
    /\ p \in Rows => \/ text[p] \in saved[p]
                     \/ \E h \in Changing(p) : At(h, "save_version") /\ Text(h) = text[p]
    /\ \A h \in Changing(p) : At(h, "edit_content") => Text(h) \in saved[p]
    /\ p \notin crossed =>
         /\ p \in Rows /\ Changing(p) = {} => text[p] = newest[p]
         /\ \A h \in Changing(p) :
              /\ At(h, "save_version") => text[p] = Text(h)
              /\ At(h, "edit_content") => newest[p] = Text(h)
              /\ \A g \in Changing(p) : g = h

HistoryInv == \A p \in Pages \ unsaved : RowHistory(p)

\* A step of another row's request, or outside of the two statements.
LEMMA RowHistoryStays ==
    ASSUME NEW p \in Pages, RowHistory(p), NEW h \in Handlers,
           \A g \in Handlers \ {h} : pc'[g] = pc[g] /\ local'[g] = local[g],
           h \notin Changing(p), h \notin Changing(p)',
           text'[p] = text[p], saved'[p] = saved[p], newest'[p] = newest[p],
           p \notin crossed' => p \notin crossed
    PROVE  RowHistory(p)'
  <1>1. Changing(p)' = Changing(p)
    BY DEF Changing, Page
  <1>2. \A g \in Changing(p) : pc'[g] = pc[g] /\ local'[g] = local[g]
    BY DEF Changing
  <1>3. p \in Rows' <=> p \in Rows
    BY DEF Rows
  <1> HIDE DEF Changing, Rows
  <1>4. \A g \in Changing(p) : Text(g)' = Text(g) /\ (\A loc : At(g, loc)' <=> At(g, loc))
    BY <1>2 DEF Text, At
  <1> QED BY <1>1, <1>3, <1>4 DEF RowHistory

LEMMA HistoryStep ==
    ASSUME ContentShape, HistoryInv, [ContentNext]_contentVars PROVE HistoryInv'
  <1> USE DEF contents
  <1>t. /\ RequestsTypeOK(ContentLocations, Changes)
        /\ text \in [Pages -> Texts \cup {Nothing}] /\ saved \in [Pages -> SUBSET Texts]
        /\ newest \in [Pages -> Texts \cup {Nothing}]
    BY DEF ContentShape, ContentTypeOK
  <1>l. \A h \in Handlers : ~At(h, "idle") =>
            /\ local[h] = Change(Page(h), Text(h)) /\ Text(h) \in Texts
            /\ Page(h) \in Pages \/ pc[h] \in {"find_content", "insert_content"}
    BY <1>t DEF RequestsTypeOK, Changes, Change, Page, Text, ContentShape
  <1>0. CASE UNCHANGED contentVars
    BY <1>0 DEF contentVars, requests, HistoryInv, RowHistory, Changing, Rows, Page, Text, At
  <1>m. ASSUME NEW h \in Handlers, NEW loc, NEW d, Moved(h, loc, d)
        PROVE  pc'[h] = loc /\ local'[h] = d /\ \A g \in Handlers \ {h} : pc'[g] = pc[g] /\ local'[g] = local[g]
    BY <1>m, <1>t, OthersStay
  \* A step that changes no row.
  <1>1. ASSUME NEW h \in Handlers, NEW loc, NEW d, Moved(h, loc, d), UNCHANGED contents,
               pc[h] \notin {"save_version", "edit_content"}, loc \notin {"save_version", "edit_content"}
        PROVE  HistoryInv'
    <2> SUFFICES ASSUME NEW p \in Pages, p \notin unsaved PROVE RowHistory(p)'
      BY <1>1 DEF HistoryInv
    <2>1. h \notin Changing(p) /\ h \notin Changing(p)'
      BY <1>1, <1>m DEF Changing
    <2> QED BY <1>1, <1>m, <2>1, RowHistoryStays DEF HistoryInv
  <1>2. ASSUME NEW h \in Handlers, NEW t \in Texts, BeginCrawl(h, t) \/ \E p \in Pages : BeginEdit(h, p, t)
        PROVE  HistoryInv'
    <2>1. PICK loc, d : loc \in {"find_content", "edit_version"} /\ At(h, "idle") /\ Moved(h, loc, d) /\ UNCHANGED contents
      BY <1>2 DEF BeginCrawl, BeginEdit, Begin
    <2> QED BY <1>1, <2>1 DEF At
  <1>3. ASSUME NEW h \in Handlers, FindContent(h) PROVE HistoryInv'
    <2>1. PICK loc, d : loc \in {"update_content", "insert_content"}
              /\ At(h, "find_content") /\ Moved(h, loc, d) /\ UNCHANGED contents
      BY <1>3 DEF FindContent, Keep, Goto
    <2> QED BY <1>1, <2>1 DEF At
  <1>4. ASSUME NEW h \in Handlers, NEW q \in Pages, SetText(h, q), ~At(h, "idle"),
               pc[h] \notin {"save_version", "edit_content"}
        PROVE  HistoryInv'
    <2> SUFFICES ASSUME NEW p \in Pages, p \notin unsaved PROVE RowHistory(p)'
      BY <1>4 DEF HistoryInv, SetText
    <2>r. RowHistory(p)
      BY DEF HistoryInv
    <2>1. /\ pc'[h] = "save_version" /\ local'[h] = Change(q, Text(h))
          /\ \A g \in Handlers \ {h} : pc'[g] = pc[g] /\ local'[g] = local[g]
      BY <1>4, <1>m DEF SetText, Keep
    <2>2. Page(h)' = q /\ Text(h)' = Text(h) /\ Text(h) \in Texts
      <3>1. Page(h)' = q /\ Text(h)' = Change(q, Text(h)).text
        BY <2>1 DEF Change, Page, Text
      <3>2. Change(q, Text(h)).text = Text(h)
        BY DEF Change
      <3> QED BY <1>4, <1>l, <3>1, <3>2
    <2>3. h \notin Changing(p)
      BY <1>4 DEF Changing
    <2>4. CASE p # q
      <3>1. h \notin Changing(p)'
        BY <2>2, <2>4 DEF Changing
      <3> QED BY <1>4, <1>t, <2>r, <2>1, <2>3, <2>4, <3>1, RowHistoryStays DEF SetText
    <2>5. CASE p = q
      <3>1. text'[p] = Text(h) /\ saved' = saved
        BY <1>4, <1>t, <2>5 DEF SetText
      <3>2. h \in Changing(p)' /\ At(h, "save_version")'
        BY <2>1, <2>2, <2>5 DEF Changing, At
      <3>3. \A g \in Changing(p)' : g # h => g \in Changing(p)
        BY <2>1 DEF Changing, Page
      <3>4. p \notin crossed' => Changing(p) = {}
        BY <1>4, <2>5 DEF SetText
      <3>5. \A g \in Changing(p)' : g # h /\ At(g, "edit_content")' => Text(g)' \in saved'[p]
        BY <2>r, <2>1, <3>1, <3>3 DEF RowHistory, Changing, At, Text
      <3>6. p \notin crossed' => \A g \in Changing(p)' : g = h
        BY <3>3, <3>4
      <3> QED BY <2>2, <3>1, <3>2, <3>5, <3>6 DEF RowHistory, At
    <2> QED BY <2>4, <2>5
  <1>5. ASSUME NEW h \in Handlers, UpdateContent(h) \/ \E p \in Pages : InsertContent(h, p) PROVE HistoryInv'
    <2>1. ~At(h, "idle") /\ pc[h] \notin {"save_version", "edit_content"} /\ \E p \in Pages : SetText(h, p)
      BY <1>5, <1>l DEF UpdateContent, InsertContent, At
    <2> QED BY <1>4, <2>1
  \* The versions of the row that h changes, and only they, get its text.
  <1>r. ASSUME NEW h \in Handlers, NEW p \in Pages, Record(h), Page(h) \in Pages
        PROVE  /\ saved[p] \subseteq saved'[p]
               /\ p # Page(h) => saved'[p] = saved[p] /\ newest'[p] = newest[p]
               /\ p = Page(h) => Text(h) \in saved'[p] /\ newest'[p] = Text(h)
    BY <1>t, <1>r DEF Record
  <1>6. ASSUME NEW h \in Handlers, SaveVersion(h) PROVE HistoryInv'
    <2> SUFFICES ASSUME NEW p \in Pages, p \notin unsaved PROVE RowHistory(p)'
      BY <1>6 DEF HistoryInv, SaveVersion
    <2>r. RowHistory(p)
      BY DEF HistoryInv
    <2>1. /\ pc'[h] = "idle" /\ pc[h] = "save_version" /\ text' = text /\ crossed' = crossed /\ Record(h)
          /\ \A g \in Handlers \ {h} : pc'[g] = pc[g] /\ local'[g] = local[g]
      BY <1>6, <1>m DEF SaveVersion, At, End, Leave
    <2>2. Page(h) \in Pages /\ h \notin Changing(p)'
      BY <1>l, <2>1 DEF Changing, At
    <2>3. CASE p # Page(h)
      <3>1. h \notin Changing(p)
        BY <2>3 DEF Changing
      <3> QED BY <1>r, <2>r, <2>1, <2>2, <2>3, <3>1, RowHistoryStays
    <2>4. CASE p = Page(h)
      <3>1. h \in Changing(p) /\ Changing(p)' = Changing(p) \ {h}
        BY <2>1, <2>4 DEF Changing, Page
      <3>2. \A g \in Changing(p)' : Text(g)' = Text(g) /\ (\A loc : At(g, loc)' <=> At(g, loc))
        BY <2>1, <3>1 DEF Text, At, Changing
      <3>3. saved[p] \subseteq saved'[p] /\ Text(h) \in saved'[p] /\ newest'[p] = Text(h)
        BY <1>r, <2>1, <2>2, <2>4
      <3>4. p \in Rows' <=> p \in Rows
        BY <2>1 DEF Rows
      <3>5. p \notin crossed => text[p] = Text(h) /\ Changing(p)' = {}
        BY <2>r, <2>1, <3>1 DEF RowHistory, At
      <3> HIDE DEF Changing, Rows
      <3> QED BY <2>r, <2>1, <3>1, <3>2, <3>3, <3>4, <3>5 DEF RowHistory
    <2> QED BY <2>3, <2>4
  <1>7. ASSUME NEW h \in Handlers, EditVersion(h) PROVE HistoryInv'
    <2> SUFFICES ASSUME NEW p \in Pages, p \notin unsaved PROVE RowHistory(p)'
      BY <1>7 DEF HistoryInv, EditVersion
    <2>r. RowHistory(p)
      BY DEF HistoryInv
    <2>1. /\ pc'[h] = "edit_content" /\ pc[h] = "edit_version" /\ local'[h] = local[h] /\ text' = text /\ Record(h)
          /\ \A g \in Handlers \ {h} : pc'[g] = pc[g] /\ local'[g] = local[g]
      BY <1>7, <1>m DEF EditVersion, At, Goto, Keep
    <2>2. Page(h) \in Pages /\ h \notin Changing(p) /\ Page(h)' = Page(h) /\ Text(h)' = Text(h)
      BY <1>l, <2>1 DEF Changing, At, Page, Text
    <2>3. CASE p # Page(h)
      <3>1. h \notin Changing(p)'
        BY <2>2, <2>3 DEF Changing
      <3> QED BY <1>7, <1>r, <2>r, <2>1, <2>2, <2>3, <3>1, RowHistoryStays DEF EditVersion
    <2>4. CASE p = Page(h)
      <3>1. Changing(p)' = Changing(p) \cup {h} /\ At(h, "edit_content")' /\ ~At(h, "save_version")'
        BY <2>1, <2>2, <2>4 DEF Changing, Page, At
      <3>2. \A g \in Changing(p) : Text(g)' = Text(g) /\ (\A loc : At(g, loc)' <=> At(g, loc))
        BY <2>1, <2>2 DEF Text, At, Changing
      <3>3. saved[p] \subseteq saved'[p] /\ Text(h) \in saved'[p] /\ newest'[p] = Text(h)
        BY <1>r, <2>1, <2>2, <2>4
      <3>4. p \in Rows' <=> p \in Rows
        BY <2>1 DEF Rows
      <3>5. p \notin crossed' => Changing(p) = {}
        BY <1>7, <2>4 DEF EditVersion
      <3> HIDE DEF Changing, Rows
      <3> QED BY <2>r, <2>1, <2>2, <3>1, <3>2, <3>3, <3>4, <3>5 DEF RowHistory
    <2> QED BY <2>3, <2>4
  <1>8. ASSUME NEW h \in Handlers, EditContent(h) PROVE HistoryInv'
    <2> SUFFICES ASSUME NEW p \in Pages, p \notin unsaved PROVE RowHistory(p)'
      BY <1>8 DEF HistoryInv, EditContent
    <2>r. RowHistory(p)
      BY DEF HistoryInv
    <2>1. /\ pc'[h] = "idle" /\ pc[h] = "edit_content" /\ UNCHANGED <<saved, newest, crossed>>
          /\ text' = [text EXCEPT ![Page(h)] = Text(h)]
          /\ \A g \in Handlers \ {h} : pc'[g] = pc[g] /\ local'[g] = local[g]
      BY <1>8, <1>m DEF EditContent, At, End, Leave
    <2>2. Page(h) \in Pages /\ h \notin Changing(p)'
      BY <1>l, <2>1 DEF Changing, At
    <2>3. CASE p # Page(h)
      <3>1. h \notin Changing(p) /\ text'[p] = text[p]
        BY <1>t, <2>1, <2>2, <2>3 DEF Changing
      <3> QED BY <2>r, <2>1, <2>2, <2>3, <3>1, RowHistoryStays
    <2>4. CASE p = Page(h)
      <3>1. h \in Changing(p) /\ Changing(p)' = Changing(p) \ {h}
        BY <2>1, <2>4 DEF Changing, Page
      <3>2. \A g \in Changing(p)' : Text(g)' = Text(g) /\ (\A loc : At(g, loc)' <=> At(g, loc))
        BY <2>1, <3>1 DEF Text, At, Changing
      <3>3. text'[p] = Text(h) /\ Text(h) \in saved[p]
        BY <1>t, <2>r, <2>1, <2>2, <2>4, <3>1 DEF RowHistory, At
      <3>4. p \notin crossed => newest[p] = Text(h) /\ Changing(p)' = {}
        BY <2>r, <2>1, <3>1 DEF RowHistory, At
      <3> HIDE DEF Changing, Rows
      <3> QED BY <2>r, <2>1, <3>1, <3>2, <3>3, <3>4 DEF RowHistory
    <2> QED BY <2>3, <2>4
  <1>9. ASSUME NEW h \in Handlers, DropChange(h) PROVE HistoryInv'
    <2>1. /\ pc'[h] = "idle" /\ UNCHANGED <<text, saved, newest, crossed>>
          /\ unsaved' = unsaved \cup {p \in Pages : h \in Changing(p)}
          /\ \A g \in Handlers \ {h} : pc'[g] = pc[g] /\ local'[g] = local[g]
      BY <1>9, <1>m DEF DropChange, Dropped, Leave
    <2> SUFFICES ASSUME NEW p \in Pages, p \notin unsaved' PROVE RowHistory(p)'
      BY DEF HistoryInv
    <2>2. h \notin Changing(p) /\ h \notin Changing(p)' /\ p \notin unsaved
      BY <2>1 DEF Changing
    <2> QED BY <2>1, <2>2, RowHistoryStays DEF HistoryInv
  <1> QED BY <1>0, <1>2, <1>3, <1>5, <1>6, <1>7, <1>8, <1>9 DEF ContentNext

\* However crawls and edits interleave, the text of a row is a version of it
\* or about to be one, and the newest one where no two changes crossed.
THEOREM ContentsHaveHistory == ContentSpec => []ContentHistory
  <1>1. RequestsInit /\ ContentInit => HistoryInv
    <2> SUFFICES ASSUME RequestsInit, ContentInit, NEW p \in Pages PROVE RowHistory(p)
      BY DEF HistoryInv
    <2>1. Changing(p) = {} /\ p \notin Rows
      BY DEF RequestsInit, ContentInit, Changing, Rows
    <2> QED BY <2>1 DEF RowHistory
  <1>2. ContentShape /\ HistoryInv /\ [ContentNext]_contentVars => HistoryInv'
    BY HistoryStep
  <1>3. HistoryInv => ContentHistory
    <2> SUFFICES ASSUME HistoryInv, NEW p \in Rows \ unsaved
                 PROVE  /\ text[p] \in saved[p]
                             \/ \E h \in Changing(p) : At(h, "save_version") /\ Text(h) = text[p]
                        /\ text[p] = newest[p] \/ p \in crossed \/ Changing(p) # {}
      BY DEF ContentHistory
    <2>1. p \in Pages /\ RowHistory(p)
      BY DEF Rows, HistoryInv
    <2> QED BY <2>1 DEF RowHistory
  <1> QED BY <1>1, <1>2, <1>3, ContentShapeAlways, PTL DEF ContentSpec

-----------------------------------------------------------------------------
(* Rows that are looked for in one statement and inserted in a later one.  *)

\* There is no row, or one for each request at most, with those that are
\* still to insert.
RowBound(R, I) == /\ IsFiniteSet(R) /\ I \subseteq Handlers
                  /\ R = {} \/ Cardinality(R) + Cardinality(I) <= Cardinality(Handlers)

LEMMA RowBoundShrinks ==
    ASSUME IsFiniteSet(Handlers), NEW R, NEW I, RowBound(R, I),
           NEW R2 \in SUBSET R, NEW I2 \in SUBSET I
    PROVE  RowBound(R2, I2)
  <1>1. IsFiniteSet(R2) /\ Cardinality(R2) <= Cardinality(R)
    BY FS_Subset DEF RowBound
  <1>2. IsFiniteSet(I) /\ IsFiniteSet(I2) /\ Cardinality(I2) <= Cardinality(I)
    <2>1. IsFiniteSet(I)
      BY FS_Subset DEF RowBound
    <2> QED BY <2>1, FS_Subset
  <1>3. /\ Cardinality(R) \in Nat /\ Cardinality(R2) \in Nat /\ Cardinality(I) \in Nat
        /\ Cardinality(I2) \in Nat /\ Cardinality(Handlers) \in Nat
    BY <1>1, <1>2, FS_CardinalityType DEF RowBound
  <1>4. I2 \subseteq Handlers
    BY DEF RowBound
  <1>5. CASE R = {}
    BY <1>1, <1>4, <1>5 DEF RowBound
  <1>6. CASE R # {}
    BY <1>1, <1>2, <1>3, <1>4, <1>6 DEF RowBound
  <1> QED BY <1>5, <1>6

LEMMA RowBoundInserts ==
    ASSUME IsFiniteSet(Handlers), NEW R, NEW I, RowBound(R, I), NEW h \in I, NEW x
    PROVE  RowBound(R \cup {x}, I \ {h})
  <1>1. /\ IsFiniteSet(I) /\ Cardinality(I) <= Cardinality(Handlers)
        /\ Cardinality(I) \in Nat /\ Cardinality(Handlers) \in Nat
    BY FS_Subset, FS_CardinalityType DEF RowBound
  <1>2. IsFiniteSet(I \ {h}) /\ Cardinality(I \ {h}) = Cardinality(I) - 1
    BY <1>1, FS_RemoveElement
  <1>3. /\ IsFiniteSet(R \cup {x}) /\ Cardinality(R) \in Nat
        /\ Cardinality(R \cup {x}) <= Cardinality(R) + 1 /\ Cardinality(R \cup {x}) \in Nat
    <2>1. IsFiniteSet(R) /\ Cardinality(R) \in Nat
      BY FS_CardinalityType DEF RowBound
    <2>2. IsFiniteSet(R \cup {x}) /\ Cardinality(R \cup {x}) \in {Cardinality(R), Cardinality(R) + 1}
      BY <2>1, FS_AddElement
    <2> QED BY <2>1, <2>2
  <1>4. I \ {h} \subseteq Handlers
    BY DEF RowBound
  <1>5. CASE R = {}
    <2>1. Cardinality(R) = 0
      BY <1>5, FS_EmptySet
    <2> QED BY <1>1, <1>2, <1>3, <1>4, <2>1 DEF RowBound
  <1>6. CASE R # {}
    <2>1. Cardinality(R) + Cardinality(I) <= Cardinality(Handlers)
      BY <1>6 DEF RowBound
    <2> QED BY <1>1, <1>2, <1>3, <1>4, <2>1 DEF RowBound
  <1> QED BY <1>5, <1>6

LEMMA RowBoundLimits ==
    ASSUME IsFiniteSet(Handlers), NEW R, NEW I, RowBound(R, I)
    PROVE  Cardinality(R) <= Cardinality(Handlers)
  <1>1. IsFiniteSet(I) /\ Cardinality(I) \in Nat /\ Cardinality(Handlers) \in Nat /\ Cardinality(R) \in Nat
    BY FS_Subset, FS_CardinalityType DEF RowBound
  <1>2. R = {} => Cardinality(R) = 0
    BY FS_EmptySet
  <1> QED BY <1>1, <1>2 DEF RowBound

-----------------------------------------------------------------------------
(* Contacts.                                                               *)

Inserts == {h \in Handlers : At(h, "insert_contact")}
ContactsInv == ContactsTypeOK /\ BlockHolds /\ RowBound(ContactRows, Inserts)

LEMMA ContactsStep ==
    ASSUME ContactsInv, [ContactsNext]_contactVars PROVE ContactsInv'
  <1> USE DEF contacts
  <1>t. /\ RequestsTypeOK({"insert_contact"}, Users)
        /\ pair \in [ContactIds -> [from : Users \cup {Nothing}, status : Statuses]]
        /\ \A i \in ContactIds : pair[i].from = Nothing <=> pair[i].status = "none"
        /\ blockers \subseteq ContactIds
    BY DEF ContactsInv, ContactsTypeOK
  <1>b. \A i \in ContactRows \cap blockers : pair[i].status = "blocked"
    BY DEF ContactsInv, BlockHolds
  <1>n. NoRow = [from |-> Nothing, status |-> "none"] /\ NoRow.from = Nothing /\ NoRow.status = "none"
    BY DEF NoRow
  <1>r. \A i \in ContactIds : i \in ContactRows <=> pair[i].from \in Users
    <2>1. \A i \in ContactIds : pair[i] = NoRow <=> pair[i].from = Nothing
      BY <1>t, <1>n
    <2> QED BY <1>t, <2>1, ContactsAssumption DEF ContactRows
  <1>f. IsFiniteSet(Handlers) /\ RowBound(ContactRows, Inserts) /\ faults \in 0..MaxFaults
    BY <1>t, ContactsAssumption DEF ContactsInv, RequestsTypeOK
  \* A statement on row i, which keeps the types and the blocks.
  <1>s. ASSUME NEW i \in ContactIds, NEW row \in [from : Users \cup {Nothing}, status : Statuses],
               row.from = Nothing <=> row.status = "none",
               pair' = [pair EXCEPT ![i] = row],
               \/ blockers' = blockers /\ (i \in blockers => row = NoRow \/ row.status = "blocked")
               \/ blockers' = blockers \cup {i} /\ row.status = "blocked"
        PROVE  /\ pair' \in [ContactIds -> [from : Users \cup {Nothing}, status : Statuses]]
               /\ \A j \in ContactIds : pair'[j].from = Nothing <=> pair'[j].status = "none"
               /\ blockers' \subseteq ContactIds
               /\ BlockHolds'
               /\ ContactRows' \subseteq ContactRows \cup {i}
               /\ row = NoRow => ContactRows' \subseteq ContactRows
    <2>1. pair'[i] = row /\ \A j \in ContactIds \ {i} : pair'[j] = pair[j]
      BY <1>t, <1>s
    <2>2. \A j \in ContactIds \ {i} : j \in ContactRows' <=> j \in ContactRows
      BY <2>1 DEF ContactRows
    <2>3. BlockHolds'
      <3> SUFFICES ASSUME NEW j \in ContactIds, j \in ContactRows', j \in blockers' PROVE pair'[j].status = "blocked"
        BY DEF BlockHolds, ContactRows
      <3>1. CASE j = i
        BY <1>s, <2>1, <3>1 DEF ContactRows
      <3>2. CASE j # i
        BY <1>s, <1>b, <2>1, <2>2, <3>2
      <3> QED BY <3>1, <3>2
    <2>4. pair' \in [ContactIds -> [from : Users \cup {Nothing}, status : Statuses]]
      BY <1>s, <1>t
    <2>5. ContactRows' \subseteq ContactRows \cup {i} /\ (row = NoRow => ContactRows' \subseteq ContactRows)
      BY <2>1, <2>2 DEF ContactRows
    <2>6. \A j \in ContactIds : pair'[j].from = Nothing <=> pair'[j].status = "none"
      BY <1>s, <1>t, <2>1
    <2> QED BY <1>s, <1>t, <2>3, <2>4, <2>5, <2>6
  <1>0. CASE UNCHANGED contactVars
    <2>1. UNCHANGED <<requests, pair, blockers>>
      BY <1>0 DEF contactVars
    <2> QED BY <2>1, RequestsStay DEF requests, ContactsInv, ContactsTypeOK, BlockHolds, ContactRows, Inserts, At, RowBound
  <1>1. ASSUME NEW h \in Handlers, NEW u \in Users, BeginInvite(h, u) PROVE ContactsInv'
    <2>1. Moved(h, "insert_contact", u) /\ UNCHANGED <<pair, blockers, faults>> /\ RelatedRows(u) = {}
      BY <1>1 DEF BeginInvite, Begin
    <2>2. RequestsTypeOK({"insert_contact"}, Users)'
      BY <1>t, <1>f, <2>1, MovedType
    <2>3. ContactRows = {} /\ ContactRows' = {}
      BY <1>r, <2>1 DEF RelatedRows, ContactRows
    <2>4. RowBound(ContactRows', Inserts')
      BY <2>3, FS_EmptySet DEF RowBound, Inserts
    <2> QED BY <1>t, <2>1, <2>2, <2>3, <2>4 DEF ContactsInv, ContactsTypeOK, BlockHolds
  <1>2. ASSUME NEW h \in Handlers, NEW i \in ContactIds, InsertContact(h, i) PROVE ContactsInv'
    <2>1. /\ pc[h] = "insert_contact" /\ Moved(h, "idle", Nothing) /\ UNCHANGED <<faults, blockers>>
          /\ i \notin blockers /\ pair' = [pair EXCEPT ![i] = [from |-> local[h], status |-> "pending"]]
      BY <1>2 DEF InsertContact, End, Leave, At
    <2>2. local[h] \in Users
      BY <1>t, <2>1 DEF RequestsTypeOK, At
    <2>3. RequestsTypeOK({"insert_contact"}, Users)'
      BY <1>2, <1>t, <1>f, LeaveType DEF InsertContact, End
    <2>4. Inserts' = Inserts \ {h} /\ h \in Inserts
      BY <1>t, <2>1, OthersStay DEF Inserts, At
    <2>5. RowBound(ContactRows \cup {i}, Inserts')
      BY <1>f, <2>4, RowBoundInserts
    <2> DEFINE row == [from |-> local[h], status |-> "pending"]
    <2>6. row \in [from : Users \cup {Nothing}, status : Statuses] /\ row.from # Nothing /\ row.status = "pending"
      BY <2>2, ContactsAssumption DEF Statuses
    <2> HIDE DEF row
    <2>7. /\ pair' \in [ContactIds -> [from : Users \cup {Nothing}, status : Statuses]]
          /\ \A j \in ContactIds : pair'[j].from = Nothing <=> pair'[j].status = "none"
          /\ blockers' \subseteq ContactIds /\ BlockHolds' /\ ContactRows' \subseteq ContactRows \cup {i}
      BY <1>s, <2>1, <2>6 DEF row
    <2>8. RowBound(ContactRows', Inserts')
      BY <1>f, <2>5, <2>7, RowBoundShrinks
    <2> QED BY <2>3, <2>7, <2>8 DEF ContactsInv, ContactsTypeOK
  <1>3. ASSUME NEW h \in Handlers, DropInvite(h) PROVE ContactsInv'
    <2>1. Leave(h) /\ Fault /\ UNCHANGED <<pair, blockers>>
      BY <1>3 DEF DropInvite, Dropped
    <2>2. RequestsTypeOK({"insert_contact"}, Users)'
      BY <1>t, <2>1, FaultType, LeaveType
    <2>3. Inserts' \subseteq Inserts
      BY <1>t, <2>1, OthersStay DEF Inserts, At, Leave
    <2>4. ContactRows' = ContactRows
      BY <2>1 DEF ContactRows
    <2>5. RowBound(ContactRows', Inserts')
      BY <1>f, <2>3, <2>4, RowBoundShrinks
    <2> QED BY <1>t, <1>b, <2>1, <2>2, <2>4, <2>5 DEF ContactsInv, ContactsTypeOK, BlockHolds
  <1>4. ASSUME NEW i \in ContactIds, Block(i) \/ Remove(i) \/ \E u \in Users : Accept(i, u) \/ Reject(i, u)
        PROVE  ContactsInv'
    <2>1. UNCHANGED requests
      BY <1>4 DEF Block, Remove, Accept, Reject
    <2>2. RequestsTypeOK({"insert_contact"}, Users)' /\ Inserts' = Inserts
      BY <1>t, <2>1, RequestsStay DEF requests, Inserts, At
    <2>3. i \in ContactRows
      BY <1>4, <1>n DEF Block, Remove, Accept, Reject, Pending, ContactRows
    <2>4. ASSUME NEW row \in [from : Users \cup {Nothing}, status : Statuses],
                 row.from = Nothing <=> row.status = "none",
                 pair' = [pair EXCEPT ![i] = row],
                 \/ blockers' = blockers /\ (i \in blockers => row = NoRow \/ row.status = "blocked")
                 \/ blockers' = blockers \cup {i} /\ row.status = "blocked"
          PROVE  ContactsInv'
      <3>1. /\ pair' \in [ContactIds -> [from : Users \cup {Nothing}, status : Statuses]]
            /\ \A j \in ContactIds : pair'[j].from = Nothing <=> pair'[j].status = "none"
            /\ blockers' \subseteq ContactIds /\ BlockHolds' /\ ContactRows' \subseteq ContactRows
        BY <1>s, <2>3, <2>4
      <3>2. RowBound(ContactRows', Inserts')
        BY <1>f, <2>2, <3>1, RowBoundShrinks
      <3> QED BY <2>2, <3>1, <3>2 DEF ContactsInv, ContactsTypeOK
    <2>5. CASE pair' = [pair EXCEPT ![i] = NoRow] /\ blockers' = blockers
      <3>1. NoRow \in [from : Users \cup {Nothing}, status : Statuses]
        BY DEF NoRow, Statuses
      <3> QED BY <1>n, <2>4, <2>5, <3>1
    <2>6. ASSUME NEW s \in {"accepted", "blocked"}, pair' = [pair EXCEPT ![i].status = s],
                 \/ s = "accepted" /\ blockers' = blockers /\ pair[i].status = "pending"
                 \/ s = "blocked" /\ blockers' = blockers \cup {i}
          PROVE  ContactsInv'
      <3> DEFINE row == [pair[i] EXCEPT !.status = s]
      <3>1. pair[i] \in [from : Users \cup {Nothing}, status : Statuses] /\ pair[i].from # Nothing
        BY <1>t, <1>r, <2>3, ContactsAssumption
      <3>2. row \in [from : Users \cup {Nothing}, status : Statuses] /\ row.from = pair[i].from /\ row.status = s
        BY <3>1 DEF Statuses
      <3>3. pair' = [pair EXCEPT ![i] = row]
        BY <2>6
      <3>4. s = "accepted" => i \notin blockers
        BY <1>b, <2>3, <2>6
      <3> HIDE DEF row
      <3> QED BY <2>4, <2>6, <3>1, <3>2, <3>3, <3>4
    <2>7. CASE Block(i)
      BY <2>6, <2>7 DEF Block
    <2>8. ASSUME NEW u \in Users, Accept(i, u) PROVE ContactsInv'
      BY <2>6, <2>8 DEF Accept, Pending
    <2> QED BY <1>4, <2>5, <2>7, <2>8 DEF Remove, Reject
  <1> QED BY <1>0, <1>1, <1>2, <1>3, <1>4 DEF ContactsNext

LEMMA ContactsAlways == ContactsSpec => []ContactsInv
  <1>1. ASSUME RequestsInit, ContactsInit PROVE ContactsInv
    <2>1. ContactRows = {}
      BY <1>1 DEF ContactsInit, ContactRows
    <2>2. RequestsTypeOK({"insert_contact"}, Users)
      BY <1>1, RequestsStart
    <2>3. pair \in [ContactIds -> [from : Users \cup {Nothing}, status : Statuses]]
          /\ (\A i \in ContactIds : pair[i].from = Nothing <=> pair[i].status = "none") /\ blockers = {}
      BY <1>1 DEF ContactsInit, NoRow, Statuses
    <2> QED BY <2>1, <2>2, <2>3, FS_EmptySet DEF ContactsInv, ContactsTypeOK, BlockHolds, RowBound, Inserts
  <1>2. ContactsInv /\ [ContactsNext]_contactVars => ContactsInv'
    BY ContactsStep
  <1> QED BY <1>1, <1>2, PTL DEF ContactsSpec

\* The rows of two users and the invitations have their types, and a row that
\* was blocked stays so.
THEOREM BlocksHold == ContactsSpec => [](ContactsTypeOK /\ BlockHolds)
  <1>1. ContactsInv => ContactsTypeOK /\ BlockHolds
    BY DEF ContactsInv
  <1> QED BY <1>1, ContactsAlways, PTL

\* Two users have at most one row for every request under way at once.
THEOREM RowsBoundedByInvites == ContactsSpec => []RowPerInvite
  <1>1. ContactsInv => RowPerInvite
    BY ContactsAssumption, RowBoundLimits DEF ContactsInv, RowPerInvite
  <1> QED BY <1>1, ContactsAlways, PTL

-----------------------------------------------------------------------------
(* The rows of a site.                                                     *)

FirstCrawls == {h \in Handlers : At(h, "insert_content")}

\* A request past its first statement has a row, unless it is to insert one.
KnowsRow(h) == pc[h] \in {"idle", "find_content", "insert_content"} \/ Page(h) \in Rows

CrawlInv == RowBound(Rows, FirstCrawls) /\ \A h \in Handlers : KnowsRow(h)

LEMMA CrawlStep ==
    ASSUME ContentShape, CrawlInv, [ContentNext]_contentVars PROVE CrawlInv'
  <1> USE DEF contents
  <1>t. RequestsTypeOK(ContentLocations, Changes) /\ IsFiniteSet(Handlers) /\ RowBound(Rows, FirstCrawls)
    BY ContentsAssumption DEF ContentShape, ContentTypeOK, CrawlInv
  <1>x. text \in [Pages -> Texts \cup {Nothing}] /\ Nothing \notin Texts
    BY ContentsAssumption DEF ContentShape, ContentTypeOK
  <1>l. \A h \in Handlers : ~At(h, "idle") => Text(h) \in Texts
    BY <1>t DEF RequestsTypeOK, Changes, Text
  <1>m. ASSUME NEW h \in Handlers, NEW loc, NEW d, Moved(h, loc, d)
        PROVE  pc'[h] = loc /\ local'[h] = d /\ \A g \in Handlers \ {h} : pc'[g] = pc[g] /\ local'[g] = local[g]
    BY <1>m, <1>t, OthersStay
  \* The other requests keep their rows, which do not vanish.
  <1>k. ASSUME NEW h \in Handlers, NEW loc, NEW d, Moved(h, loc, d), Rows \subseteq Rows',
               loc \in {"idle", "find_content", "insert_content"} \/ d.page \in Rows'
        PROVE  \A g \in Handlers : KnowsRow(g)'
    <2>1. KnowsRow(h)'
      BY <1>k, <1>m DEF KnowsRow, Page
    <2>2. \A g \in Handlers \ {h} : KnowsRow(g)'
      <3>1. \A g \in Handlers \ {h} : KnowsRow(g)
        BY DEF CrawlInv
      <3> HIDE DEF Rows
      <3> QED BY <1>k, <1>m, <3>1 DEF KnowsRow, Page
    <2> QED BY <2>1, <2>2
  \* A step that inserts no row and looks for none.
  <1>s. ASSUME NEW h \in Handlers, NEW loc, NEW d, Moved(h, loc, d), loc # "insert_content", Rows' = Rows,
               loc \in {"idle", "find_content"} \/ d.page \in Rows
        PROVE  CrawlInv'
    <2>1. FirstCrawls' \subseteq FirstCrawls
      BY <1>m, <1>s DEF FirstCrawls, At
    <2>2. RowBound(Rows', FirstCrawls')
      BY <1>t, <1>s, <2>1, RowBoundShrinks
    <2>3. \A g \in Handlers : KnowsRow(g)'
      BY <1>k, <1>s
    <2> QED BY <2>2, <2>3 DEF CrawlInv
  <1>0. CASE UNCHANGED contentVars
    <2>1. Rows' = Rows /\ FirstCrawls' = FirstCrawls /\ \A h \in Handlers : KnowsRow(h)' <=> KnowsRow(h)
      BY <1>0 DEF contentVars, requests, Rows, FirstCrawls, At, KnowsRow, Page
    <2> QED BY <1>t, <2>1 DEF CrawlInv
  <1>1. ASSUME NEW h \in Handlers, NEW t \in Texts, BeginCrawl(h, t) PROVE CrawlInv'
    BY <1>1, <1>s DEF BeginCrawl, Begin, Rows
  <1>2. ASSUME NEW h \in Handlers, NEW t \in Texts, NEW p \in Pages, BeginEdit(h, p, t) PROVE CrawlInv'
    BY <1>2, <1>s DEF BeginEdit, Begin, Change, Rows
  <1>3. ASSUME NEW h \in Handlers, FindContent(h) PROVE CrawlInv'
    <2>0. Rows' = Rows
      BY <1>3 DEF FindContent, Rows
    <2>1. ASSUME NEW p \in Rows, Keep(h, "update_content", Change(p, Text(h))) PROVE CrawlInv'
      BY <2>0, <2>1, <1>s DEF Keep, Change
    <2>2. CASE Rows = {} /\ Goto(h, "insert_content")
      <3>1. RowBound(Rows', FirstCrawls')
        BY <2>0, <2>2, FS_EmptySet DEF RowBound, FirstCrawls
      <3>2. \A g \in Handlers : KnowsRow(g)'
        BY <2>0, <2>2, <1>k DEF Goto, Keep
      <3> QED BY <3>1, <3>2 DEF CrawlInv
    <2> QED BY <1>3, <2>1, <2>2 DEF FindContent
  <1>4. ASSUME NEW h \in Handlers, NEW p \in Pages, InsertContent(h, p) PROVE CrawlInv'
    <2>1. h \in FirstCrawls /\ Moved(h, "save_version", Change(p, Text(h))) /\ Text(h) \in Texts
      BY <1>4, <1>l DEF InsertContent, SetText, Keep, FirstCrawls, At
    <2>2. FirstCrawls' = FirstCrawls \ {h}
      BY <1>m, <2>1 DEF FirstCrawls, At
    <2>3. Rows' = Rows \cup {p}
      BY <1>4, <1>x, <2>1 DEF InsertContent, SetText, Rows
    <2>4. RowBound(Rows \cup {p}, FirstCrawls')
      BY <1>t, <2>1, <2>2, RowBoundInserts
    <2>5. \A g \in Handlers : KnowsRow(g)'
      BY <1>k, <2>1, <2>3 DEF Change
    <2> QED BY <2>3, <2>4, <2>5 DEF CrawlInv
  \* A statement on the row that the request knows.
  <1>5. ASSUME NEW h \in Handlers, pc[h] \in {"update_content", "save_version", "edit_version", "edit_content"},
               text' \in {text, [text EXCEPT ![Page(h)] = Text(h)]}
        PROVE  Page(h) \in Rows /\ Rows' = Rows
    <2>1. Page(h) \in Rows /\ Text(h) \in Texts
      BY <1>5, <1>l DEF CrawlInv, KnowsRow, At
    <2> QED BY <1>5, <1>x, <2>1 DEF Rows
  <1>6. ASSUME NEW h \in Handlers, UpdateContent(h) PROVE CrawlInv'
    <2>1. Page(h) \in Rows /\ Rows' = Rows
      BY <1>5, <1>6 DEF UpdateContent, SetText, At
    <2> QED BY <1>6, <1>s, <2>1 DEF UpdateContent, SetText, Keep, Change
  <1>7. ASSUME NEW h \in Handlers, EditVersion(h) PROVE CrawlInv'
    <2>1. Page(h) \in Rows /\ Rows' = Rows
      BY <1>5, <1>7 DEF EditVersion, At
    <2> QED BY <1>7, <1>s, <2>1 DEF EditVersion, Goto, Keep, Page
  <1>8. ASSUME NEW h \in Handlers, SaveVersion(h) \/ EditContent(h) PROVE CrawlInv'
    <2>1. Rows' = Rows
      BY <1>5, <1>8 DEF SaveVersion, EditContent, At
    <2> QED BY <1>8, <1>s, <2>1 DEF SaveVersion, EditContent, End, Leave
  <1>9. ASSUME NEW h \in Handlers, DropChange(h) PROVE CrawlInv'
    BY <1>9, <1>s DEF DropChange, Dropped, Leave, Rows
  <1> QED BY <1>0, <1>1, <1>2, <1>3, <1>4, <1>6, <1>7, <1>8, <1>9 DEF ContentNext

\* A site has at most one row for every crawl under way at once.
THEOREM RowsBoundedByCrawls == ContentSpec => []RowPerCrawl
  <1>1. RequestsInit /\ ContentInit => CrawlInv
    <2> SUFFICES ASSUME RequestsInit, ContentInit PROVE CrawlInv
      OBVIOUS
    <2>1. Rows = {} /\ \A h \in Handlers : KnowsRow(h)
      BY DEF RequestsInit, ContentInit, Rows, KnowsRow
    <2> QED BY <2>1, FS_EmptySet DEF CrawlInv, RowBound, FirstCrawls
  <1>2. ContentShape /\ CrawlInv /\ [ContentNext]_contentVars => CrawlInv'
    BY CrawlStep
  <1>3. CrawlInv => RowPerCrawl
    BY ContentsAssumption, RowBoundLimits DEF CrawlInv, RowPerCrawl
  <1> QED BY <1>1, <1>2, <1>3, ContentShapeAlways, PTL DEF ContentSpec

-----------------------------------------------------------------------------
(* Embeds.                                                                 *)

LEMMA EmbedsTypeStep ==
    ASSUME EmbedsTypeOK, [EmbedsNext]_embedVars PROVE EmbedsTypeOK'
  <1> USE DEF embeds, EmbedLocations
  <1>t. /\ RequestsTypeOK(EmbedLocations, Embeddings)
        /\ day \in Days /\ usage \in [Days -> Nat] /\ embedded \in [Days -> Nat]
        /\ misread \in [Days -> Nat] /\ uncounted \in [Days -> Nat]
        /\ total \in Nat /\ unstated \in Nat
    BY DEF EmbedsTypeOK
  <1>f. faults \in 0..MaxFaults
    BY <1>t DEF RequestsTypeOK
  <1>d. Days \subseteq Nat /\ Lengths \subseteq Nat
    BY EmbedsAssumption DEF Days
  <1>l. ASSUME NEW h \in Handlers, ~At(h, "idle")
        PROVE  local[h] \in Embeddings /\ Length(h) \in Nat /\ KeyDay(h) \in Days
    BY <1>l, <1>t, <1>d DEF RequestsTypeOK, Embeddings, Length, KeyDay
  <1>0. CASE UNCHANGED embedVars
    BY <1>0, RequestsStay DEF embedVars, requests, EmbedsTypeOK
  <1>1. ASSUME NEW h \in Handlers, NEW n \in Lengths, BeginEmbed(h, n) PROVE EmbedsTypeOK'
    <2>1. Embedding(n, day) \in Embeddings
      BY <1>t DEF Embedding, Embeddings
    <2>2. RequestsTypeOK(EmbedLocations, Embeddings)'
      BY <1>1, <1>t, <1>f, <2>1, MovedType DEF BeginEmbed, Begin
    <2> QED BY <1>1, <1>t, <2>2 DEF BeginEmbed, EmbedsTypeOK
  \* A statement of a request, which then goes on or ends.
  <1>r. ASSUME NEW h \in Handlers, ~At(h, "idle"), UNCHANGED faults \/ Fault,
               Leave(h) \/ \E loc \in {"incrby", "stats", "insert_job"} : Moved(h, loc, local[h])
        PROVE  RequestsTypeOK(EmbedLocations, Embeddings)'
    <2>1. faults' \in 0..MaxFaults
      BY <1>r, <1>t, <1>f, FaultType
    <2> QED BY <1>l, <1>r, <1>t, <2>1, MovedType, LeaveType
  <1>2. ASSUME NEW h \in Handlers, GetUsage(h) \/ MisreadUsage(h) PROVE EmbedsTypeOK'
    <2>1. RequestsTypeOK(EmbedLocations, Embeddings)'
      BY <1>2, <1>r DEF GetUsage, MisreadUsage, At, Goto, Keep, End
    <2>2. KeyDay(h) \in Days
      BY <1>2, <1>l DEF GetUsage, MisreadUsage, At
    <2> QED BY <1>2, <1>t, <2>1, <2>2 DEF GetUsage, MisreadUsage, EmbedsTypeOK
  <1>3. ASSUME NEW h \in Handlers, IncrBy(h) \/ IncrByFails(h) PROVE EmbedsTypeOK'
    <2>1. RequestsTypeOK(EmbedLocations, Embeddings)'
      BY <1>3, <1>r DEF IncrBy, IncrByFails, At, Goto, Keep
    <2>2. KeyDay(h) \in Days /\ Length(h) \in Nat
      BY <1>3, <1>l DEF IncrBy, IncrByFails, At
    <2> QED BY <1>3, <1>t, <2>1, <2>2 DEF IncrBy, IncrByFails, EmbedsTypeOK
  <1>4. ASSUME NEW h \in Handlers, UpdateStats(h) \/ StatsFail(h) \/ InsertEmbedJob(h) PROVE EmbedsTypeOK'
    <2>1. RequestsTypeOK(EmbedLocations, Embeddings)'
      BY <1>4, <1>r DEF UpdateStats, StatsFail, InsertEmbedJob, At, Goto, Keep, End
    <2>2. KeyDay(h) \in Days /\ Length(h) \in Nat
      BY <1>4, <1>l DEF UpdateStats, StatsFail, InsertEmbedJob, At
    <2> QED BY <1>4, <1>t, <2>1, <2>2 DEF UpdateStats, StatsFail, InsertEmbedJob, EmbedsTypeOK
  <1>5. ASSUME NEW h \in Handlers, DropEmbed(h) PROVE EmbedsTypeOK'
    <2>1. RequestsTypeOK(EmbedLocations, Embeddings)'
      BY <1>5, <1>r DEF DropEmbed, Dropped
    <2> QED BY <1>5, <1>t, <2>1 DEF DropEmbed, EmbedsTypeOK
  <1>6. CASE Midnight
    <2>1. RequestsTypeOK(EmbedLocations, Embeddings)'
      BY <1>6, <1>t, RequestsStay DEF Midnight
    <2>2. day' \in Days
      BY <1>6, <1>t, EmbedsAssumption DEF Midnight, Days
    <2> QED BY <1>6, <1>t, <2>1, <2>2 DEF Midnight, EmbedsTypeOK
  <1> QED BY <1>0, <1>1, <1>2, <1>3, <1>4, <1>5, <1>6 DEF EmbedsNext

\* The counters of an embedding domain and its requests have their types.
THEOREM EmbedsTypeCorrect == EmbedsSpec => []EmbedsTypeOK
  <1>1. RequestsInit /\ EmbedsInit => EmbedsTypeOK
    BY RequestsStart, EmbedsAssumption DEF EmbedsInit, EmbedsTypeOK, Days
  <1>2. EmbedsTypeOK /\ [EmbedsNext]_embedVars => EmbedsTypeOK'
    BY EmbedsTypeStep
  <1> QED BY <1>1, <1>2, PTL DEF EmbedsSpec

\* The characters of the requests at locs that count for one of the days.
LengthsAt(locs, days) == [h \in Handlers |-> IF pc[h] \in locs /\ KeyDay(h) \in days THEN Length(h) ELSE 0]
LengthSum(locs, days) == SumFunctionOnSet(LengthsAt(locs, days), Handlers)

\* What is queued, and what will be, has been counted, and stated in the row.
Stated  == SumFunctionOnSet(embedded, Days) + LengthSum({"insert_job"}, Days) <= total + unstated
Tallied(d) == embedded[d] + LengthSum({"stats", "insert_job"}, {d}) <= usage[d] + uncounted[d]

\* A request that has passed the check overruns the limit only together with
\* the other requests, or after a GET that failed.
Spare(d) == (Cardinality(Handlers) - 1 + misread[d]) * MaxLength
Capped(d) == usage[d] + LengthSum({"incrby"}, {d}) <= DailyLimit + Spare(d)

EmbedsInv == EmbedsTypeOK /\ Stated /\ \A d \in Days : Tallied(d) /\ Capped(d)

\* A request under way has a text and a day.
LEMMA EmbedsData ==
    ASSUME EmbedsTypeOK, NEW h \in Handlers, pc[h] # "idle"
    PROVE  Length(h) \in Nat /\ Length(h) <= MaxLength /\ KeyDay(h) \in Days
  <1>1. local[h] \in Embeddings
    BY DEF EmbedsTypeOK, RequestsTypeOK, At
  <1>2. Length(h) \in Lengths /\ KeyDay(h) \in Days
    BY <1>1 DEF Embeddings, Length, KeyDay
  <1>3. \A n \in Lengths : n \in Nat /\ n <= MaxLength
    BY EmbedsAssumption
  <1> QED BY <1>2, <1>3

\* A request that moves takes its characters along.
LEMMA LengthsMove ==
    ASSUME EmbedsTypeOK, NEW locs, "idle" \notin locs, NEW days,
           NEW h \in Handlers, NEW loc, NEW d, Moved(h, loc, d),
           loc \in locs => d = local[h] /\ pc[h] # "idle"
    PROVE  /\ LengthSum(locs, days) \in Nat /\ LengthSum(locs, days)' \in Nat
           /\ LengthSum(locs, days)' = LengthSum(locs, days)
                  - (IF pc[h] \in locs /\ KeyDay(h) \in days THEN Length(h) ELSE 0)
                  + (IF loc \in locs /\ KeyDay(h) \in days THEN Length(h) ELSE 0)
  <1>1. \A g \in Handlers : LengthsAt(locs, days)[g] \in Nat
    BY EmbedsData DEF LengthsAt
  <1>2. pc'[h] = loc /\ local'[h] = d /\ \A g \in Handlers \ {h} : pc'[g] = pc[g] /\ local'[g] = local[g]
    BY OthersStay DEF EmbedsTypeOK
  <1>3. /\ \A g \in Handlers \ {h} : LengthsAt(locs, days)'[g] = LengthsAt(locs, days)[g]
        /\ LengthsAt(locs, days)'[h] = IF loc \in locs /\ KeyDay(h) \in days THEN Length(h) ELSE 0
        /\ LengthsAt(locs, days)[h] = IF pc[h] \in locs /\ KeyDay(h) \in days THEN Length(h) ELSE 0
    BY <1>2 DEF LengthsAt, KeyDay, Length
  <1>4. LengthsAt(locs, days)'[h] \in Nat
    BY <1>3, EmbedsData
  <1>5. IsFiniteSet(Handlers)
    BY EmbedsAssumption
  <1>6. /\ SumFunctionOnSet(LengthsAt(locs, days), Handlers) \in Nat
        /\ SumFunctionOnSet(LengthsAt(locs, days)', Handlers) \in Nat
        /\ SumFunctionOnSet(LengthsAt(locs, days)', Handlers)
              = SumFunctionOnSet(LengthsAt(locs, days), Handlers)
                    - LengthsAt(locs, days)[h] + LengthsAt(locs, days)'[h]
    BY <1>1, <1>3, <1>4, <1>5, SumOfReplaced
  <1> QED BY <1>3, <1>6 DEF LengthSum

\* The other requests have at most one longest text each.
LEMMA LengthsOfOthers ==
    ASSUME EmbedsTypeOK, NEW locs, "idle" \notin locs, NEW days, NEW h \in Handlers, pc[h] \notin locs,
           NEW d \in Days
    PROVE  LengthSum(locs, days) \in Nat /\ Spare(d) \in Nat /\ LengthSum(locs, days) <= Spare(d)
  <1>1. \A g \in Handlers : LengthsAt(locs, days)[g] \in Nat /\ LengthsAt(locs, days)[g] <= MaxLength
    BY EmbedsData, EmbedsAssumption DEF LengthsAt
  <1>2. LengthsAt(locs, days)[h] = 0
    BY DEF LengthsAt
  <1>3. IsFiniteSet(Handlers) /\ MaxLength \in Nat /\ misread[d] \in Nat
    BY EmbedsAssumption DEF EmbedsTypeOK
  <1>4. /\ Cardinality(Handlers) - 1 \in Nat
        /\ (Cardinality(Handlers) - 1) * MaxLength \in Nat
        /\ LengthSum(locs, days) <= LengthsAt(locs, days)[h] + (Cardinality(Handlers) - 1) * MaxLength
    BY <1>1, <1>3, SumOfOthers DEF LengthSum
  <1>5. LengthSum(locs, days) \in Nat
    BY <1>1, <1>3, SumIsNat DEF LengthSum
  <1> DEFINE c == Cardinality(Handlers) - 1
  <1>6. c \in Nat
    BY <1>4
  <1> HIDE DEF c
  <1>7. /\ (c + misread[d]) * MaxLength = c * MaxLength + misread[d] * MaxLength
        /\ c * MaxLength \in Nat /\ misread[d] * MaxLength \in Nat
        /\ (c + misread[d]) * MaxLength \in Nat
    BY <1>3, <1>6
  <1>8. LengthSum(locs, days) <= c * MaxLength
    BY <1>2, <1>4 DEF c
  <1>9. Spare(d) = (c + misread[d]) * MaxLength
    BY DEF Spare, c
  <1> QED BY <1>5, <1>7, <1>8, <1>9

\* The sum over all days grows with the sum of one.
LEMMA EmbeddedSum ==
    ASSUME EmbedsTypeOK, NEW k \in Days, NEW n \in Nat, embedded' = [embedded EXCEPT ![k] = @ + n]
    PROVE  /\ SumFunctionOnSet(embedded, Days) \in Nat
           /\ SumFunctionOnSet(embedded, Days)' = SumFunctionOnSet(embedded, Days) + n
  <1>1. IsFiniteSet(Days)
    BY FS_Interval, EmbedsAssumption DEF Days
  <1>2. embedded \in [Days -> Nat]
    BY DEF EmbedsTypeOK
  <1> QED BY <1>1, <1>2, SumOfCounters

\* The three sums of one step.
LEMMA LengthSumsMove ==
    ASSUME EmbedsTypeOK, NEW h \in Handlers, NEW loc, NEW d, Moved(h, loc, d),
           loc \in {"incrby", "stats", "insert_job"} => d = local[h] /\ pc[h] # "idle",
           NEW k \in Days
    PROVE  /\ LengthSum({"insert_job"}, Days) \in Nat /\ LengthSum({"insert_job"}, Days)' \in Nat
           /\ LengthSum({"insert_job"}, Days)' = LengthSum({"insert_job"}, Days)
                  - (IF pc[h] = "insert_job" THEN Length(h) ELSE 0)
                  + (IF loc = "insert_job" THEN Length(h) ELSE 0)
           /\ LengthSum({"stats", "insert_job"}, {k}) \in Nat
           /\ LengthSum({"stats", "insert_job"}, {k})' \in Nat
           /\ LengthSum({"stats", "insert_job"}, {k})' = LengthSum({"stats", "insert_job"}, {k})
                  - (IF pc[h] \in {"stats", "insert_job"} /\ KeyDay(h) = k THEN Length(h) ELSE 0)
                  + (IF loc \in {"stats", "insert_job"} /\ KeyDay(h) = k THEN Length(h) ELSE 0)
           /\ LengthSum({"incrby"}, {k}) \in Nat /\ LengthSum({"incrby"}, {k})' \in Nat
           /\ LengthSum({"incrby"}, {k})' = LengthSum({"incrby"}, {k})
                  - (IF pc[h] = "incrby" /\ KeyDay(h) = k THEN Length(h) ELSE 0)
                  + (IF loc = "incrby" /\ KeyDay(h) = k THEN Length(h) ELSE 0)
  <1>1. pc[h] # "idle" => KeyDay(h) \in Days
    BY EmbedsData
  <1>2. /\ LengthSum({"insert_job"}, Days) \in Nat /\ LengthSum({"insert_job"}, Days)' \in Nat
        /\ LengthSum({"insert_job"}, Days)' = LengthSum({"insert_job"}, Days)
               - (IF pc[h] \in {"insert_job"} /\ KeyDay(h) \in Days THEN Length(h) ELSE 0)
               + (IF loc \in {"insert_job"} /\ KeyDay(h) \in Days THEN Length(h) ELSE 0)
    BY LengthsMove
  <1>3. /\ LengthSum({"stats", "insert_job"}, {k}) \in Nat
        /\ LengthSum({"stats", "insert_job"}, {k})' \in Nat
        /\ LengthSum({"stats", "insert_job"}, {k})' = LengthSum({"stats", "insert_job"}, {k})
               - (IF pc[h] \in {"stats", "insert_job"} /\ KeyDay(h) \in {k} THEN Length(h) ELSE 0)
               + (IF loc \in {"stats", "insert_job"} /\ KeyDay(h) \in {k} THEN Length(h) ELSE 0)
    BY LengthsMove
  <1>4. /\ LengthSum({"incrby"}, {k}) \in Nat /\ LengthSum({"incrby"}, {k})' \in Nat
        /\ LengthSum({"incrby"}, {k})' = LengthSum({"incrby"}, {k})
               - (IF pc[h] \in {"incrby"} /\ KeyDay(h) \in {k} THEN Length(h) ELSE 0)
               + (IF loc \in {"incrby"} /\ KeyDay(h) \in {k} THEN Length(h) ELSE 0)
    BY LengthsMove
  <1> QED BY <1>1, <1>2, <1>3, <1>4

\* What may be spare grows with every GET that failed.
LEMMA SpareGrows ==
    ASSUME EmbedsTypeOK, NEW k \in Days, misread' = [misread EXCEPT ![k] = @ + 1], NEW d \in Days
    PROVE  Spare(d)' = Spare(d) + (IF d = k THEN MaxLength ELSE 0)
  <1> DEFINE c == Cardinality(Handlers) - 1
  <1>1. c \in Int /\ MaxLength \in Nat /\ misread[d] \in Nat
    BY EmbedsAssumption, FS_CardinalityType DEF EmbedsTypeOK
  <1>2. misread'[d] = misread[d] + (IF d = k THEN 1 ELSE 0)
    BY DEF EmbedsTypeOK
  <1> HIDE DEF c
  <1>3. (c + (misread[d] + 1)) * MaxLength = (c + misread[d]) * MaxLength + MaxLength
    BY <1>1
  <1>4. Spare(d) = (c + misread[d]) * MaxLength /\ Spare(d)' = (c + misread'[d]) * MaxLength
    BY DEF Spare, c
  <1>5. (c + misread[d]) * MaxLength \in Int
    BY <1>1
  <1> QED BY <1>1, <1>2, <1>3, <1>4, <1>5

LEMMA EmbedsBooksStep ==
    ASSUME EmbedsInv, [EmbedsNext]_embedVars
    PROVE  Stated' /\ \A d \in Days : Tallied(d)' /\ Capped(d)'
  <1> USE DEF embeds
  <1> DEFINE Books == Stated' /\ \A d \in Days : Tallied(d)' /\ Capped(d)'
             Ready == LengthSum({"insert_job"}, Days)
             Counting(d) == LengthSum({"stats", "insert_job"}, {d})
             Passed(d) == LengthSum({"incrby"}, {d})
             Queued == SumFunctionOnSet(embedded, Days)
  <1>t. EmbedsTypeOK /\ Stated /\ \A d \in Days : Tallied(d) /\ Capped(d)
    BY DEF EmbedsInv
  <1>n. /\ DailyLimit \in Nat /\ MaxLength \in Nat /\ total \in Nat /\ unstated \in Nat /\ Queued \in Nat
        /\ \A d \in Days : /\ embedded[d] \in Nat /\ usage[d] \in Nat /\ uncounted[d] \in Nat
                           /\ Spare(d) \in Int
    <2>1. Queued \in Nat
      <3>1. IsFiniteSet(Days)
        BY FS_Interval, EmbedsAssumption DEF Days
      <3> QED BY <1>t, <3>1, SumIsNat DEF EmbedsTypeOK
    <2>2. ASSUME NEW d \in Days PROVE Spare(d) \in Int
      <3>1. Cardinality(Handlers) \in Nat /\ misread[d] \in Nat /\ MaxLength \in Nat
        BY <1>t, EmbedsAssumption, FS_CardinalityType DEF EmbedsTypeOK
      <3> QED BY <3>1 DEF Spare
    <2> QED BY <1>t, <2>1, <2>2, EmbedsAssumption DEF EmbedsTypeOK
  <1>b. /\ Queued + Ready <= total + unstated
        /\ \A d \in Days : /\ embedded[d] + Counting(d) <= usage[d] + uncounted[d]
                           /\ usage[d] + Passed(d) <= DailyLimit + Spare(d)
    BY <1>t DEF Stated, Tallied, Capped
  \* The books are kept if every sum grows as much as its counter.
  <1>k. ASSUME Queued' + Ready' <= total' + unstated',
               \A d \in Days : /\ embedded'[d] + Counting(d)' <= usage'[d] + uncounted'[d]
                               /\ usage'[d] + Passed(d)' <= DailyLimit + Spare(d)'
        PROVE  Books
    BY <1>k DEF Stated, Tallied, Capped
  <1>s. ASSUME misread' = misread, NEW d \in Days PROVE Spare(d)' = Spare(d)
    BY <1>s DEF Spare
  <1>q. ASSUME embedded' = embedded PROVE Queued' = Queued
    BY <1>q
  <1>m. ASSUME NEW h \in Handlers, NEW loc, NEW d, Moved(h, loc, d),
               loc \in {"incrby", "stats", "insert_job"} => d = local[h] /\ pc[h] # "idle",
               NEW k \in Days
        PROVE  /\ Ready \in Nat /\ Ready' \in Nat
               /\ Ready' = Ready - (IF pc[h] = "insert_job" THEN Length(h) ELSE 0)
                                 + (IF loc = "insert_job" THEN Length(h) ELSE 0)
               /\ Counting(k) \in Nat /\ Counting(k)' \in Nat
               /\ Counting(k)' = Counting(k)
                      - (IF pc[h] \in {"stats", "insert_job"} /\ KeyDay(h) = k THEN Length(h) ELSE 0)
                      + (IF loc \in {"stats", "insert_job"} /\ KeyDay(h) = k THEN Length(h) ELSE 0)
               /\ Passed(k) \in Nat /\ Passed(k)' \in Nat
               /\ Passed(k)' = Passed(k)
                      - (IF pc[h] = "incrby" /\ KeyDay(h) = k THEN Length(h) ELSE 0)
                      + (IF loc = "incrby" /\ KeyDay(h) = k THEN Length(h) ELSE 0)
    BY <1>m, <1>t, LengthSumsMove
  <1>d. 0 \in Days
    BY EmbedsAssumption DEF Days
  <1> HIDE DEF Ready, Counting, Passed, Queued, Books
  <1>0. ASSUME UNCHANGED embedVars \/ Midnight PROVE Books
    <2>1. Ready' = Ready /\ \A d \in Days : Counting(d)' = Counting(d) /\ Passed(d)' = Passed(d)
      BY <1>0 DEF embedVars, requests, Midnight, Ready, Counting, Passed, LengthSum, LengthsAt, KeyDay, Length
    <2>2. UNCHANGED <<usage, total, embedded, misread, uncounted, unstated>>
      BY <1>0 DEF embedVars, Midnight
    <2>3. Queued' = Queued
      BY <1>q, <2>2
    <2>4. Queued' + Ready' <= total' + unstated'
      BY <1>b, <2>1, <2>2, <2>3
    <2>5. ASSUME NEW d \in Days
          PROVE  /\ embedded'[d] + Counting(d)' <= usage'[d] + uncounted'[d]
                 /\ usage'[d] + Passed(d)' <= DailyLimit + Spare(d)'
      <3>1. Spare(d)' = Spare(d)
        BY <1>s, <2>2
      <3> QED BY <1>b, <2>1, <2>2, <3>1
    <2> QED BY <1>k, <2>4, <2>5
  \* A request begins or ends without an effect.
  <1>1. ASSUME NEW h \in Handlers, NEW loc \in {"get_usage", "idle"}, NEW d, Moved(h, loc, d),
               UNCHANGED <<usage, total, embedded, uncounted, unstated>>,
               \A k \in Days : Spare(k)' \in Int /\ Spare(k) <= Spare(k)'
        PROVE  Books
    <2>1. pc[h] # "idle" => Length(h) \in Nat
      BY <1>t, EmbedsData
    <2>2. Queued' = Queued /\ Ready \in Nat /\ Ready' \in Nat /\ Ready' <= Ready
      BY <1>1, <1>d, <1>m, <1>q, <2>1
    <2>3. ASSUME NEW k \in Days
          PROVE  /\ Counting(k) \in Nat /\ Counting(k)' \in Nat /\ Counting(k)' <= Counting(k)
                 /\ Passed(k) \in Nat /\ Passed(k)' \in Nat /\ Passed(k)' <= Passed(k)
      BY <1>1, <1>m, <2>1, <2>3
    <2>4. Queued' + Ready' <= total' + unstated'
      BY <1>1, <1>b, <1>n, <2>2
    <2>5. ASSUME NEW k \in Days
          PROVE  /\ embedded'[k] + Counting(k)' <= usage'[k] + uncounted'[k]
                 /\ usage'[k] + Passed(k)' <= DailyLimit + Spare(k)'
      BY <1>1, <1>b, <1>n, <2>3, <2>5
    <2> QED BY <1>k, <2>4, <2>5
  \* A request passes the check.
  <1>2. ASSUME NEW h \in Handlers, pc[h] = "get_usage", Moved(h, "incrby", local[h]),
               UNCHANGED <<usage, total, embedded, uncounted, unstated>>,
               NEW t \in Days, t = KeyDay(h), \A k \in Days \ {t} : Spare(k)' = Spare(k),
               Spare(t)' \in Int, usage[t] + Passed(t) + Length(h) <= DailyLimit + Spare(t)'
        PROVE  Books
    <2>1. Length(h) \in Nat
      BY <1>2, <1>t, EmbedsData
    <2>2. Queued' = Queued /\ Ready' = Ready /\ Ready \in Nat
      BY <1>2, <1>d, <1>m, <1>q, <2>1
    <2>3. ASSUME NEW k \in Days
          PROVE  /\ Counting(k) \in Nat /\ Counting(k)' = Counting(k) /\ Passed(k) \in Nat
                 /\ Passed(k)' = Passed(k) + (IF t = k THEN Length(h) ELSE 0)
      BY <1>2, <1>m, <2>1, <2>3
    <2>4. ASSUME NEW k \in Days PROVE usage'[k] + Passed(k)' <= DailyLimit + Spare(k)'
      <3>1. CASE k = t
        <4>1. Passed(t) \in Nat /\ Passed(t)' = Passed(t) + Length(h) /\ usage[t] \in Nat /\ DailyLimit \in Nat
          BY <1>n, <2>3
        <4> QED BY <1>2, <2>1, <3>1, <4>1
      <3>2. CASE k # t
        <4>1. Passed(k) \in Nat /\ Passed(k)' = Passed(k)
          BY <2>1, <2>3, <3>2
        <4> QED BY <1>2, <1>b, <3>2, <4>1
      <3> QED BY <3>1, <3>2
    <2>5. ASSUME NEW k \in Days PROVE embedded'[k] + Counting(k)' <= usage'[k] + uncounted'[k]
      BY <1>2, <1>b, <2>3, <2>5
    <2>6. Queued' + Ready' <= total' + unstated'
      BY <1>2, <1>b, <2>2
    <2> QED BY <1>k, <2>4, <2>5, <2>6
  <1>3. ASSUME NEW h \in Handlers, NEW n \in Lengths, BeginEmbed(h, n) PROVE Books
    <2>1. Moved(h, "get_usage", Embedding(n, day)) /\ UNCHANGED embeds
      BY <1>3 DEF BeginEmbed, Begin
    <2> QED BY <1>1, <1>n, <1>s, <2>1
  <1>4. ASSUME NEW h \in Handlers, GetUsage(h) PROVE Books
    <2>1. Length(h) \in Nat /\ KeyDay(h) \in Days
      BY <1>4, <1>t, EmbedsData DEF GetUsage, At
    <2>k. PICK k \in Days : k = KeyDay(h)
      BY <2>1
    <2>2. UNCHANGED <<usage, total, embedded, misread, uncounted, unstated>> /\ pc[h] = "get_usage"
      BY <1>4 DEF GetUsage, At
    <2>3. CASE UnderLimit(h, usage[k])
      <3>1. Moved(h, "incrby", local[h])
        BY <1>4, <2>3, <2>k DEF GetUsage, Goto, Keep
      <3>2. usage[k] + Length(h) <= DailyLimit
        BY <2>3 DEF UnderLimit
      <3>3. Passed(k) \in Nat /\ Passed(k) <= Spare(k)
        BY <1>t, <2>1, <2>2, LengthsOfOthers DEF Passed
      <3>4. usage[k] + Passed(k) + Length(h) <= DailyLimit + Spare(k)
        <4>1. usage[k] \in Nat /\ Spare(k) \in Int /\ DailyLimit \in Nat
          BY <1>n, <2>1
        <4> QED BY <2>1, <3>2, <3>3, <4>1
      <3>5. \A j \in Days : Spare(j)' = Spare(j)
        BY <1>s, <2>2
      <3>6. Spare(k)' = Spare(k) /\ Spare(k) \in Int
        BY <1>n, <3>5
      <3> QED BY <1>2, <2>2, <2>k, <3>1, <3>4, <3>5, <3>6
    <2>4. CASE ~UnderLimit(h, usage[k])
      <3>1. Moved(h, "idle", Nothing)
        BY <1>4, <2>4, <2>k DEF GetUsage, End, Leave
      <3> QED BY <1>1, <1>n, <1>s, <2>2, <3>1
    <2> QED BY <2>3, <2>4
  <1>5. ASSUME NEW h \in Handlers, MisreadUsage(h) PROVE Books
    <2>1. Length(h) \in Nat /\ Length(h) <= MaxLength /\ KeyDay(h) \in Days
      BY <1>5, <1>t, EmbedsData DEF MisreadUsage, At
    <2>k. PICK k \in Days : k = KeyDay(h)
      BY <2>1
    <2>2. UNCHANGED <<usage, total, embedded, uncounted, unstated>> /\ pc[h] = "get_usage"
      BY <1>5 DEF MisreadUsage, At
    <2>3. \A j \in Days : Spare(j)' = Spare(j) + (IF j = k THEN MaxLength ELSE 0)
      BY <1>5, <1>t, <2>k, SpareGrows DEF MisreadUsage
    <2>4. CASE Moved(h, "incrby", local[h])
      <3>1. Passed(k) \in Nat
        BY <1>m, <2>1, <2>2, <2>4
      <3>2. usage[k] + Passed(k) + Length(h) <= DailyLimit + Spare(k)' /\ Spare(k)' \in Int
        <4>1. usage[k] \in Nat /\ Spare(k) \in Int /\ DailyLimit \in Nat /\ MaxLength \in Nat
          BY <1>n, <2>1
        <4>2. usage[k] + Passed(k) <= DailyLimit + Spare(k) /\ Spare(k)' = Spare(k) + MaxLength
          BY <1>b, <2>3
        <4> QED BY <2>1, <3>1, <4>1, <4>2
      <3>3. \A j \in Days \ {k} : Spare(j)' = Spare(j)
        BY <1>n, <2>3
      <3> QED BY <1>2, <2>2, <2>k, <2>4, <3>2, <3>3
    <2>5. CASE Moved(h, "idle", Nothing)
      <3>1. \A j \in Days : Spare(j)' \in Int /\ Spare(j) <= Spare(j)'
        BY <1>n, <2>3
      <3> QED BY <1>1, <2>2, <2>5, <3>1
    <2> QED BY <1>5, <2>4, <2>5 DEF MisreadUsage, Leave
  \* A request counts, or fails to, what it passed with.
  <1>6. ASSUME NEW h \in Handlers, IncrBy(h) \/ IncrByFails(h) PROVE Books
    <2>1. Length(h) \in Nat /\ KeyDay(h) \in Days /\ pc[h] = "incrby"
      BY <1>6, <1>t, EmbedsData DEF IncrBy, IncrByFails, At
    <2>2. Moved(h, "stats", local[h]) /\ UNCHANGED <<total, embedded, misread, unstated>>
      BY <1>6 DEF IncrBy, IncrByFails, Goto, Keep
    <2>3. Queued' = Queued /\ Ready \in Nat /\ Ready' = Ready
      BY <1>d, <1>m, <1>q, <2>1, <2>2
    <2>4. ASSUME NEW d \in Days
          PROVE  /\ Counting(d) \in Nat /\ Passed(d) \in Nat /\ Passed(d)' \in Nat
                 /\ Counting(d)' = Counting(d) + (IF KeyDay(h) = d THEN Length(h) ELSE 0)
                 /\ Passed(d)' = Passed(d) - (IF KeyDay(h) = d THEN Length(h) ELSE 0)
                 /\ Spare(d)' = Spare(d)
      BY <1>m, <1>s, <2>1, <2>2, <2>4
    <2>5. ASSUME NEW d \in Days
          PROVE  \/ /\ usage'[d] = usage[d] + (IF KeyDay(h) = d THEN Length(h) ELSE 0)
                    /\ uncounted'[d] = uncounted[d]
                 \/ /\ usage'[d] = usage[d]
                    /\ uncounted'[d] = uncounted[d] + (IF KeyDay(h) = d THEN Length(h) ELSE 0)
      BY <1>6, <1>t, <2>1 DEF IncrBy, IncrByFails, EmbedsTypeOK
    <2>6. Queued' + Ready' <= total' + unstated'
      BY <1>b, <2>2, <2>3
    <2>7. ASSUME NEW d \in Days
          PROVE  /\ embedded'[d] + Counting(d)' <= usage'[d] + uncounted'[d]
                 /\ usage'[d] + Passed(d)' <= DailyLimit + Spare(d)'
      <3>1. /\ embedded[d] \in Nat /\ usage[d] \in Nat /\ uncounted[d] \in Nat /\ Spare(d) \in Int
            /\ embedded[d] + Counting(d) <= usage[d] + uncounted[d]
            /\ usage[d] + Passed(d) <= DailyLimit + Spare(d) /\ DailyLimit \in Nat
        BY <1>b, <1>n
      <3>2. CASE KeyDay(h) = d
        BY <2>1, <2>2, <2>4, <2>5, <3>1, <3>2
      <3>3. CASE KeyDay(h) # d
        BY <2>1, <2>2, <2>4, <2>5, <3>1, <3>3
      <3> QED BY <3>2, <3>3
    <2> QED BY <1>k, <2>6, <2>7
  \* The row is told of the text, or is not.
  <1>7. ASSUME NEW h \in Handlers, UpdateStats(h) \/ StatsFail(h) PROVE Books
    <2>1. Length(h) \in Nat /\ pc[h] = "stats"
      BY <1>7, <1>t, EmbedsData DEF UpdateStats, StatsFail, At
    <2>2. Moved(h, "insert_job", local[h]) /\ UNCHANGED <<usage, embedded, misread, uncounted>>
      BY <1>7 DEF UpdateStats, StatsFail, Goto, Keep
    <2>3. Queued' = Queued /\ Ready \in Nat /\ Ready' = Ready + Length(h)
      BY <1>d, <1>m, <1>q, <2>1, <2>2
    <2>4. total' + unstated' = total + unstated + Length(h)
      BY <1>7, <1>n, <2>1 DEF UpdateStats, StatsFail
    <2>5. Queued' + Ready' <= total' + unstated'
      BY <1>b, <1>n, <2>1, <2>3, <2>4
    <2>6. ASSUME NEW d \in Days
          PROVE  /\ embedded'[d] + Counting(d)' <= usage'[d] + uncounted'[d]
                 /\ usage'[d] + Passed(d)' <= DailyLimit + Spare(d)'
      <3>1. /\ Counting(d) \in Nat /\ Counting(d)' = Counting(d)
            /\ Passed(d) \in Nat /\ Passed(d)' = Passed(d)
        BY <1>m, <2>1, <2>2
      <3>2. Spare(d)' = Spare(d)
        BY <1>s, <2>2
      <3> QED BY <1>b, <2>2, <3>1, <3>2
    <2> QED BY <1>k, <2>5, <2>6
  <1>8. ASSUME NEW h \in Handlers, InsertEmbedJob(h) PROVE Books
    <2>1. Length(h) \in Nat /\ KeyDay(h) \in Days /\ pc[h] = "insert_job"
      BY <1>8, <1>t, EmbedsData DEF InsertEmbedJob, At
    <2>2. Moved(h, "idle", Nothing) /\ UNCHANGED <<usage, total, misread, uncounted, unstated>>
      BY <1>8 DEF InsertEmbedJob, End, Leave
    <2>3. Ready \in Nat /\ Ready' \in Nat /\ Ready' = Ready - Length(h)
      BY <1>d, <1>m, <2>1, <2>2
    <2>4. Queued' = Queued + Length(h)
      BY <1>8, <1>t, <2>1, EmbeddedSum DEF InsertEmbedJob, Queued
    <2>5. ASSUME NEW d \in Days
          PROVE  /\ Counting(d) \in Nat /\ Counting(d)' \in Nat /\ Passed(d) \in Nat
                 /\ Counting(d)' = Counting(d) - (IF KeyDay(h) = d THEN Length(h) ELSE 0)
                 /\ Passed(d)' = Passed(d) /\ Spare(d)' = Spare(d)
      BY <1>m, <1>s, <2>1, <2>2, <2>5
    <2>6. ASSUME NEW d \in Days PROVE embedded'[d] = embedded[d] + (IF KeyDay(h) = d THEN Length(h) ELSE 0)
      BY <1>8, <1>t, <2>1 DEF InsertEmbedJob, EmbedsTypeOK
    <2>7. Queued' + Ready' <= total' + unstated'
      BY <1>b, <1>n, <2>1, <2>2, <2>3, <2>4
    <2>8. ASSUME NEW d \in Days
          PROVE  /\ embedded'[d] + Counting(d)' <= usage'[d] + uncounted'[d]
                 /\ usage'[d] + Passed(d)' <= DailyLimit + Spare(d)'
      <3>1. /\ embedded[d] \in Nat /\ usage[d] \in Nat /\ uncounted[d] \in Nat /\ Spare(d) \in Int
            /\ embedded[d] + Counting(d) <= usage[d] + uncounted[d]
            /\ usage[d] + Passed(d) <= DailyLimit + Spare(d)
        BY <1>b, <1>n
      <3>2. embedded'[d] + Counting(d)' = embedded[d] + Counting(d)
        BY <2>1, <2>5, <2>6, <3>1
      <3> QED BY <2>2, <2>5, <3>1, <3>2
    <2> QED BY <1>k, <2>7, <2>8
  <1>9. ASSUME NEW h \in Handlers, DropEmbed(h) PROVE Books
    <2>1. Moved(h, "idle", Nothing) /\ UNCHANGED embeds
      BY <1>9 DEF DropEmbed, Dropped, Leave
    <2> QED BY <1>1, <1>n, <1>s, <2>1
  <1>10. Books
    BY <1>0, <1>3, <1>4, <1>5, <1>6, <1>7, <1>8, <1>9 DEF EmbedsNext
  <1> QED BY <1>10 DEF Books

\* Whatever is queued for a day has been counted for it and stated in the row
\* of the domain, whichever statement failed or was never reached; and the
\* limit of a day is exceeded by one text for each further request and for
\* each GET that failed.
THEOREM EmbedsCounted == EmbedsSpec => []EmbedCounted
  <1>1. RequestsInit /\ EmbedsInit => EmbedsInv
    <2> SUFFICES ASSUME RequestsInit, EmbedsInit PROVE EmbedsInv
      OBVIOUS
    <2>1. EmbedsTypeOK
      BY RequestsStart, EmbedsAssumption DEF EmbedsInit, EmbedsTypeOK, Days
    <2>2. IsFiniteSet(Handlers) /\ IsFiniteSet(Days)
      BY FS_Interval, EmbedsAssumption DEF Days
    <2>3. ASSUME NEW f, NEW S, IsFiniteSet(S), \A x \in S : f[x] = 0
          PROVE  SumFunctionOnSet(f, S) = 0
      <3>1. SumFunctionOnSet(f, {}) = SumFunctionOnSet(f, S)
        BY <2>3, SumOfPart
      <3> QED BY <3>1, SumOfNothing
    <2>4. ASSUME NEW locs, "idle" \notin locs, NEW days PROVE LengthSum(locs, days) = 0
      <3>1. \A h \in Handlers : LengthsAt(locs, days)[h] = 0
        BY <2>4 DEF LengthsAt, RequestsInit
      <3> QED BY <2>2, <2>3, <3>1 DEF LengthSum
    <2>5. SumFunctionOnSet(embedded, Days) = 0
      BY <2>2, <2>3 DEF EmbedsInit
    <2>6. Stated
      BY <2>4, <2>5 DEF Stated, EmbedsInit
    <2>7. ASSUME NEW d \in Days PROVE Tallied(d) /\ Capped(d)
      <3>1. PICK h \in Handlers : TRUE
        BY EmbedsAssumption
      <3>2. Spare(d) \in Nat
        <4>1. pc[h] \notin {"incrby"}
          BY DEF RequestsInit
        <4> QED BY <2>1, <2>7, <4>1, LengthsOfOthers
      <3> QED BY <2>4, <3>2, EmbedsAssumption DEF Tallied, Capped, EmbedsInit
    <2> QED BY <2>1, <2>6, <2>7 DEF EmbedsInv
  <1>2. EmbedsInv /\ [EmbedsNext]_embedVars => EmbedsInv'
    BY EmbedsTypeStep, EmbedsBooksStep DEF EmbedsInv
  <1>3. EmbedsInv => EmbedCounted
    <2> SUFFICES ASSUME EmbedsInv PROVE EmbedCounted
      OBVIOUS
    <2>1. ASSUME NEW locs, "idle" \notin locs, NEW days PROVE LengthSum(locs, days) \in Nat
      <3>1. \A h \in Handlers : LengthsAt(locs, days)[h] \in Nat
        BY <2>1, EmbedsData DEF LengthsAt, EmbedsInv
      <3> QED BY <3>1, SumIsNat, EmbedsAssumption DEF LengthSum
    <2>2. SumFunctionOnSet(embedded, Days) \in Nat
      <3>1. IsFiniteSet(Days)
        BY FS_Interval, EmbedsAssumption DEF Days
      <3> QED BY <3>1, SumIsNat DEF EmbedsInv, EmbedsTypeOK
    <2>3. SumFunctionOnSet(embedded, Days) <= total + unstated
      <3>1. LengthSum({"insert_job"}, Days) \in Nat
        BY <2>1
      <3> QED BY <2>2, <3>1 DEF EmbedsInv, Stated, EmbedsTypeOK
    <2>4. ASSUME NEW d \in Days
          PROVE  embedded[d] <= usage[d] + uncounted[d] /\ usage[d] <= DailyLimit + Spare(d)
      <3>1. LengthSum({"stats", "insert_job"}, {d}) \in Nat /\ LengthSum({"incrby"}, {d}) \in Nat
        BY <2>1
      <3>2. /\ embedded[d] \in Nat /\ usage[d] \in Nat /\ uncounted[d] \in Nat
            /\ DailyLimit \in Nat /\ misread[d] \in Nat /\ MaxLength \in Nat
            /\ Cardinality(Handlers) \in Nat
        BY EmbedsAssumption, FS_CardinalityType DEF EmbedsInv, EmbedsTypeOK
      <3>3. Spare(d) \in Int
        BY <3>2 DEF Spare
      <3> QED BY <3>1, <3>2, <3>3 DEF EmbedsInv, Tallied, Capped
    <2> QED BY <2>3, <2>4 DEF EmbedCounted, Spare
  <1> QED BY <1>1, <1>2, <1>3, PTL DEF EmbedsSpec

-----------------------------------------------------------------------------
(* The price.                                                              *)

Near(p) == p = contract \/ Abs(p - contract) < contract \div 100

\* What a process has quoted, or is about to quote, is near the contract.
PriceOf(o) == ~moved[o] /\ ~lapsed[o] =>
    /\ stage[o] \in {"idle", "read"} /\ quote[o] > 0 => Near(quote[o])
    /\ stage[o] = "quote" => Near(fetched[o])

PriceInv == PriceTypeOK /\ \A o \in Oracles : PriceOf(o)

LEMMA PriceStep ==
    ASSUME PriceInv, [PriceNext]_priceVars PROVE PriceInv'
  <1>t. /\ contract \in Prices \cup {0}
        /\ quote \in [Oracles -> Prices \cup {0}] /\ fetched \in [Oracles -> Prices \cup {0}]
        /\ stage \in [Oracles -> {"idle", "read", "send", "quote"}]
        /\ moved \in [Oracles -> BOOLEAN] /\ lapsed \in [Oracles -> BOOLEAN]
        /\ chainErrors \in 0..MaxErrors /\ MaxErrors \in Nat
    BY PriceAssumption DEF PriceInv, PriceTypeOK
  <1>p. \A o \in Oracles : PriceOf(o)
    BY DEF PriceInv
  \* The other processes keep what they have quoted.
  <1>k. ASSUME NEW o \in Oracles, NEW q \in Oracles,
               quote'[q] = quote[q], fetched'[q] = fetched[q], stage'[q] = stage[q],
               lapsed'[q] = lapsed[q], (contract' = contract /\ moved'[q] = moved[q]) \/ moved'[q]
        PROVE  PriceOf(q)'
    <2>1. CASE moved'[q]
      BY <2>1 DEF PriceOf
    <2>2. CASE contract' = contract /\ moved'[q] = moved[q]
      BY <1>k, <1>p, <2>2 DEF PriceOf, Near
    <2> QED BY <1>k, <2>1, <2>2
  <1>0. CASE UNCHANGED priceVars
    BY <1>0 DEF priceVars, PriceInv, PriceTypeOK, PriceOf, Near
  <1>1. ASSUME NEW o \in Oracles, NEW p \in Prices, Fetch(o, p) PROVE PriceInv'
    <2>1. PriceTypeOK'
      BY <1>1, <1>t DEF Fetch, GoTo, PriceTypeOK
    <2>2. PriceOf(o)'
      BY <1>1, <1>t, <1>p DEF Fetch, GoTo, PriceOf, Near
    <2>3. \A q \in Oracles \ {o} : PriceOf(q)'
      BY <1>1, <1>t, <1>k DEF Fetch, GoTo
    <2> QED BY <2>1, <2>2, <2>3 DEF PriceInv
  <1>2. ASSUME NEW o \in Oracles, ReadContract(o) PROVE PriceInv'
    <2>1. PriceTypeOK'
      BY <1>2, <1>t DEF ReadContract, GoTo, PriceTypeOK
    <2>2. PriceOf(o)'
      <3>1. stage'[o] = "quote" => ~Off(o, fetched[o], contract)
        BY <1>2, <1>t DEF ReadContract, GoTo
      <3>2. stage'[o] \in {"send", "quote"}
        BY <1>2, <1>t DEF ReadContract, GoTo
      <3>3. fetched[o] \in Int /\ contract \in Int /\ contract' = contract /\ fetched' = fetched
        <4>1. fetched[o] \in Prices \cup {0} /\ Prices \cup {0} \subseteq Int
          BY <1>t, PriceAssumption
        <4>2. contract' = contract /\ fetched' = fetched
          BY <1>2 DEF ReadContract
        <4> QED BY <1>t, <4>1, <4>2
      <3>4. ~Off(o, fetched[o], contract) => Near(fetched[o])
        <4>1. Abs(fetched[o] - contract) \in Int /\ contract \div 100 \in Int
          BY <3>3 DEF Abs
        <4> HIDE DEF Abs
        <4> QED BY <4>1 DEF Off, Near
      <3> QED BY <3>1, <3>2, <3>3, <3>4 DEF PriceOf, Near
    <2>3. \A q \in Oracles \ {o} : PriceOf(q)'
      BY <1>2, <1>t, <1>k DEF ReadContract, GoTo
    <2> QED BY <2>1, <2>2, <2>3 DEF PriceInv
  <1>3. ASSUME NEW o \in Oracles, SendPrice(o) \/ SendFails(o) PROVE PriceInv'
    <2>1. PriceTypeOK'
      <3>1. /\ contract' \in {contract, fetched[o]} /\ chainErrors' \in {chainErrors, chainErrors + 1}
            /\ chainErrors' <= MaxErrors /\ stage' = [stage EXCEPT ![o] = "quote"]
            /\ UNCHANGED <<quote, fetched>>
        BY <1>3, <1>t DEF SendPrice, SendFails, Set, GoTo
      <3>2. moved' \in [Oracles -> BOOLEAN] /\ lapsed' \in [Oracles -> BOOLEAN]
        BY <1>3, <1>t DEF SendPrice, SendFails, Set
      <3>3. fetched[o] \in Prices \cup {0} /\ chainErrors' \in 0..MaxErrors
        BY <1>t, <3>1
      <3> QED BY <1>t, <3>1, <3>2, <3>3 DEF PriceTypeOK
    <2>2. PriceOf(o)'
      BY <1>3, <1>t DEF SendPrice, SendFails, Set, GoTo, PriceOf, Near
    <2>3. \A q \in Oracles \ {o} : PriceOf(q)'
      BY <1>3, <1>t, <1>k DEF SendPrice, SendFails, Set, GoTo
    <2> QED BY <2>1, <2>2, <2>3 DEF PriceInv
  <1>4. ASSUME NEW o \in Oracles, Quote(o) PROVE PriceInv'
    <2>1. PriceTypeOK'
      BY <1>4, <1>t DEF Quote, GoTo, PriceTypeOK
    <2>2. PriceOf(o)'
      BY <1>4, <1>t, <1>p DEF Quote, GoTo, PriceOf, Near
    <2>3. \A q \in Oracles \ {o} : PriceOf(q)'
      BY <1>4, <1>t, <1>k DEF Quote, GoTo
    <2> QED BY <2>1, <2>2, <2>3 DEF PriceInv
  <1>5. ASSUME NEW o \in Oracles, RestartOracle(o) PROVE PriceInv'
    <2>1. PriceTypeOK'
      BY <1>5, <1>t DEF RestartOracle, GoTo, PriceTypeOK
    <2>2. PriceOf(o)'
      BY <1>5, <1>t DEF RestartOracle, GoTo, PriceOf
    <2>3. \A q \in Oracles \ {o} : PriceOf(q)'
      BY <1>5, <1>t, <1>k DEF RestartOracle, GoTo
    <2> QED BY <2>1, <2>2, <2>3 DEF PriceInv
  <1> QED BY <1>0, <1>1, <1>2, <1>3, <1>4, <1>5 DEF PriceNext

LEMMA PriceAlways == PriceSpec => []PriceInv
  <1>1. PriceInit => PriceInv
    BY PriceAssumption DEF PriceInit, PriceInv, PriceTypeOK, PriceOf
  <1>2. PriceInv /\ [PriceNext]_priceVars => PriceInv'
    BY PriceStep
  <1> QED BY <1>1, <1>2, PTL DEF PriceSpec

\* For any prices and any number of processes, a quote is within a hundredth
\* of the contract, unless another process or a failure came between.
THEOREM QuotesNearContract == PriceSpec => [](PriceTypeOK /\ QuoteIsContract)
  <1>1. PriceInv => PriceTypeOK /\ QuoteIsContract
    BY DEF PriceInv, PriceOf, Near, QuoteIsContract
  <1> QED BY <1>1, PriceAlways, PTL

-----------------------------------------------------------------------------
(* Calls.                                                                  *)

\* A session is under one code, and one that was not created has no peers.
SessionsInv ==
    /\ CallsTypeOK
    /\ \A c \in Codes : Known(c) => session[c] \in created
    /\ \A c, d \in Codes : Known(c) /\ session[c] = session[d] => c = d
    /\ \A n \in Sessions \ created : peers[n] = 0
    /\ \A s \in Sockets : phase[s] # "idle" => code[s] \in Codes

\* The sockets under a code that named one session share its channel.
CodeTally(c) ==
    /\ Known(c) => /\ peers[session[c]] = Cardinality(PeersOf(c))
                   /\ \A s \in PeersOf(c) : rx[s] = session[c]
    /\ \A s, t \in PeersOf(c) : rx[s] = rx[t]
    /\ \A s \in PeersOf(c) : phase[s] = "relaying" => tx[s] = rx[s]

CallsInv == SessionsInv /\ \A c \in Codes \ reused : CodeTally(c)

LEMMA PeersFinite == ASSUME NEW c PROVE IsFiniteSet(PeersOf(c)) /\ Cardinality(PeersOf(c)) \in Nat
  <1>1. PeersOf(c) \subseteq Sockets
    BY DEF PeersOf
  <1> QED BY <1>1, CallsAssumption, FS_Subset, FS_CardinalityType

LEMMA SessionsStep ==
    ASSUME SessionsInv, [CallsNext]_callVars PROVE SessionsInv'
  <1> USE DEF SessionsInv, CallsTypeOK, Known, sessionVars, socketVars, Phases
  <1>0. CASE UNCHANGED callVars
    BY <1>0 DEF callVars
  <1>1. ASSUME NEW c \in Codes, NEW n \in Sessions, Create(c, n) PROVE SessionsInv'
    <2>1. \A d \in Codes : d # c => session'[d] \in {session[d], NoSession}
      BY <1>1 DEF Create
    <2>2. session'[c] = n /\ created' = created \cup {n} /\ n \notin created /\ n # NoSession
      BY <1>1, CallsAssumption DEF Create
    <2>3. session' \in [Codes -> Sessions \cup {NoSession}]
      BY <1>1 DEF Create
    <2>4. reused' \subseteq Codes /\ UNCHANGED <<peers, old, phase, code, rx, tx>>
      BY <1>1 DEF Create
    <2>5. \A a, b \in Codes : Known(a)' /\ session'[a] = session'[b] => a = b
      BY <2>1, <2>2
    <2> QED BY <2>1, <2>2, <2>3, <2>4, <2>5
  <1>2. ASSUME NEW n \in Sessions, Age(n) PROVE SessionsInv'
    BY <1>2 DEF Age
  <1>3. ASSUME NEW s \in Sockets, NEW c \in Codes, Join(s, c) PROVE SessionsInv'
    <2>1. session[c] \in created /\ peers' = [peers EXCEPT ![session[c]] = @ + 1] /\ peers[session[c]] < 2
      BY <1>3 DEF Join, HasRoom
    <2>2. peers' \in [Sessions -> 0..2] /\ \A n \in Sessions \ created : peers'[n] = 0
      BY <2>1
    <2> QED BY <1>3, <2>2 DEF Join
  <1>4. ASSUME NEW s \in Sockets, Attach(s) \/ Close(s) \/ Lag(s) \/ CloseLate(s) PROVE SessionsInv'
    BY <1>4 DEF Attach, Close, Lag, CloseLate, Gone
  <1>5. ASSUME NEW s \in Sockets, LeaveCall(s) PROVE SessionsInv'
    <2>1. /\ UNCHANGED <<created, old, reused, tx>>
          /\ phase' = [phase EXCEPT ![s] = "idle"]
          /\ code' = [code EXCEPT ![s] = NoSession]
          /\ rx' = [rx EXCEPT ![s] = NoSession]
      BY <1>5 DEF LeaveCall, Gone
    <2>2. CASE ~Known(code[s])
      <3>1. UNCHANGED <<peers, session>>
        BY <1>5, <2>2 DEF LeaveCall
      <3> QED BY <2>1, <3>1
    <2>3. CASE Known(code[s])
      <3>1. code[s] \in Codes /\ session[code[s]] \in created
        BY <1>5, <2>3 DEF LeaveCall
      <3>2. /\ peers' = [peers EXCEPT ![session[code[s]]] = IF @ > 0 THEN @ - 1 ELSE 0]
            /\ session' \in {session, [session EXCEPT ![code[s]] = NoSession]}
        BY <1>5, <2>3, <3>1 DEF LeaveCall
      <3>3. peers' \in [Sessions -> 0..2] /\ \A n \in Sessions \ created : peers'[n] = 0
        BY <3>1, <3>2
      <3>4. session' \in [Codes -> Sessions \cup {NoSession}]
            /\ \A d \in Codes : session'[d] \in {session[d], NoSession}
        BY <3>1, <3>2
      <3> QED BY <2>1, <3>3, <3>4
    <2> QED BY <2>2, <2>3
  <1> QED BY <1>0, <1>1, <1>2, <1>3, <1>4, <1>5 DEF CallsNext

\* A code whose sockets, session and count stay keeps its tally.
LEMMA TallyStays ==
    ASSUME NEW c \in Codes, CodeTally(c),
           PeersOf(c)' = PeersOf(c),
           session'[c] = session[c] \/ session'[c] = NoSession,
           Known(c) => peers'[session[c]] = peers[session[c]],
           \A s \in PeersOf(c) : rx'[s] = rx[s],
           \A s \in PeersOf(c) : phase'[s] = "relaying" => phase[s] = "relaying" /\ tx'[s] = tx[s]
    PROVE  CodeTally(c)'
  <1> HIDE DEF PeersOf
  <1>1. CASE session'[c] = session[c]
    BY <1>1 DEF CodeTally, Known
  <1>2. CASE session'[c] = NoSession
    BY <1>2 DEF CodeTally, Known
  <1> QED BY <1>1, <1>2

LEMMA CallsStep ==
    ASSUME CallsInv, [CallsNext]_callVars PROVE CallsInv'
  <1>s. SessionsInv /\ SessionsInv'
    BY SessionsStep DEF CallsInv
  <1>t. /\ session \in [Codes -> Sessions \cup {NoSession}] /\ peers \in [Sessions -> 0..2]
        /\ phase \in [Sockets -> Phases] /\ code \in [Sockets -> Codes \cup {NoSession}]
        /\ rx \in [Sockets -> Sessions \cup {NoSession}] /\ tx \in [Sockets -> Sessions \cup {NoSession}]
    BY <1>s DEF SessionsInv, CallsTypeOK
  <1>i. \A c \in Codes \ reused : CodeTally(c)
    BY DEF CallsInv
  <1> USE DEF sessionVars, socketVars
  <1> SUFFICES ASSUME NEW c \in Codes, c \notin reused' PROVE CodeTally(c)'
    BY <1>s DEF CallsInv
  <1>0. CASE UNCHANGED callVars
    BY <1>0, <1>i DEF callVars, CodeTally, PeersOf, Known
  <1>1. ASSUME NEW d \in Codes, NEW n \in Sessions, Create(d, n) PROVE CodeTally(c)'
    <2>1. PeersOf(c)' = PeersOf(c) /\ UNCHANGED <<peers, phase, code, rx, tx>>
          /\ reused' = reused \cup {e \in {d} : \E s \in Sockets : phase[s] # "idle" /\ code[s] = e}
      BY <1>1 DEF Create, PeersOf
    <2>2. CASE c # d
      <3>1. session'[c] \in {session[c], NoSession}
        BY <1>1, <1>t, <2>2 DEF Create
      <3> QED BY <1>i, <2>1, <3>1, TallyStays
    <2>3. CASE c = d
      <3>1. PeersOf(c) = {}
        BY <2>1, <2>3 DEF PeersOf
      <3>2. session'[c] = n /\ peers[n] = 0
        BY <1>1, <1>s, <1>t, <2>3 DEF Create, SessionsInv
      <3> QED BY <2>1, <3>1, <3>2, FS_EmptySet DEF CodeTally
    <2> QED BY <2>2, <2>3
  <1>2. ASSUME NEW n \in Sessions, Age(n) PROVE CodeTally(c)'
    <2>1. PeersOf(c)' = PeersOf(c) /\ c \notin reused
      BY <1>2 DEF Age, PeersOf
    <2> QED BY <1>2, <1>i, <2>1, TallyStays DEF Age
  <1>3. ASSUME NEW s \in Sockets, NEW d \in Codes, Join(s, d) PROVE CodeTally(c)'
    <2>1. /\ UNCHANGED <<session, reused, tx>> /\ Known(d) /\ s \notin PeersOf(c) /\ s \notin PeersOf(d)
          /\ \A t \in Sockets \ {s} : phase'[t] = phase[t] /\ code'[t] = code[t] /\ rx'[t] = rx[t]
          /\ phase'[s] = "joined" /\ code'[s] = d /\ rx'[s] = session[d]
      BY <1>3, <1>t DEF Join, PeersOf
    <2>2. session[d] \in Sessions
      BY <1>s, <2>1 DEF SessionsInv, CallsTypeOK
    <2>3. peers'[session[d]] = peers[session[d]] + 1 /\ \A m \in Sessions \ {session[d]} : peers'[m] = peers[m]
      BY <1>3, <1>t, <2>2 DEF Join
    <2>4. CASE c # d
      <3>1. PeersOf(c)' = PeersOf(c)
        BY <2>1, <2>4 DEF PeersOf
      <3>2. Known(c) => session[c] \in Sessions \ {session[d]}
        BY <1>s, <2>4 DEF SessionsInv, CallsTypeOK
      <3>3. \A t \in PeersOf(c) : rx'[t] = rx[t] /\ phase'[t] = phase[t]
        BY <2>1 DEF PeersOf
      <3> QED BY <1>i, <2>1, <2>3, <3>1, <3>2, <3>3, TallyStays
    <2>5. CASE c = d
      <3>1. PeersOf(c)' = PeersOf(c) \cup {s}
        BY <2>1, <2>5 DEF PeersOf
      <3>2. Cardinality(PeersOf(c)') = Cardinality(PeersOf(c)) + 1
        BY <2>1, <3>1, PeersFinite, FS_AddElement
      <3>3. \A t \in PeersOf(c) : rx'[t] = rx[t] /\ phase'[t] = phase[t]
        BY <2>1 DEF PeersOf
      <3>4. CodeTally(c) /\ Known(c)
        BY <1>i, <2>1, <2>5
      <3> QED BY <2>1, <2>3, <2>5, <3>1, <3>2, <3>3, <3>4 DEF CodeTally
    <2> QED BY <2>4, <2>5
  \* A socket that stays under its code.
  <1>4. ASSUME NEW s \in Sockets, Close(s) \/ Lag(s) \/ CloseLate(s) \/ (Attach(s) /\ Known(code[s]))
        PROVE  CodeTally(c)'
    <2>1. UNCHANGED <<session, peers, reused, code, rx>>
      BY <1>4 DEF Close, Lag, CloseLate, Attach
    <2>2. \A t \in Sockets \ {s} : phase'[t] = phase[t] /\ tx'[t] = tx[t]
      BY <1>4, <1>t DEF Close, Lag, CloseLate, Attach
    <2>3. phase'[s] # "idle" <=> phase[s] # "idle"
      BY <1>4, <1>t DEF Close, Lag, CloseLate, Attach
    <2>4. PeersOf(c)' = PeersOf(c)
      BY <2>1, <2>2, <2>3 DEF PeersOf
    <2>5. CASE ~Attach(s) \/ s \notin PeersOf(c)
      <3>1. s \in PeersOf(c) => phase'[s] # "relaying"
        BY <1>4, <1>t, <2>5 DEF Close, Lag, CloseLate, PeersOf
      <3>2. \A t \in PeersOf(c) : phase'[t] = "relaying" => phase[t] = "relaying" /\ tx'[t] = tx[t]
        BY <2>2, <3>1 DEF PeersOf
      <3> QED BY <1>i, <2>1, <2>4, <3>2, TallyStays
    <2>6. CASE Attach(s) /\ s \in PeersOf(c)
      <3>1. code[s] = c /\ Known(c) /\ tx'[s] = session[c]
        BY <1>4, <1>t, <2>6 DEF PeersOf, Attach, Close, Lag, CloseLate
      <3>2. CodeTally(c) /\ PeersOf(c) \subseteq Sockets
        BY <1>i, <2>1 DEF PeersOf
      <3> QED BY <2>1, <2>2, <2>4, <3>1, <3>2 DEF CodeTally, Known
    <2> QED BY <2>5, <2>6
  \* A socket that leaves its code.
  <1>5. ASSUME NEW s \in Sockets, LeaveCall(s) \/ (Attach(s) /\ ~Known(code[s])) PROVE CodeTally(c)'
    <2>1. /\ phase' = [phase EXCEPT ![s] = "idle"] /\ code' = [code EXCEPT ![s] = NoSession]
          /\ rx' = [rx EXCEPT ![s] = NoSession] /\ UNCHANGED <<reused, tx>> /\ phase[s] # "idle"
      BY <1>5 DEF LeaveCall, Attach, Gone
    <2>2. PeersOf(c)' = PeersOf(c) \ {s} /\ CodeTally(c)
      BY <1>i, <1>t, <2>1 DEF PeersOf
    <2>3. \A t \in PeersOf(c)' : rx'[t] = rx[t] /\ phase'[t] = phase[t] /\ tx'[t] = tx[t]
      BY <1>t, <2>1 DEF PeersOf
    <2>4. CASE ~Known(code[s])
      <3>1. UNCHANGED <<session, peers>>
        BY <1>5, <2>4 DEF LeaveCall, Attach
      <3>2. Known(c) => PeersOf(c)' = PeersOf(c)
        BY <2>2, <2>4 DEF PeersOf
      <3> QED BY <2>2, <2>3, <3>1, <3>2 DEF CodeTally, Known
    <2>5. CASE Known(code[s])
      <3>1. code[s] \in Codes /\ session[code[s]] \in Sessions
        BY <1>s, <2>1, <2>5 DEF SessionsInv, CallsTypeOK
      <3>2. /\ peers' = [peers EXCEPT ![session[code[s]]] = IF @ > 0 THEN @ - 1 ELSE 0]
            /\ session' = [session EXCEPT ![code[s]] = IF peers'[session[code[s]]] = 0 THEN NoSession ELSE @]
        BY <1>5, <2>5 DEF LeaveCall
      <3>3. CASE c # code[s]
        <4>1. PeersOf(c)' = PeersOf(c) /\ session'[c] = session[c]
          BY <1>t, <2>2, <3>1, <3>2, <3>3 DEF PeersOf
        <4>2. Known(c) => session[c] \in Sessions /\ session[c] # session[code[s]]
          BY <1>s, <3>1, <3>3 DEF SessionsInv, CallsTypeOK
        <4>3. Known(c) => peers'[session[c]] = peers[session[c]]
          BY <1>t, <3>1, <3>2, <4>2
        <4> QED BY <2>2, <2>3, <4>1, <4>3, TallyStays
      <3>4. CASE c = code[s]
        <4>1. s \in PeersOf(c) /\ Cardinality(PeersOf(c)') = Cardinality(PeersOf(c)) - 1
          <5>1. s \in PeersOf(c)
            BY <2>1, <3>4 DEF PeersOf
          <5> QED BY <2>2, <5>1, PeersFinite, FS_RemoveElement
        <4>2. Cardinality(PeersOf(c)) = peers[session[c]]
          BY <2>2, <2>5, <3>4 DEF CodeTally
        <4>3. peers[session[c]] \in 0..2 /\ Cardinality(PeersOf(c)) > 0
          <5>1. Cardinality(PeersOf(c)) # 0
            BY <4>1, PeersFinite, FS_EmptySet
          <5> QED BY <1>t, <3>1, <3>4, <5>1, PeersFinite
        <4>4. peers'[session[c]] = Cardinality(PeersOf(c)')
          BY <1>t, <3>1, <3>2, <3>4, <4>1, <4>2, <4>3
        <4>5. session'[c] = session[c] \/ session'[c] = NoSession
          BY <1>t, <3>1, <3>2, <3>4
        <4>6. PeersOf(c)' \subseteq PeersOf(c)
          BY <2>2
        <4> HIDE DEF PeersOf
        <4> QED BY <2>2, <2>3, <4>4, <4>5, <4>6 DEF CodeTally, Known
      <3> QED BY <3>3, <3>4
    <2> QED BY <2>4, <2>5
  <1> QED BY <1>0, <1>1, <1>2, <1>3, <1>4, <1>5 DEF CallsNext

LEMMA CallsAlways == CallsSpec => []CallsInv
  <1>1. ASSUME CallsInit PROVE CallsInv
    <2>1. SessionsInv
      BY <1>1 DEF CallsInit, SessionsInv, CallsTypeOK, Phases, Known
    <2>2. \A c \in Codes : PeersOf(c) = {} /\ ~Known(c)
      BY <1>1 DEF CallsInit, PeersOf, Known
    <2> QED BY <2>1, <2>2 DEF CallsInv, CodeTally
  <1>2. CallsInv /\ [CallsNext]_callVars => CallsInv'
    BY CallsStep
  <1> QED BY <1>1, <1>2, PTL DEF CallsSpec

\* However sockets come and leave, the session of a code counts its sockets,
\* and they write to the channel that they read from.
THEOREM CallsTally == CallsSpec => [](CallsTypeOK /\ CallTally)
  <1>1. CallsInv => CallsTypeOK /\ CallTally
    <2> SUFFICES ASSUME CallsInv, NEW c \in Codes, c \notin reused
                 PROVE  /\ Known(c) => /\ peers[session[c]] = Cardinality(PeersOf(c))
                                       /\ \A s \in PeersOf(c) : rx[s] = session[c]
                        /\ \A s, t \in PeersOf(c) : phase[s] = "relaying" => tx[s] = rx[t]
      BY DEF CallsInv, SessionsInv, CallTally
    <2>1. CodeTally(c)
      BY DEF CallsInv
    <2> QED BY <2>1 DEF CodeTally
  <1> QED BY <1>1, CallsAlways, PTL

-----------------------------------------------------------------------------
(* Passkeys.                                                               *)

Past == {"store_credential", "select_credential", "update_credential", "passkey_session"}
Holding == Past \cup {"del_ceremony"}
Finishing == Holding \cup {"get_ceremony"}

\* Only a ceremony that was started is answered, and only an answered one is
\* presented, for its rite.
PasskeyShape ==
    /\ PasskeyTypeOK
    /\ \A c \in answered : asked[c] # "none"
    /\ \A h \in Handlers : pc[h] \in Finishing => Answered(h) \in answered /\ asked[Answered(h)] = Rite(h)

\* The steps of a request.
PasskeyRequest(h) ==
    \/ \E r \in Rites : BeginStart(h, r)
    \/ \E c \in Ceremonies : SetCeremony(h, c) \/ BeginFinish(h, c)
    \/ ReadCredentials(h) \/ GetCeremony(h) \/ DelCeremony(h) \/ StoreCredential(h)
    \/ SelectCredential(h) \/ UpdateCredential(h) \/ PasskeySession(h) \/ DropPasskey(h)

PasskeyTyped == RequestsTypeOK(PasskeyLocations, PasskeyData)

\* It moves to a known location with data of the module, or ends.
LEMMA PasskeyMoves ==
    ASSUME PasskeyShape, NEW h \in Handlers, PasskeyRequest(h)
    PROVE  PasskeyTyped'
  <1>t. PasskeyTyped /\ pc[h] \in PasskeyLocations \cup {"idle"}
    BY DEF PasskeyShape, PasskeyTypeOK, PasskeyTyped, RequestsTypeOK
  <1>0. ASSUME ~At(h, "idle")
        PROVE  /\ local[h] \in PasskeyData
               /\ Rite(h) \in Rites /\ Answered(h) \in Ceremonies \cup {Nothing}
               /\ Held(h) \in Ceremonies \cup {Nothing} /\ Read(h) \in Nat
    BY <1>0, <1>t DEF PasskeyTyped, RequestsTypeOK, PasskeyData, Rite, Answered, Held, Read
  <1>1. ASSUME End(h) PROVE PasskeyTyped'
    BY <1>1, <1>t, LeaveType DEF End, PasskeyTyped, RequestsTypeOK
  <1>2. ASSUME NEW loc \in PasskeyLocations, Goto(h, loc), ~At(h, "idle") PROVE PasskeyTyped'
    BY <1>2, <1>t, <1>0, MovedType DEF Goto, Keep, PasskeyTyped, RequestsTypeOK
  <1>3. ASSUME NEW loc \in PasskeyLocations, NEW r \in Rites, NEW c \in Ceremonies \cup {Nothing},
               NEW d \in Ceremonies \cup {Nothing}, NEW n \in Nat,
               Keep(h, loc, Passing(r, c, d, n)) \/ Begin(h, loc, Passing(r, c, d, n))
        PROVE  PasskeyTyped'
    <2>1. Passing(r, c, d, n) \in PasskeyData
      BY DEF Passing, PasskeyData
    <2> QED BY <1>3, <2>1, <1>t, MovedType DEF Keep, Begin, PasskeyTyped, RequestsTypeOK
  <1> USE DEF PasskeyLocations, PasskeyShape, PasskeyTypeOK
  <1>5. CASE \E r \in Rites : BeginStart(h, r)
    BY <1>5, <1>3 DEF BeginStart
  <1>6. CASE \E c \in Ceremonies : BeginFinish(h, c)
    <2>1. PICK c \in Ceremonies : BeginFinish(h, c)
      BY <1>6
    <2>2. asked[c] \in Rites
      BY <2>1 DEF BeginFinish
    <2> QED BY <2>1, <2>2, <1>3 DEF BeginFinish
  <1>7. CASE ReadCredentials(h)
    BY <1>7, <1>0, <1>1, <1>3 DEF ReadCredentials, At
  <1>8. CASE GetCeremony(h)
    BY <1>8, <1>0, <1>1, <1>3 DEF GetCeremony, At
  <1>9. CASE DelCeremony(h)
    BY <1>9, <1>1, <1>2 DEF DelCeremony, Verify, At
  <1>10. CASE SelectCredential(h)
    BY <1>10, <1>0, <1>3 DEF SelectCredential, At
  <1>11. CASE StoreCredential(h) \/ UpdateCredential(h)
    BY <1>11, <1>2 DEF StoreCredential, UpdateCredential, At
  <1>12. CASE PasskeySession(h) \/ \E c \in Ceremonies : SetCeremony(h, c)
    BY <1>12, <1>1 DEF PasskeySession, SetCeremony
  <1>13. CASE DropPasskey(h)
    BY <1>13, <1>t, LeaveType, FaultType DEF DropPasskey, Dropped, PasskeyTyped
  <1> QED BY <1>5, <1>6, <1>7, <1>8, <1>9, <1>10, <1>11, <1>12, <1>13 DEF PasskeyRequest

\* No other request moves, and one that finishes presents what it came with.
LEMMA PasskeyPresents ==
    ASSUME PasskeyShape, NEW h \in Handlers, PasskeyRequest(h)
    PROVE  /\ \A g \in Handlers \ {h} : pc'[g] = pc[g] /\ local'[g] = local[g]
           /\ pc'[h] \in Finishing =>
                /\ Answered(h)' \in answered /\ asked[Answered(h)'] = Rite(h)'
                /\ ~At(h, "idle") => Answered(h)' = Answered(h) /\ Rite(h)' = Rite(h)
           /\ pc'[h] \in Past => pc[h] \in Holding /\ Held(h)' = Held(h)
  <1> USE DEF Moved, Passing, At, Past, Holding, Finishing, Rite, Answered, Held, Read
  <1>t. /\ pc \in [Handlers -> PasskeyLocations \cup {"idle"}]
        /\ local \in [Handlers -> PasskeyData \cup {Nothing}]
        /\ pc[h] \in Finishing => Answered(h) \in answered /\ asked[Answered(h)] = Rite(h)
    BY DEF PasskeyShape, PasskeyTypeOK, RequestsTypeOK
  <1>1. PICK loc, d : Moved(h, loc, d)
    BY DEF PasskeyRequest, BeginStart, SetCeremony, BeginFinish, ReadCredentials, GetCeremony, DelCeremony, Verify,
       StoreCredential, SelectCredential, UpdateCredential, PasskeySession, DropPasskey, Dropped, Begin, End, Leave, Keep, Goto
  <1>2. /\ \A g \in Handlers \ {h} : pc'[g] = pc[g] /\ local'[g] = local[g]
        /\ pc'[h] = loc /\ local'[h] = d
    BY <1>1, <1>t
  <1>3. CASE loc \notin Finishing
    BY <1>2, <1>3
  <1>4. CASE loc \in Finishing /\ \E c \in Ceremonies : BeginFinish(h, c)
    BY <1>2, <1>4, <1>t DEF BeginFinish, Begin, PasskeyShape
  <1>5. CASE loc \in Finishing /\ GetCeremony(h)
    BY <1>2, <1>5, <1>t DEF GetCeremony, Keep, End, Leave, PasskeyShape
  <1>6. CASE loc \in Finishing /\ DelCeremony(h)
    BY <1>2, <1>6, <1>t DEF DelCeremony, Verify, Goto, Keep, End, Leave
  <1>7. CASE loc \in Finishing /\ SelectCredential(h)
    BY <1>2, <1>7, <1>t DEF SelectCredential, Keep
  <1>8. CASE loc \in Finishing /\ (StoreCredential(h) \/ UpdateCredential(h))
    BY <1>2, <1>8, <1>t DEF StoreCredential, UpdateCredential, Goto, Keep
  <1>9. CASE loc \in Finishing /\ (ReadCredentials(h) \/ PasskeySession(h) \/ DropPasskey(h)
                                 \/ (\E c \in Ceremonies : SetCeremony(h, c)) \/ \E r \in Rites : BeginStart(h, r))
    BY <1>2, <1>9, <1>t DEF ReadCredentials, PasskeySession, DropPasskey, SetCeremony, BeginStart, Dropped, Begin,
       Keep, End, Leave
  <1> QED BY <1>3, <1>4, <1>5, <1>6, <1>7, <1>8, <1>9 DEF PasskeyRequest

LEMMA PasskeyShapeStep == ASSUME PasskeyShape, [PasskeyNext]_passkeyVars PROVE PasskeyShape'
  <1>1. ASSUME NEW h \in Handlers, PasskeyRequest(h) PROVE PasskeyShape'
    <2>1. PasskeyTyped'
      BY <1>1, PasskeyMoves
    <2>2. ceremony' \in [Rites -> Ceremonies \cup {Nothing}] /\ asked' \in [Ceremonies -> Rites \cup {"none"}]
          /\ base' \in [Ceremonies -> Nat]
      <3> USE DEF PasskeyShape, PasskeyTypeOK
      <3>1. ~At(h, "idle") => Rite(h) \in Rites /\ Read(h) \in Nat
        BY DEF RequestsTypeOK, PasskeyData, Rite, Read
      <3>2. CASE \E c \in Ceremonies : SetCeremony(h, c)
        BY <3>1, <3>2 DEF SetCeremony, At
      <3>3. CASE DelCeremony(h)
        BY <3>3 DEF DelCeremony
      <3> QED BY <1>1, <3>2, <3>3 DEF PasskeyRequest, BeginStart, BeginFinish, ReadCredentials, GetCeremony,
             StoreCredential, SelectCredential, UpdateCredential, PasskeySession, DropPasskey, passkeys, redisKeys
    <2>3. UNCHANGED <<answered, count, device>>
      BY <1>1 DEF PasskeyRequest, BeginStart, SetCeremony, BeginFinish, ReadCredentials, GetCeremony, DelCeremony,
         StoreCredential, SelectCredential, UpdateCredential, PasskeySession, DropPasskey, passkeys, authenticator
    <2>4. shared' \subseteq Ceremonies /\ enrolled' \in BOOLEAN /\ skewed' \in BOOLEAN
      <3> USE DEF PasskeyShape, PasskeyTypeOK
      <3>1. CASE GetCeremony(h)
        <4>1. Rite(h) \in Rites
          BY <3>1 DEF GetCeremony, At, RequestsTypeOK, PasskeyData, Rite
        <4> QED BY <3>1, <4>1 DEF GetCeremony, credential
      <3>2. CASE StoreCredential(h)
        BY <3>2 DEF StoreCredential
      <3>3. CASE UpdateCredential(h)
        BY <3>3 DEF UpdateCredential
      <3> QED BY <1>1, <3>1, <3>2, <3>3 DEF PasskeyRequest, BeginStart, SetCeremony, BeginFinish, ReadCredentials,
         DelCeremony, SelectCredential, PasskeySession, DropPasskey, passkeys, credential
    <2>5. counter' \in Nat
      <3>1. CASE UpdateCredential(h)
        BY <3>1 DEF UpdateCredential, At, PasskeyShape, PasskeyTypeOK, Finishing, Holding, Past
      <3> QED BY <1>1, <3>1 DEF PasskeyShape, PasskeyTypeOK, PasskeyRequest, BeginStart, SetCeremony, BeginFinish,
         ReadCredentials, GetCeremony, DelCeremony, StoreCredential, SelectCredential, PasskeySession, DropPasskey,
         passkeys, credential
    <2>6. sessions' \in [Ceremonies -> 0..2]
      BY <1>1 DEF PasskeyShape, PasskeyTypeOK, PasskeyRequest, BeginStart, SetCeremony, BeginFinish, ReadCredentials,
         GetCeremony, DelCeremony, StoreCredential, SelectCredential, UpdateCredential, PasskeySession, DropPasskey,
         passkeys
    <2>7. \A c \in Ceremonies : asked[c] # "none" => asked'[c] = asked[c]
      BY <1>1 DEF PasskeyShape, PasskeyTypeOK, PasskeyRequest, BeginStart, SetCeremony, BeginFinish, ReadCredentials,
         GetCeremony, DelCeremony, StoreCredential, SelectCredential, UpdateCredential, PasskeySession, DropPasskey,
         passkeys, redisKeys
    <2>8. PasskeyTypeOK'
      BY <2>1, <2>2, <2>3, <2>4, <2>5, <2>6 DEF PasskeyShape, PasskeyTypeOK, PasskeyTyped
    <2>9. answered \subseteq Ceremonies
      BY DEF PasskeyShape, PasskeyTypeOK
    <2> QED BY <1>1, <2>3, <2>7, <2>8, <2>9, PasskeyPresents DEF PasskeyShape, Answered, Rite
  <1>2. ASSUME NEW r \in Rites, CeremonyExpires(r) PROVE PasskeyShape'
    BY <1>2, RequestsStay DEF CeremonyExpires, authenticator, credential, requests, PasskeyShape, PasskeyTypeOK, Answered, Rite
  <1>3. ASSUME NEW c \in Ceremonies, Answer(c) PROVE PasskeyShape'
    BY <1>3, RequestsStay DEF Answer, redisKeys, credential, requests, PasskeyShape, PasskeyTypeOK, Answered, Rite
  <1>4. CASE UNCHANGED passkeyVars
    BY <1>4, RequestsStay DEF passkeyVars, passkeys, redisKeys, authenticator, credential, requests, PasskeyShape,
       PasskeyTypeOK, Answered, Rite
  <1> QED BY <1>1, <1>2, <1>3, <1>4 DEF PasskeyNext, PasskeyRequest

LEMMA PasskeyShapeAlways == PasskeySpec => []PasskeyShape
  <1>1. ASSUME RequestsInit, PasskeyInit PROVE PasskeyShape
    <2>1. RequestsTypeOK(PasskeyLocations, PasskeyData)
      BY <1>1, RequestsStart
    <2>2. /\ ceremony \in [Rites -> Ceremonies \cup {Nothing}] /\ asked \in [Ceremonies -> Rites \cup {"none"}]
          /\ base \in [Ceremonies -> Nat] /\ count \in [Ceremonies -> Nat] /\ sessions \in [Ceremonies -> 0..2]
      BY <1>1 DEF PasskeyInit
    <2>3. PasskeyTypeOK
      BY <1>1, <2>1, <2>2 DEF PasskeyInit, PasskeyTypeOK
    <2> QED BY <1>1, <2>3 DEF RequestsInit, PasskeyInit, PasskeyShape, Finishing, Holding, Past
  <1> QED BY <1>1, PasskeyShapeStep, PTL DEF PasskeySpec

\* The keys, the credential and the requests have their types.
THEOREM PasskeyTypeCorrect == PasskeySpec => []PasskeyTypeOK
  BY PasskeyShapeAlways, PTL DEF PasskeyShape

HoldsCeremony(h, c) == pc[h] \in Holding /\ Held(h) = c

\* A ceremony in redis has opened no session and is held by none that verified
\* it; one that was not shared has at most one holder, and none after it
\* opened its session.
OneUse(c) == /\ sessions[c] <= 1
             /\ \A g, h \in Handlers : HoldsCeremony(g, c) /\ HoldsCeremony(h, c) => g = h
             /\ sessions[c] = 1 => \A h \in Handlers : ~HoldsCeremony(h, c)

CeremonyOnce ==
    /\ \A r \in Rites : ceremony[r] # Nothing => asked[ceremony[r]] = r /\ sessions[ceremony[r]] = 0
    /\ \A h \in Handlers : pc[h] \in Holding => Held(h) \in Ceremonies /\ asked[Held(h)] = Rite(h)
    /\ \A h \in Handlers : pc[h] \in Past => Held(h) = Answered(h) /\ ceremony[Rite(h)] # Held(h)
    /\ \A c \in Ceremonies : sessions[c] > 0 => asked[c] # "none"
    /\ \A c \in Ceremonies \ shared : OneUse(c)

LEMMA CeremonyOnceStep ==
    ASSUME PasskeyShape, CeremonyOnce, [PasskeyNext]_passkeyVars PROVE CeremonyOnce'
  <1>0. Nothing \notin Ceremonies
    BY PasskeysAssumption
  <1> USE <1>0 DEF HoldsCeremony, OneUse, Moved, Passing, At, Past, Holding, Finishing, Rite, Answered, Held, Read
  <1>t. /\ pc \in [Handlers -> PasskeyLocations \cup {"idle"}]
        /\ local \in [Handlers -> PasskeyData \cup {Nothing}]
        /\ \A h \in Handlers : pc[h] # "idle" => local[h].rite \in Rites
        /\ \A h \in Handlers : pc[h] \in Finishing => Answered(h) \in Ceremonies
        /\ ceremony \in [Rites -> Ceremonies \cup {Nothing}]
        /\ asked \in [Ceremonies -> Rites \cup {"none"}]
        /\ sessions \in [Ceremonies -> 0..2] /\ shared \subseteq Ceremonies
    BY DEF PasskeyShape, PasskeyTypeOK, RequestsTypeOK, PasskeyData
  <1>1. ASSUME NEW h \in Handlers, UNCHANGED <<ceremony, asked, sessions, shared>>, NEW loc, NEW d, Moved(h, loc, d),
               loc \in Holding => /\ pc[h] \in Past /\ loc \in Past
                                   /\ d.held = Held(h) /\ d.answer = Answered(h) /\ d.rite = Rite(h)
        PROVE  CeremonyOnce'
    <2>1. /\ \A g \in Handlers \ {h} : pc'[g] = pc[g] /\ local'[g] = local[g]
          /\ pc'[h] = loc /\ local'[h] = d
      BY <1>1, <1>t
    <2>2. \A g \in Handlers : pc'[g] \in Holding => pc[g] \in Holding /\ Held(g)' = Held(g)
                                      /\ Answered(g)' = Answered(g) /\ Rite(g)' = Rite(g)
      BY <1>1, <2>1
    <2>3. \A g \in Handlers : pc'[g] \in Past => pc[g] \in Past
      BY <1>1, <2>1
    <2> QED BY <1>1, <2>2, <2>3 DEF CeremonyOnce
  <1>2. ASSUME NEW h \in Handlers,
               \/ ReadCredentials(h) \/ (\E r \in Rites : BeginStart(h, r))
               \/ (\E c \in Ceremonies : BeginFinish(h, c))
               \/ StoreCredential(h) \/ SelectCredential(h) \/ UpdateCredential(h) \/ DropPasskey(h)
        PROVE  CeremonyOnce'
    <2>0. UNCHANGED <<ceremony, asked, sessions, shared>>
      BY <1>2 DEF ReadCredentials, BeginStart, BeginFinish, StoreCredential, SelectCredential, UpdateCredential,
         DropPasskey, passkeys, redisKeys
    <2>1. CASE ReadCredentials(h)
      BY <1>1, <2>0, <2>1 DEF ReadCredentials, Keep, End, Leave
    <2>2. CASE \E r \in Rites : BeginStart(h, r)
      BY <1>1, <2>0, <2>2 DEF BeginStart, Begin
    <2>3. CASE \E c \in Ceremonies : BeginFinish(h, c)
      BY <1>1, <2>0, <2>3 DEF BeginFinish, Begin
    <2>4. CASE SelectCredential(h)
      BY <1>1, <2>0, <2>4 DEF SelectCredential, Keep
    <2>5. CASE DropPasskey(h)
      BY <1>1, <2>0, <2>5 DEF DropPasskey, Dropped, Leave
    <2>6. CASE StoreCredential(h)
      BY <1>1, <2>0, <2>6 DEF StoreCredential, Goto, Keep
    <2>7. CASE UpdateCredential(h)
      BY <1>1, <2>0, <2>7 DEF UpdateCredential, Goto, Keep
    <2> QED BY <1>2, <2>1, <2>2, <2>3, <2>4, <2>5, <2>6, <2>7
  <1>3. ASSUME NEW h \in Handlers, NEW c \in Ceremonies, SetCeremony(h, c) PROVE CeremonyOnce'
    <2>1. /\ asked[c] = "none" /\ ceremony' = [ceremony EXCEPT ![Rite(h)] = c] /\ asked' = [asked EXCEPT ![c] = Rite(h)]
          /\ Rite(h) \in Rites /\ UNCHANGED <<sessions, shared>>
      BY <1>3, <1>t DEF SetCeremony
    <2>2. pc'[h] = "idle" /\ \A g \in Handlers \ {h} : pc'[g] = pc[g] /\ local'[g] = local[g]
      BY <1>3, <1>t DEF SetCeremony, End, Leave
    <2>3. \A g \in Handlers : pc'[g] \in Holding => pc[g] \in Holding /\ local'[g] = local[g] /\ pc'[g] = pc[g]
      BY <2>2
    <2>4. \A g \in Handlers : pc[g] \in Holding => Held(g) # c /\ Rite(g) \in Rites
      BY <2>1, <1>t DEF CeremonyOnce, Rites
    <2>5. sessions[c] = 0
      BY <2>1, <1>t DEF CeremonyOnce
    <2>6. \A r \in Rites : ceremony'[r] # Nothing => asked'[ceremony'[r]] = r /\ sessions[ceremony'[r]] = 0
      BY <2>1, <2>5, <1>t DEF CeremonyOnce, Rites
    <2> QED BY <2>1, <2>3, <2>4, <2>5, <2>6, <1>t DEF CeremonyOnce
  <1>4. ASSUME NEW h \in Handlers, GetCeremony(h) PROVE CeremonyOnce'
    <2>1. /\ pc[h] = "get_ceremony" /\ Rite(h) \in Rites /\ UNCHANGED <<ceremony, asked, sessions>>
          /\ shared \subseteq shared'
      BY <1>4, <1>t DEF GetCeremony, redisKeys
    <2>2. \A g \in Handlers \ {h} : pc'[g] = pc[g] /\ local'[g] = local[g]
      BY <1>4, <1>t DEF GetCeremony, Keep, End, Leave
    <2>3. CASE ceremony[Rite(h)] = Nothing
      <3>1. pc'[h] = "idle"
        BY <1>4, <2>3, <1>t DEF GetCeremony, End, Leave
      <3> QED BY <2>1, <2>2, <3>1, <1>t DEF CeremonyOnce
    <2>4. CASE ceremony[Rite(h)] # Nothing
      <3> DEFINE c == ceremony[Rite(h)]
      <3>1. c \in Ceremonies /\ asked[c] = Rite(h) /\ sessions[c] = 0
        BY <2>1, <2>4, <1>t DEF CeremonyOnce
      <3>2. pc'[h] = "del_ceremony" /\ Held(h)' = c /\ Rite(h)' = Rite(h)
        BY <1>4, <2>4, <1>t DEF GetCeremony, Keep
      <3>3. c \notin shared' => \A g \in Handlers : ~HoldsCeremony(g, c)
        <4> SUFFICES ASSUME c \notin shared', NEW g \in Handlers, HoldsCeremony(g, c) PROVE FALSE
          OBVIOUS
        <4>1. pc[g] # "del_ceremony"
          BY <1>4, <2>4, <3>1 DEF GetCeremony
        <4>2. pc[g] \in Past
          BY <4>1
        <4> QED BY <4>2, <3>1 DEF CeremonyOnce
      <3>4. \A x \in Ceremonies \ shared' : OneUse(x)'
        <4> SUFFICES ASSUME NEW x \in Ceremonies \ shared' PROVE OneUse(x)'
          OBVIOUS
        <4>1. OneUse(x)
          BY <2>1 DEF CeremonyOnce
        <4>2. CASE x = c
          BY <2>1, <2>2, <3>1, <3>2, <3>3, <4>2
        <4>3. CASE x # c
          BY <2>1, <2>2, <3>2, <4>1, <4>3
        <4> QED BY <4>2, <4>3
      <3>5. /\ \A g \in Handlers : pc'[g] \in Holding => Held(g)' \in Ceremonies /\ asked[Held(g)'] = Rite(g)'
            /\ \A g \in Handlers : pc'[g] \in Past => Held(g)' = Answered(g)' /\ ceremony[Rite(g)'] # Held(g)'
        BY <2>1, <2>2, <3>1, <3>2 DEF CeremonyOnce
      <3> QED BY <2>1, <3>4, <3>5 DEF CeremonyOnce
    <2> QED BY <2>3, <2>4
  <1>5. ASSUME NEW h \in Handlers, DelCeremony(h) PROVE CeremonyOnce'
    <2>1. /\ pc[h] = "del_ceremony" /\ Rite(h) \in Rites /\ UNCHANGED <<asked, sessions, shared>>
          /\ ceremony' = [ceremony EXCEPT ![Rite(h)] = Nothing]
      BY <1>5, <1>t DEF DelCeremony
    <2>2. \A g \in Handlers \ {h} : pc'[g] = pc[g] /\ local'[g] = local[g]
      BY <1>5, <1>t DEF DelCeremony, Verify, Goto, Keep, End, Leave
    <2>3. pc'[h] = "idle" \/ (pc'[h] \in Past /\ local'[h] = local[h] /\ Held(h) = Answered(h))
      BY <1>5, <1>t DEF DelCeremony, Verify, Verified, Goto, Keep, End, Leave
    <2>4. \A g \in Handlers : pc'[g] \in Holding => pc[g] \in Holding /\ local'[g] = local[g]
      BY <2>1, <2>2, <2>3
    <2>5. \A g \in Handlers : pc'[g] \in Past => Held(g)' = Answered(g)' /\ ceremony'[Rite(g)'] # Held(g)'
      <3> SUFFICES ASSUME NEW g \in Handlers, pc'[g] \in Past
                   PROVE  Held(g)' = Answered(g)' /\ ceremony'[Rite(g)'] # Held(g)'
        OBVIOUS
      <3>1. CASE g = h
        BY <2>1, <2>3, <3>1, <1>t DEF CeremonyOnce
      <3>2. CASE g # h
        BY <2>1, <2>2, <3>2, <1>t DEF CeremonyOnce
      <3> QED BY <3>1, <3>2
    <2>6. \A r \in Rites : ceremony'[r] # Nothing => asked[ceremony'[r]] = r /\ sessions[ceremony'[r]] = 0
      BY <2>1, <1>t DEF CeremonyOnce
    <2> QED BY <2>1, <2>4, <2>5, <2>6 DEF CeremonyOnce
  <1>6. ASSUME NEW h \in Handlers, PasskeySession(h) PROVE CeremonyOnce'
    <2>1. /\ pc[h] = "passkey_session" /\ UNCHANGED <<ceremony, asked, shared>>
          /\ sessions' = [sessions EXCEPT ![Answered(h)] = IF @ = 0 THEN 1 ELSE 2]
      BY <1>6 DEF PasskeySession, redisKeys
    <2>2. pc'[h] = "idle" /\ \A g \in Handlers \ {h} : pc'[g] = pc[g] /\ local'[g] = local[g]
      BY <1>6, <1>t DEF PasskeySession, End, Leave
    <2>3. \A g \in Handlers : pc'[g] \in Holding => g # h /\ pc[g] \in Holding /\ local'[g] = local[g] /\ pc'[g] = pc[g]
      BY <2>2
    <2>4. Held(h) = Answered(h) /\ Answered(h) \in Ceremonies /\ asked[Held(h)] = Rite(h) /\ Rite(h) \in Rites
      BY <2>1, <1>t DEF CeremonyOnce
    <2>5. \A r \in Rites : ceremony[r] # Nothing => ceremony[r] # Answered(h)
      BY <2>1, <2>4, <1>t DEF CeremonyOnce
    <2>6. \A c \in Ceremonies : sessions'[c] > 0 => asked[c] # "none"
      BY <2>1, <2>4, <1>t DEF CeremonyOnce, Rites
    <2>7. \A c \in Ceremonies \ shared : OneUse(c)'
      <3> SUFFICES ASSUME NEW c \in Ceremonies \ shared PROVE OneUse(c)'
        OBVIOUS
      <3>1. OneUse(c)
        BY DEF CeremonyOnce
      <3>2. CASE c = Answered(h)
        <4>1. sessions[c] = 0
          BY <2>1, <2>4, <3>1, <3>2, <1>t
        <4>2. \A g \in Handlers : HoldsCeremony(g, c) => g = h
          BY <2>1, <2>4, <3>1, <3>2
        <4> QED BY <2>1, <2>3, <3>2, <4>1, <4>2, <1>t
      <3>3. CASE c # Answered(h)
        BY <2>1, <2>3, <3>1, <3>3, <1>t
      <3> QED BY <3>2, <3>3
    <2>8. \A r \in Rites : ceremony[r] # Nothing => asked[ceremony[r]] = r /\ sessions'[ceremony[r]] = 0
      BY <2>1, <2>5, <1>t DEF CeremonyOnce
    <2>9. /\ \A g \in Handlers : pc'[g] \in Holding => Held(g)' \in Ceremonies /\ asked[Held(g)'] = Rite(g)'
          /\ \A g \in Handlers : pc'[g] \in Past => Held(g)' = Answered(g)' /\ ceremony[Rite(g)'] # Held(g)'
      BY <2>3 DEF CeremonyOnce
    <2> QED BY <2>1, <2>6, <2>7, <2>8, <2>9 DEF CeremonyOnce
  <1>7. ASSUME NEW r \in Rites, CeremonyExpires(r) PROVE CeremonyOnce'
    BY <1>7, <1>t DEF CeremonyExpires, CeremonyOnce, requests
  <1>8. ASSUME NEW c \in Ceremonies, Answer(c) PROVE CeremonyOnce'
    BY <1>8 DEF Answer, CeremonyOnce, requests, redisKeys
  <1>9. CASE UNCHANGED passkeyVars
    BY <1>9 DEF passkeyVars, passkeys, redisKeys, CeremonyOnce, requests
  <1> QED BY <1>2, <1>3, <1>4, <1>5, <1>6, <1>7, <1>8, <1>9 DEF PasskeyNext

\* A session was opened with a counter that is stored by then, or an older one,
\* as long as no counter was written over one that had not been read.
CountersKept ==
    /\ \A c \in Ceremonies : asked[c] # "login" => count[c] = 0
    /\ \A h \in Handlers : At(h, "store_credential") => Rite(h) = "registration"
    /\ \A h \in Handlers : At(h, "update_credential") => Read(h) < count[Answered(h)]
    /\ \A h \in Handlers : At(h, "passkey_session") => count[Answered(h)] <= counter \/ skewed
    /\ \A c \in Ceremonies : sessions[c] > 0 => c \in answered /\ (count[c] <= counter \/ skewed)

LEMMA CountersKeptStep ==
    ASSUME PasskeyShape, CountersKept, [PasskeyNext]_passkeyVars PROVE CountersKept'
  <1> USE DEF Moved, Passing, At, Rite, Answered, Held, Read
  <1>t. /\ pc \in [Handlers -> PasskeyLocations \cup {"idle"}]
        /\ local \in [Handlers -> PasskeyData \cup {Nothing}]
        /\ \A h \in Handlers : pc[h] \in Finishing =>
             /\ Answered(h) \in answered /\ asked[Answered(h)] = Rite(h) /\ Rite(h) \in Rites
        /\ asked \in [Ceremonies -> Rites \cup {"none"}]
        /\ count \in [Ceremonies -> Nat] /\ answered \subseteq Ceremonies /\ counter \in Nat /\ device \in Nat
        /\ sessions \in [Ceremonies -> 0..2]
    BY DEF PasskeyShape, PasskeyTypeOK, RequestsTypeOK, PasskeyData, Finishing, Holding, Past
  <1>f. {"store_credential", "update_credential", "passkey_session", "select_credential", "del_ceremony"} \subseteq Finishing
    BY DEF Finishing, Holding, Past
  <1>1. ASSUME NEW h \in Handlers, UNCHANGED <<asked, answered, count, counter, sessions, skewed>>,
               NEW loc, NEW d, Moved(h, loc, d),
               loc \notin {"store_credential", "update_credential", "passkey_session"}
        PROVE  CountersKept'
    <2>1. /\ \A g \in Handlers \ {h} : pc'[g] = pc[g] /\ local'[g] = local[g]
          /\ pc'[h] = loc
      BY <1>1, <1>t
    <2> QED BY <1>1, <2>1 DEF CountersKept
  <1>2. ASSUME NEW h \in Handlers,
               \/ ReadCredentials(h) \/ (\E r \in Rites : BeginStart(h, r))
               \/ (\E c \in Ceremonies : BeginFinish(h, c)) \/ GetCeremony(h) \/ DropPasskey(h)
        PROVE  CountersKept'
    <2>0. UNCHANGED <<asked, answered, count, counter, sessions, skewed>>
      BY <1>2 DEF ReadCredentials, BeginStart, BeginFinish, GetCeremony, DropPasskey, passkeys, redisKeys,
         authenticator, credential
    <2>1. CASE ReadCredentials(h)
      BY <1>1, <2>0, <2>1 DEF ReadCredentials, Keep, End, Leave
    <2>2. CASE \E r \in Rites : BeginStart(h, r)
      BY <1>1, <2>0, <2>2 DEF BeginStart, Begin
    <2>3. CASE \E c \in Ceremonies : BeginFinish(h, c)
      BY <1>1, <2>0, <2>3 DEF BeginFinish, Begin
    <2>4. CASE GetCeremony(h)
      BY <1>1, <2>0, <2>4 DEF GetCeremony, Keep, End, Leave
    <2>5. CASE DropPasskey(h)
      BY <1>1, <2>0, <2>5 DEF DropPasskey, Dropped, Leave
    <2> QED BY <1>2, <2>1, <2>2, <2>3, <2>4, <2>5
  <1>3. ASSUME NEW h \in Handlers, NEW c \in Ceremonies, SetCeremony(h, c) PROVE CountersKept'
    <2>1. /\ pc'[h] = "idle" /\ \A g \in Handlers \ {h} : pc'[g] = pc[g] /\ local'[g] = local[g]
          /\ asked[c] = "none" /\ \A x \in Ceremonies \ {c} : asked'[x] = asked[x]
          /\ UNCHANGED <<answered, count, counter, sessions, skewed>>
      BY <1>3, <1>t DEF SetCeremony, End, Leave, authenticator, credential
    <2> QED BY <2>1 DEF CountersKept
  <1>4. ASSUME NEW h \in Handlers, DelCeremony(h) PROVE CountersKept'
    <2>1. /\ \A g \in Handlers \ {h} : pc'[g] = pc[g] /\ local'[g] = local[g]
          /\ UNCHANGED <<asked, answered, count, counter, sessions, skewed>>
      BY <1>4, <1>t DEF DelCeremony, Verify, Goto, Keep, End, Leave, authenticator, credential
    <2>2. \/ pc'[h] = "idle"
          \/ pc'[h] = "select_credential"
          \/ pc'[h] = "store_credential" /\ Rite(h) # "login" /\ Rite(h)' = Rite(h)
      BY <1>4, <1>t DEF DelCeremony, Verify, Goto, Keep, End, Leave
    <2>3. Rite(h) \in Rites
      BY <1>4, <1>t, <1>f DEF DelCeremony
    <2> QED BY <2>1, <2>2, <2>3 DEF CountersKept, Rites
  <1>5. ASSUME NEW h \in Handlers, StoreCredential(h) PROVE CountersKept'
    <2>1. /\ pc'[h] = "passkey_session" /\ local'[h] = local[h]
          /\ \A g \in Handlers \ {h} : pc'[g] = pc[g] /\ local'[g] = local[g]
          /\ UNCHANGED <<asked, answered, count, counter, sessions, skewed>>
      BY <1>5, <1>t DEF StoreCredential, Goto, Keep, redisKeys, authenticator
    <2>2. count[Answered(h)] = 0
      BY <1>5, <1>t, <1>f DEF StoreCredential, CountersKept
    <2> QED BY <2>1, <2>2, <1>t DEF CountersKept
  <1>6. ASSUME NEW h \in Handlers, SelectCredential(h) PROVE CountersKept'
    <2>1. /\ \A g \in Handlers \ {h} : pc'[g] = pc[g] /\ local'[g] = local[g]
          /\ Answered(h)' = Answered(h) /\ Read(h)' = counter
          /\ pc'[h] = IF count[Answered(h)] > counter THEN "update_credential" ELSE "passkey_session"
          /\ UNCHANGED <<asked, answered, count, counter, sessions, skewed>>
      BY <1>6, <1>t DEF SelectCredential, Keep, passkeys, redisKeys, authenticator, credential
    <2>2. count[Answered(h)] \in Nat
      BY <1>6, <1>t, <1>f DEF SelectCredential
    <2> QED BY <2>1, <2>2, <1>t DEF CountersKept
  <1>7. ASSUME NEW h \in Handlers, UpdateCredential(h) PROVE CountersKept'
    <2>1. /\ pc'[h] = "passkey_session" /\ local'[h] = local[h]
          /\ \A g \in Handlers \ {h} : pc'[g] = pc[g] /\ local'[g] = local[g]
          /\ UNCHANGED <<asked, answered, count, sessions>>
          /\ counter' = count[Answered(h)] /\ (skewed' <=> (skewed \/ counter # Read(h)))
      BY <1>7, <1>t DEF UpdateCredential, Goto, Keep, redisKeys, authenticator
    <2>2. Read(h) < count[Answered(h)] /\ count[Answered(h)] \in Nat
      BY <1>7, <1>t, <1>f DEF UpdateCredential, CountersKept
    <2>3. skewed' \/ counter < counter'
      BY <2>1, <2>2
    <2>4. \A g \in Handlers : pc[g] = "passkey_session" => count[Answered(g)] \in Nat
      BY <1>t, <1>f
    <2>5. \A g \in Handlers : pc'[g] = "passkey_session" => count[Answered(g)'] <= counter' \/ skewed'
      BY <2>1, <2>2, <2>3, <2>4, <1>t DEF CountersKept
    <2>6. \A c \in Ceremonies : sessions[c] > 0 => c \in answered /\ (count[c] <= counter' \/ skewed')
      BY <2>1, <2>2, <2>3, <1>t DEF CountersKept
    <2> QED BY <2>1, <2>5, <2>6 DEF CountersKept
  <1>8. ASSUME NEW h \in Handlers, PasskeySession(h) PROVE CountersKept'
    <2>1. /\ pc'[h] = "idle" /\ \A g \in Handlers \ {h} : pc'[g] = pc[g] /\ local'[g] = local[g]
          /\ UNCHANGED <<asked, answered, count, counter, skewed>>
          /\ pc[h] = "passkey_session" /\ \A c \in Ceremonies \ {Answered(h)} : sessions'[c] = sessions[c]
      BY <1>8, <1>t DEF PasskeySession, End, Leave, redisKeys, authenticator, credential
    <2>2. Answered(h) \in answered
      BY <2>1, <1>t, <1>f
    <2> QED BY <2>1, <2>2 DEF CountersKept
  <1>9. ASSUME NEW r \in Rites, CeremonyExpires(r) PROVE CountersKept'
    BY <1>9 DEF CeremonyExpires, CountersKept, requests, authenticator, credential
  <1>10. ASSUME NEW c \in Ceremonies, Answer(c) PROVE CountersKept'
    <2>1. /\ UNCHANGED <<pc, local, asked, counter, sessions, skewed>> /\ answered \subseteq answered'
          /\ c \notin answered /\ \A x \in Ceremonies \ {c} : count'[x] = count[x]
          /\ asked[c] # "login" => count' = count
      BY <1>10, <1>t DEF Answer, requests, redisKeys, credential
    <2>2. \A h \in Handlers : pc[h] \in Finishing => count'[Answered(h)] = count[Answered(h)]
      BY <2>1, <1>t
    <2> QED BY <2>1, <2>2, <1>f DEF CountersKept
  <1>11. CASE UNCHANGED passkeyVars
    BY <1>11 DEF passkeyVars, passkeys, redisKeys, authenticator, credential, CountersKept, requests
  <1> QED BY <1>2, <1>3, <1>4, <1>5, <1>6, <1>7, <1>8, <1>9, <1>10, <1>11 DEF PasskeyNext

\* A ceremony opens one session unless it was shared, and the stored counter is
\* the newest a session was opened with unless one was overwritten unread.
THEOREM CeremoniesCount == PasskeySpec => []CeremonyCounts
  <1>1. RequestsInit /\ PasskeyInit => CeremonyOnce /\ CountersKept
    BY DEF RequestsInit, PasskeyInit, CeremonyOnce, CountersKept, OneUse, HoldsCeremony, Holding, Past, At
  <1>2. PasskeyShape /\ CeremonyOnce /\ CountersKept /\ [PasskeyNext]_passkeyVars => CeremonyOnce' /\ CountersKept'
    BY CeremonyOnceStep, CountersKeptStep
  <1>3. PasskeyShape /\ CeremonyOnce /\ CountersKept => CeremonyCounts
    BY DEF PasskeyShape, PasskeyTypeOK, CeremonyOnce, OneUse, CountersKept, CeremonyCounts
  <1> QED BY <1>1, <1>2, <1>3, PasskeyShapeAlways, PTL DEF PasskeySpec

-----------------------------------------------------------------------------
(* JobWatch.                                                               *)

\* A completed job has its audio object, at any age.
WatchInv == /\ WatchTypeOK
            /\ \A j \in Jobs : status[j] = "completed" => j \in audio
            /\ ToldIsFinal

\* What the table does to a row: a young row of one process is final once it is
\* terminal, and objects stay.
LEMMA TableKeeps ==
    ASSUME WatchInv, Table!Next
    PROVE  /\ status' \in [Jobs -> Answers] /\ audio' \subseteq Jobs /\ aged' \subseteq Jobs
           /\ audio \subseteq audio' /\ aged \subseteq aged'
           /\ \A j \in Jobs : status'[j] = "completed" => j \in audio'
           /\ \A j \in Jobs : IsTerminal(status[j]) =>
                                status'[j] = status[j] \/ (Shared /\ j \in aged)
  <1> USE DEF WatchInv, WatchTypeOK, Answers, IsTerminal
  <1>1. ASSUME NEW j \in Jobs, Table!Submit(j) \/ Table!Claim(j) PROVE (audio' = audio /\ aged' = aged)
               /\ status' \in [Jobs -> Answers]
               /\ (\A i \in Jobs : status'[i] = status[i] \/ (i = j /\ status[i] \in {"none", "queued"} /\ status'[i] \in {"queued", "processing"}))
    BY <1>1 DEF Table!Submit, Table!Claim
  <1>2. ASSUME NEW j \in Jobs, Table!Store(j)
        PROVE  status' = status /\ aged' = aged /\ audio' = audio \cup {j}
    BY <1>2 DEF Table!Store
  <1>3. ASSUME NEW j \in Jobs, Table!Complete(j) \/ Table!Fail(j)
        PROVE  /\ audio' = audio /\ aged' = aged /\ status' \in [Jobs -> Answers]
               /\ status'[j] = "completed" => j \in audio
               /\ status[j] = "processing" \/ (Shared /\ j \in aged)
               /\ \A i \in Jobs \ {j} : status'[i] = status[i]
    BY <1>3 DEF Table!Complete, Table!Fail, Table!UnderWay
  <1>4. ASSUME NEW S \in SUBSET Jobs, Table!Age(S)
        PROVE  status' = status /\ audio' = audio /\ aged' = aged \cup S
    BY <1>4 DEF Table!Age
  <1>5. ASSUME NEW S \in SUBSET Jobs, Table!Requeue(S)
        PROVE  /\ audio' = audio /\ aged' = aged /\ status' \in [Jobs -> Answers]
               /\ \A i \in Jobs : status'[i] = status[i] \/ (status[i] = "processing" /\ status'[i] = "queued")
    BY <1>5 DEF Table!Requeue
  <1> QED BY <1>1, <1>2, <1>3, <1>4, <1>5 DEF Table!Next

LEMMA WatchStep == ASSUME WatchInv, [WatchNext]_watchVars PROVE WatchInv'
  <1> USE WatchAssumption DEF WatchInv, WatchTypeOK
  <1>1. CASE TableStep
    <2>1. UNCHANGED <<target, link, told, misled, misreads>> /\ Table!Next
      BY <1>1 DEF TableStep, sockets
    <2>2. WatchTypeOK' /\ (\A j \in Jobs : status[j] = "completed" => j \in audio)'
      BY <2>1, TableKeeps
    <2>3. ToldIsFinal'
      BY <2>1, TableKeeps DEF ToldIsFinal, IsTerminal
    <2> QED BY <2>2, <2>3
  <1>2. ASSUME NEW w \in Watchers, NEW j \in Jobs, Connect(w, j) PROVE WatchInv'
    BY <1>2 DEF Connect, jobTable, ToldIsFinal, IsTerminal, Answers
  <1>3. ASSUME NEW w \in Watchers, Poll(w) PROVE WatchInv'
    BY <1>3 DEF Poll, Tell, Row, jobTable, ToldIsFinal, IsTerminal, Answers
  <1>4. ASSUME NEW w \in Watchers, Misread(w) PROVE WatchInv'
    BY <1>4 DEF Misread, Tell, jobTable, ToldIsFinal, IsTerminal, Answers
  <1>5. ASSUME NEW w \in Watchers, Send(w) PROVE WatchInv'
    BY <1>5 DEF Send, jobTable, ToldIsFinal, IsTerminal
  <1>6. ASSUME NEW w \in Watchers, Disconnect(w) PROVE WatchInv'
    BY <1>6 DEF Disconnect, jobTable, ToldIsFinal, IsTerminal, Answers
  <1>7. CASE UNCHANGED watchVars
    BY <1>7 DEF watchVars, jobTable, sockets, ToldIsFinal, IsTerminal
  <1> QED BY <1>1, <1>2, <1>3, <1>4, <1>5, <1>6, <1>7 DEF WatchNext

\* A client that was told an end finds it ever after.
THEOREM ToldStaysTrue == WatchSpec => [](WatchTypeOK /\ ToldIsFinal)
  <1>1. WatchInit => WatchInv
    BY WatchAssumption DEF WatchInit, Table!Init, WatchInv, WatchTypeOK, ToldIsFinal, Answers
  <1>2. WatchInv => WatchTypeOK /\ ToldIsFinal
    BY DEF WatchInv
  <1> QED BY <1>1, <1>2, WatchStep, PTL DEF WatchSpec

-----------------------------------------------------------------------------
(* ZcashScanner.                                                           *)

\* How often a note may have been credited by now: once in every earlier life
\* of the process, and in the present one if its transaction was worked on.
Lives(n) == IF TxOf[n] \in seen \/ (place = "record" /\ payment = n) THEN starts ELSE starts - 1

Paid(n) == credited[n] > 0 \/ n \in unfunded

ZcashInv ==
    /\ ZcashTypeOK
    /\ \A n \in Notes : credited[n] <= Lives(n) + unrecorded[n]
    /\ place \in Statements => TxOf[payment] \notin seen
    /\ place = "record" => Paid(payment)
    /\ \A t \in seen : \E n \in Notes : TxOf[n] = t /\ Paid(n)
    /\ zidRow = "bare" => cut \/ creating \/ (place = "add_credits" /\ mine)

LEMMA ZcashStep == ASSUME ZcashInv, [ZcashNext]_zcashVars PROVE ZcashInv'
  <1> USE ZcashAssumption DEF ZcashInv, ZcashTypeOK, Statements, Lives, Paid
  <1>1. ASSUME NEW n \in Notes, Confirm(n) PROVE ZcashInv'
    BY <1>1 DEF Confirm, accountRows, scanning
  <1>2. ASSUME NEW n \in Notes, NextNote(n) PROVE ZcashInv'
    BY <1>2 DEF NextNote, accountRows, received
  <1>3. CASE ListReceived
    BY <1>3 DEF ListReceived, accountRows, received
  <1>4. CASE EndScan
    BY <1>4 DEF EndScan, accountRows, received
  <1>5. CASE FindAccount
    BY <1>5 DEF FindAccount, accountRows, received
  <1>6. CASE AddAccount
    BY <1>6 DEF AddAccount, received
  <1>7. CASE AddCredits
    BY <1>7 DEF AddCredits, Abort, received
  <1>8. CASE CreditPayment
    BY <1>8 DEF CreditPayment, accountRows
  <1>9. CASE RecordPayment
    BY <1>9 DEF RecordPayment, accountRows, received
  <1>10. CASE StatementFails
    BY <1>10 DEF StatementFails, Abort, Failure
  <1>11. CASE RestartScanner
    <2>1. starts' = starts + 1 /\ starts' \in 1..MaxStarts /\ place' = "idle" /\ seen' = {} /\ todo' = {}
      BY <1>11 DEF RestartScanner, Abort
    <2>2. ZcashTypeOK'
      BY <1>11, <2>1 DEF RestartScanner, received
    <2>3. ASSUME NEW n \in Notes PROVE (credited[n] <= Lives(n) + unrecorded[n])'
      BY <1>11, <2>1 DEF RestartScanner, received
    <2> QED BY <1>11, <2>1, <2>2, <2>3 DEF RestartScanner, received
  <1>12. CASE CreateForRequest
    BY <1>12 DEF CreateForRequest, scanning, received
  <1>13. CASE FundForRequest
    BY <1>13 DEF FundForRequest, scanning, received
  <1>14. CASE CutRequest
    <2>1. failures' \in 0..MaxFailures
      BY <1>14 DEF CutRequest, Failure
    <2>2. UNCHANGED <<zidRow, mine, starts, seen, todo, payment, place, confirmed, credited, unfunded, unrecorded>>
          /\ creating' = FALSE /\ cut' = TRUE
      BY <1>14 DEF CutRequest, scanning, received
    <2> QED BY <2>1, <2>2
  <1>15. CASE UNCHANGED zcashVars
    BY <1>15 DEF zcashVars, accountRows, scanning, received
  <1> QED BY <1>1, <1>2, <1>3, <1>4, <1>5, <1>6, <1>7, <1>8, <1>9, <1>10, <1>11, <1>12, <1>13, <1>14, <1>15
          DEF ZcashNext

\* A note is credited once in every life of the process, but for lost records.
THEOREM NotesCreditedPerStart == ZcashSpec => [](ZcashTypeOK /\ CreditedPerStart)
  <1>1. ASSUME ZcashInit PROVE ZcashInv
    <2>1. starts \in 1..MaxStarts /\ failures \in 0..MaxFailures
      BY <1>1, ZcashAssumption DEF ZcashInit
    <2>2. ZcashTypeOK
      BY <1>1, <2>1 DEF ZcashInit, ZcashTypeOK
    <2>3. \A n \in Notes : credited[n] <= Lives(n) + unrecorded[n]
      BY <1>1 DEF ZcashInit, Lives
    <2> QED BY <1>1, <2>2, <2>3 DEF ZcashInit, ZcashInv, Statements
  <1>2. ZcashInv => ZcashTypeOK /\ CreditedPerStart
    BY DEF ZcashInv, ZcashTypeOK, CreditedPerStart, Lives, Paid
  <1> QED BY <1>1, <1>2, ZcashStep, PTL DEF ZcashSpec

-----------------------------------------------------------------------------
(* Handshake.                                                              *)

\* Of one connection: a session is in the worker's table from the handshake
\* on, and the slot leads to it as soon as the client hears of it; what ends
\* without the slot ended during the handshake.
Link(c) ==
    /\ dial[c] = "idle" => connection[c] = "none" /\ serving[c] = "none"
    /\ Up(c) => serving[c] = "accepting" /\ dial[c] \notin {"idle", "failed"}
    /\ serving[c] = "removing" => slot[c] /\ ~Up(c)
    /\ dial[c] \in {"idle", "dialled", "attesting"} =>
           ~slot[c] /\ c \notin noiseTable /\ streamTask[c] \in {"none", "attest", "answered", "gone"}
    /\ streamTask[c] = "attest" => dial[c] \in {"attesting", "failed"}
    /\ slot[c] => streamTask[c] \in {"recorded", "answered", "gone"}
    /\ c \in noiseTable => bundle[c].key = boot /\ (slot[c] \/ streamTask[c] = "inserted")
    /\ Up(c) /\ streamTask[c] \in {"inserted", "recorded"} => c \in noiseTable
    /\ streamTask[c] = "recorded" => slot[c]
    /\ Up(c) /\ \/ dial[c] \in {"complete", "stored"}
                \/ dial[c] = "greeting" /\ streamTask[c] = "answered"
           => c \in noiseTable /\ slot[c]
    /\ serving[c] = "done" /\ (c \in noiseTable \/ streamTask[c] \in {"handshake", "read", "inserted"})
           => c \in cutShort

HandshakeShape == HandshakeTypeOK /\ \A c \in Connections : Link(c)

Shaking(c) == \/ Dial(c) \/ RequestAttestation(c) \/ Greet(c) \/ Complete(c) \/ Store(c) \/ ConnectFails(c)
              \/ Attest(c) \/ ReadHandshake(c) \/ ProcessHandshake(c) \/ FillSlot(c) \/ Respond(c) \/ StreamFails(c)
              \/ LeaveLoop(c) \/ RemoveSession(c) \/ Break(c)

LEMMA HandshakeTyped ==
    ASSUME HandshakeTypeOK, [HandshakeNext]_handshakeVars PROVE HandshakeTypeOK'
  <1> USE HandshakeAssumption DEF HandshakeTypeOK, Dialling, Dials, Tasks, Servings, Up
  <1>1. ASSUME NEW c \in Connections, Shaking(c) PROVE HandshakeTypeOK'
    <2>1. CASE Dial(c)
      BY <2>1 DEF Dial
    <2>2. CASE RequestAttestation(c)
      BY <2>2 DEF RequestAttestation, SendMessage
    <2>3. CASE Greet(c)
      BY <2>3 DEF Greet, SendMessage
    <2>4. CASE Complete(c) \/ Store(c) \/ ConnectFails(c)
      BY <2>4 DEF Complete, Store, ConnectFails, workerVars
    <2>5. CASE Attest(c)
      BY <2>5 DEF Attest, Task
    <2>6. CASE ReadHandshake(c) \/ ProcessHandshake(c)
      BY <2>6 DEF ReadHandshake, ProcessHandshake, Task, dialVars
    <2>7. CASE FillSlot(c) \/ Respond(c)
      BY <2>7 DEF FillSlot, Respond, Task, dialVars
    <2>8. CASE StreamFails(c)
      BY <2>8 DEF StreamFails, Task, dialVars
    <2>9. CASE LeaveLoop(c) \/ RemoveSession(c)
      BY <2>9 DEF LeaveLoop, RemoveSession, dialVars
    <2>10. CASE Break(c)
      BY <2>10 DEF Break, dialVars, workerVars
    <2> QED BY <1>1, <2>1, <2>2, <2>3, <2>4, <2>5, <2>6, <2>7, <2>8, <2>9, <2>10 DEF Shaking
  <1>2. CASE RestartWorker
    <2>1. connection' \in [Connections -> {"none", "up", "down"}] /\ streamTask' \in [Connections -> Tasks]
          /\ serving' \in [Connections -> Servings]
      BY <1>2 DEF RestartWorker
    <2> QED BY <1>2, <2>1 DEF RestartWorker, dialVars
  <1>3. CASE UNCHANGED handshakeVars
    BY <1>3 DEF handshakeVars, dialVars, workerVars
  <1> QED BY <1>1, <1>2, <1>3 DEF HandshakeNext, Shaking

LEMMA LinkStep ==
    ASSUME HandshakeShape, [HandshakeNext]_handshakeVars PROVE \A d \in Connections : Link(d)'
  <1> SUFFICES ASSUME NEW d \in Connections PROVE Link(d)'
    OBVIOUS
  <1> USE DEF HandshakeShape, HandshakeTypeOK, Dialling, Dials, Tasks, Servings, Up, Link
  <1>1. ASSUME NEW c \in Connections, Shaking(c) PROVE Link(d)'
    <2>1. CASE Dial(c)
      BY <2>1 DEF Dial
    <2>2. CASE RequestAttestation(c)
      BY <2>2 DEF RequestAttestation, SendMessage
    <2>3. CASE Greet(c)
      BY <2>3 DEF Greet, SendMessage
    <2>4. CASE Complete(c)
      BY <2>4 DEF Complete, workerVars
    <2>41. CASE Store(c)
      BY <2>41 DEF Store, workerVars
    <2>42. CASE ConnectFails(c)
      BY <2>42 DEF ConnectFails, workerVars
    <2>5. CASE Attest(c)
      BY <2>5 DEF Attest, Task
    <2>6. CASE ReadHandshake(c)
      BY <2>6 DEF ReadHandshake, Task, dialVars
    <2>61. CASE ProcessHandshake(c)
      BY <2>61 DEF ProcessHandshake, Task, dialVars
    <2>7. CASE FillSlot(c)
      BY <2>7 DEF FillSlot, Task, dialVars
    <2>71. CASE Respond(c)
      BY <2>71 DEF Respond, Task, dialVars
    <2>8. CASE StreamFails(c)
      BY <2>8 DEF StreamFails, Task, dialVars
    <2>9. CASE LeaveLoop(c)
      BY <2>9 DEF LeaveLoop, dialVars
    <2>91. CASE RemoveSession(c)
      BY <2>91 DEF RemoveSession, dialVars
    <2>10. CASE Break(c)
      BY <2>10 DEF Break, dialVars, workerVars
    <2> QED BY <1>1, <2>1, <2>2, <2>3, <2>4, <2>41, <2>42, <2>5, <2>6, <2>61, <2>7, <2>71, <2>8, <2>9, <2>91, <2>10 DEF Shaking
  <1>2. CASE RestartWorker
    BY <1>2 DEF RestartWorker, dialVars
  <1>3. CASE UNCHANGED handshakeVars
    BY <1>3 DEF handshakeVars, dialVars, workerVars
  <1> QED BY <1>1, <1>2, <1>3 DEF HandshakeNext, Shaking

LEMMA HandshakeShapeAlways == HandshakeSpec => []HandshakeShape
  <1>1. HandshakeInit => HandshakeShape
    BY HandshakeAssumption DEF HandshakeInit, HandshakeShape, HandshakeTypeOK, Link, Up, Dials, Tasks, Servings
  <1>2. HandshakeShape /\ [HandshakeNext]_handshakeVars => HandshakeShape'
    BY HandshakeTyped, LinkStep DEF HandshakeShape
  <1> QED BY <1>1, <1>2, PTL DEF HandshakeSpec

\* The types of the handshake.
THEOREM HandshakeTypeCorrect == HandshakeSpec => []HandshakeTypeOK
  BY HandshakeShapeAlways, PTL DEF HandshakeShape

(* A stored connection that is up has its session, under the attested key, *)
(* and a session outlives its connection only if that was cut in its       *)
(* handshake.                                                              *)
THEOREM SessionsPaired == HandshakeSpec => []SessionPaired
  <1>1. HandshakeShape => SessionPaired
    BY DEF HandshakeShape, Link, SessionPaired, HandshakeTypeOK
  <1> QED BY <1>1, HandshakeShapeAlways, PTL

-----------------------------------------------------------------------------
(* ObjectStore.                                                            *)

\* A private bucket has its start about to open it or lost; what was told of
\* an upload stays so; what is about to be pinned is on IPFS.
StoreSound ==
    /\ bucket = "private" => startCut \/ \E h \in Handlers : At(h, "policy")
    /\ \A t \in results : t.backend = "minio" => t.file \in inBucket /\ bucket # "absent"
    /\ \A t \in results : t.backend = "ipfs" =>
           t.file \in onIpfs /\ (t.order => t.file \in pinned) /\ (~t.order /\ crustToken => faults > 0)
    /\ \A h \in Handlers : At(h, "pin") => local[h] \in onIpfs

\* Every step keeps the types.
LEMMA StoreTyped ==
    ASSUME StoreTypeOK, [StoreNext]_<<requests, storeVars>> PROVE StoreTypeOK'
  <1> DEFINE R == RequestsTypeOK(StartLocations \cup UploadLocations, Files \cup {"start"})
             K == \A h \in Handlers : pc[h] \in UploadLocations => local[h] \in Files
  <1> USE DEF StartLocations, UploadLocations
  <1>t. R /\ K /\ pc \in [Handlers -> StartLocations \cup UploadLocations \cup {"idle"}]
           /\ local \in [Handlers -> Files \cup {"start"} \cup {Nothing}] /\ faults \in 0..MaxFaults
           /\ \A h \in Handlers : At(h, "idle") \/ local[h] \in Files \cup {"start"}
    BY DEF StoreTypeOK, RequestsTypeOK
  <1>m. ASSUME NEW h \in Handlers, NEW loc \in StartLocations \cup UploadLocations, NEW d \in Files \cup {"start"},
               Moved(h, loc, d), faults' \in 0..MaxFaults, loc \in UploadLocations => d \in Files
        PROVE  R' /\ K'
    BY <1>m, <1>t, MovedType DEF Moved
  <1>l. ASSUME NEW h \in Handlers, Leave(h), faults' \in 0..MaxFaults PROVE R' /\ K'
    BY <1>l, <1>t, LeaveType DEF Leave, Moved
  <1>f. Fault => faults' \in 0..MaxFaults
    BY <1>t, FaultType
  <1>1. ASSUME NEW h \in Handlers,
               \/ BeginEnsure(h) \/ HeadBucket(h) \/ HeadFails(h) \/ CreateBucket(h) \/ PutPolicy(h) \/ CutStart(h)
               \/ (\E f \in Files : BeginUploadOf(h, f))
               \/ PutInBucket(h) \/ AddToIpfs(h) \/ PinToCrust(h) \/ PinFails(h) \/ CutUpload(h)
        PROVE  R' /\ K'
    <2>1. CASE BeginEnsure(h)
      BY <2>1, <1>m, <1>t DEF BeginEnsure, Begin
    <2>2. CASE HeadBucket(h)
      BY <2>2, <1>m, <1>l, <1>t DEF HeadBucket, Goto, Keep, End, At
    <2>3. CASE HeadFails(h)
      BY <2>3, <1>m, <1>f, <1>t DEF HeadFails, At
    <2>4. CASE CreateBucket(h)
      BY <2>4, <1>m, <1>l, <1>t DEF CreateBucket, Goto, Keep, End, At
    <2>5. CASE PutPolicy(h) \/ PutInBucket(h) \/ PinToCrust(h)
      BY <2>5, <1>l, <1>t DEF PutPolicy, PutInBucket, PinToCrust, End
    <2>6. CASE CutStart(h) \/ CutUpload(h)
      BY <2>6, <1>l, <1>f DEF CutStart, CutUpload, Dropped
    <2>7. CASE \E f \in Files : BeginUploadOf(h, f)
      BY <2>7, <1>m, <1>t DEF BeginUploadOf, Begin
    <2>8. CASE AddToIpfs(h)
      BY <2>8, <1>m, <1>l, <1>t DEF AddToIpfs, Goto, Keep, End, At
    <2>9. CASE PinFails(h)
      BY <2>9, <1>l, <1>f DEF PinFails
    <2> QED BY <1>1, <2>1, <2>2, <2>3, <2>4, <2>5, <2>6, <2>7, <2>8, <2>9
  <1>2. CASE UNCHANGED <<requests, storeVars>>
    BY <1>2, <1>t, RequestsStay DEF requests, storeVars, setting, remote, StoreTypeOK
  <1>3. ASSUME NEW h \in Handlers,
               \/ BeginEnsure(h) \/ HeadBucket(h) \/ HeadFails(h) \/ CreateBucket(h) \/ PutPolicy(h) \/ CutStart(h)
               \/ (\E f \in Files : BeginUploadOf(h, f))
               \/ PutInBucket(h) \/ AddToIpfs(h) \/ PinToCrust(h) \/ PinFails(h) \/ CutUpload(h)
        PROVE  StoreTypeOK'
    <2>1. /\ s3' \in BOOLEAN /\ crustToken' \in BOOLEAN /\ startCut' \in BOOLEAN
          /\ bucket' \in {"absent", "private", "public"}
          /\ inBucket' \subseteq Files /\ onIpfs' \subseteq Files /\ pinned' \subseteq Files
      <3> USE DEF StoreTypeOK, At, storeVars, setting, remote
      <3>1. CASE BeginEnsure(h) \/ HeadBucket(h) \/ HeadFails(h) \/ (\E f \in Files : BeginUploadOf(h, f))
        BY <3>1 DEF BeginEnsure, HeadBucket, HeadFails, BeginUploadOf
      <3>2. CASE CreateBucket(h) \/ PutPolicy(h)
        BY <3>2 DEF CreateBucket, PutPolicy
      <3>6. CASE CutStart(h)
        <4>1. startCut' \in BOOLEAN
          BY <3>6 DEF CutStart
        <4>2. UNCHANGED <<s3, crustToken, bucket, inBucket, onIpfs, pinned>>
          BY <3>6 DEF CutStart
        <4> QED BY <4>1, <4>2
      <3>3. CASE PutInBucket(h) \/ AddToIpfs(h)
        <4>1. local[h] \in Files
          BY <3>3, <1>t DEF PutInBucket, AddToIpfs
        <4>2. inBucket' \subseteq Files /\ onIpfs' \subseteq Files
          BY <3>3, <4>1 DEF PutInBucket, AddToIpfs
        <4> QED BY <3>3, <4>2 DEF PutInBucket, AddToIpfs
      <3>4. CASE PinToCrust(h) \/ PinFails(h)
        BY <3>4, <1>t DEF PinToCrust, PinFails
      <3>5. CASE CutUpload(h)
        BY <3>5 DEF CutUpload
      <3> QED BY <1>3, <3>1, <3>2, <3>3, <3>4, <3>5, <3>6
    <2>2. results' \subseteq [file : Files, backend : {"minio", "ipfs"}, order : BOOLEAN]
      <3> USE DEF StoreTypeOK, At, storeVars, Report, Result
      <3>1. CASE BeginEnsure(h) \/ HeadBucket(h) \/ HeadFails(h) \/ (\E f \in Files : BeginUploadOf(h, f))
        BY <3>1 DEF BeginEnsure, HeadBucket, HeadFails, BeginUploadOf
      <3>2. CASE CreateBucket(h) \/ PutPolicy(h) \/ CutStart(h) \/ CutUpload(h)
        BY <3>2 DEF CreateBucket, PutPolicy, CutStart, CutUpload
      <3>0. ASSUME NEW f \in Files, NEW b \in {"minio", "ipfs"}, NEW o \in BOOLEAN, Report(f, b, o)
            PROVE  results' \subseteq [file : Files, backend : {"minio", "ipfs"}, order : BOOLEAN]
        BY <3>0
      <3>3. CASE PutInBucket(h)
        <4>1. local[h] \in Files
          BY <3>3, <1>t DEF PutInBucket
        <4> QED BY <3>0, <3>3, <4>1 DEF PutInBucket
      <3>4. CASE AddToIpfs(h)
        <4>1. local[h] \in Files
          BY <3>4, <1>t DEF AddToIpfs
        <4> QED BY <3>0, <3>4, <4>1 DEF AddToIpfs
      <3>5. CASE PinToCrust(h) \/ PinFails(h)
        <4>1. local[h] \in Files
          BY <3>5, <1>t DEF PinToCrust, PinFails
        <4> QED BY <3>0, <3>5, <4>1 DEF PinToCrust, PinFails
      <3> QED BY <1>3, <3>1, <3>2, <3>3, <3>4, <3>5
    <2> QED BY <1>1, <1>3, <2>1, <2>2 DEF StoreTypeOK
  <1> QED BY <1>2, <1>3 DEF StoreNext

LEMMA StoreSoundStep ==
    ASSUME StoreTypeOK, StoreSound, [StoreNext]_<<requests, storeVars>> PROVE StoreSound'
  <1> USE DEF StoreSound, At, StartLocations, UploadLocations, setting, remote, storeVars
  <1>t. /\ pc \in [Handlers -> {"head", "create", "policy", "put", "add", "pin", "idle"}]
        /\ local \in [Handlers -> Files \cup {"start"} \cup {Nothing}] /\ faults \in Nat
        /\ \A h \in Handlers : pc[h] \in {"put", "add", "pin"} => local[h] \in Files
        /\ bucket \in {"absent", "private", "public"} /\ startCut \in BOOLEAN /\ crustToken \in BOOLEAN
    BY RequestsAssumption DEF StoreTypeOK, RequestsTypeOK
  <1>0. ASSUME NEW h \in Handlers, NEW loc, NEW d, Moved(h, loc, d)
        PROVE  pc' = [pc EXCEPT ![h] = loc] /\ local' = [local EXCEPT ![h] = d]
    BY <1>0 DEF Moved
  <1>1. ASSUME NEW h \in Handlers, BeginEnsure(h) \/ HeadBucket(h) \/ (\E f \in Files : BeginUploadOf(h, f))
        PROVE  StoreSound'
    BY <1>1, <1>0, <1>t DEF BeginEnsure, HeadBucket, BeginUploadOf, Begin, Goto, Keep, End, Leave
  <1>2. ASSUME NEW h \in Handlers, HeadFails(h) PROVE StoreSound'
    BY <1>2, <1>0, <1>t DEF HeadFails, Fault
  <1>3. ASSUME NEW h \in Handlers, CreateBucket(h) PROVE StoreSound'
    BY <1>3, <1>0, <1>t DEF CreateBucket, Goto, Keep, End, Leave
  <1>4. ASSUME NEW h \in Handlers, PutPolicy(h) PROVE StoreSound'
    BY <1>4, <1>0, <1>t DEF PutPolicy, End, Leave
  <1>5. ASSUME NEW h \in Handlers, CutStart(h) PROVE StoreSound'
    <2>1. /\ faults' > 0 /\ UNCHANGED <<crustToken, bucket, inBucket, onIpfs, pinned, results>>
          /\ pc' = [pc EXCEPT ![h] = "idle"] /\ \A g \in Handlers \ {h} : local'[g] = local[g]
      BY <1>5, <1>0, <1>t DEF CutStart, Dropped, Fault, Leave
    <2>2. bucket = "private" => startCut' \/ \E g \in Handlers : pc'[g] = "policy"
      BY <1>5, <2>1, <1>t DEF CutStart
    <2> QED BY <2>1, <2>2, <1>t
  <1>6. ASSUME NEW h \in Handlers, PutInBucket(h) PROVE StoreSound'
    BY <1>6, <1>0, <1>t DEF PutInBucket, Report, Result, End, Leave
  <1>7. ASSUME NEW h \in Handlers, AddToIpfs(h) PROVE StoreSound'
    BY <1>7, <1>0, <1>t DEF AddToIpfs, Report, Result, Goto, Keep, End, Leave
  <1>8. ASSUME NEW h \in Handlers, PinToCrust(h) PROVE StoreSound'
    BY <1>8, <1>0, <1>t DEF PinToCrust, Report, Result, End, Leave
  <1>9. ASSUME NEW h \in Handlers, PinFails(h) PROVE StoreSound'
    BY <1>9, <1>0, <1>t DEF PinFails, Report, Result, Fault, Leave
  <1>10. ASSUME NEW h \in Handlers, CutUpload(h) PROVE StoreSound'
    BY <1>10, <1>0, <1>t DEF CutUpload, Dropped, Fault, Leave
  <1>11. CASE UNCHANGED <<requests, storeVars>>
    BY <1>11 DEF requests
  <1> QED BY <1>1, <1>2, <1>3, <1>4, <1>5, <1>6, <1>7, <1>8, <1>9, <1>10, <1>11 DEF StoreNext

LEMMA StoreAlways == StoreSpec => [](StoreTypeOK /\ StoreSound)
  <1>1. ASSUME RequestsInit, StoreInit PROVE StoreTypeOK /\ StoreSound
    <2>1. RequestsTypeOK(StartLocations \cup UploadLocations, Files \cup {"start"})
      BY <1>1, RequestsStart
    <2> QED BY <1>1, <2>1 DEF RequestsInit, StoreInit, StoreTypeOK, StoreSound, At, UploadLocations
  <1>2. StoreTypeOK /\ StoreSound /\ [StoreNext]_<<requests, storeVars>> => (StoreTypeOK /\ StoreSound)'
    BY StoreTyped, StoreSoundStep
  <1> QED BY <1>1, <1>2, PTL DEF StoreSpec

\* The bucket, IPFS and what callers were told have their types.
THEOREM StoreTypeCorrect == StoreSpec => []StoreTypeOK
  BY StoreAlways, PTL

(* What a caller is told of an upload is so, and its file can be read      *)
(* unless the start that made the bucket was cut.                          *)
THEOREM UploadsAreReadable == StoreSpec => []UploadsReadable
  <1>1. StoreTypeOK /\ StoreSound => UploadsReadable
    BY DEF StoreTypeOK, StoreSound, UploadsReadable
  <1> QED BY <1>1, StoreAlways, PTL

-----------------------------------------------------------------------------
(* PaymentSecrets.                                                         *)

\* Whoever is past the lock holds it, with the key that is sealed; the newest
\* checkouts are of that key.
SecretsSound ==
    /\ \A h \in Handlers : ~At(h, "idle") => holder = h
    /\ \A h \in Handlers : At(h, "calling") => local[h] = sealedKey
    /\ \A c \in checkouts : c.after <= sealCount /\ (c.after = sealCount => c.key = sealedKey)
    /\ WebhookVerifies

LEMMA SecretsTyped ==
    ASSUME SecretsTypeOK, SecretsSound, [SecretsNext]_<<requests, secretVars>> PROVE SecretsTypeOK'
  <1> USE PaymentSecretsAssumption
  <1>r. RequestsTypeOK(SecretLocations, 1..MaxSeals)
    BY DEF SecretsTypeOK
  <1>t. /\ \A h \in Handlers : ~At(h, "idle") => local[h] \in 1..MaxSeals
        /\ sealCount \in 0..MaxSeals /\ sealedKey \in 0..sealCount /\ sealedHook \in 0..sealCount
        /\ checkouts \subseteq [key : 1..MaxSeals, after : 0..MaxSeals] /\ refused \subseteq checkouts
        /\ holder \in Handlers \cup {Nothing}
    BY <1>r DEF SecretsTypeOK, RequestsTypeOK
  <1>f. Fault => faults' \in 0..MaxFaults
    BY <1>r, FaultType
  <1>n. faults \in 0..MaxFaults
    BY <1>r DEF RequestsTypeOK
  <1>1. CASE SealBoth \/ SealKeyOnly
    <2>1. UNCHANGED requests
      BY <1>1 DEF SealBoth, SealKeyOnly
    <2>2. RequestsTypeOK(SecretLocations, 1..MaxSeals)'
      BY <1>r, <2>1, RequestsStay
    <2> QED BY <1>1, <1>t, <2>2 DEF SealBoth, SealKeyOnly, SealKey, SecretsTypeOK
  <1>2. CASE SealHalf
    <2>1. RequestsTypeOK(SecretLocations, 1..MaxSeals)'
      BY <1>2, <1>r, <1>f DEF SealHalf, RequestsTypeOK, At
    <2> QED BY <1>2, <1>t, <2>1 DEF SealHalf, SealKey, SecretsTypeOK
  <1>3. ASSUME NEW h \in Handlers, LockForCheckout(h) PROVE SecretsTypeOK'
    <2>1. RequestsTypeOK(SecretLocations, 1..MaxSeals)'
      <3>1. Moved(h, "calling", sealedKey) /\ faults' = faults /\ sealedKey \in 1..MaxSeals
        BY <1>3, <1>t DEF LockForCheckout, Begin
      <3> QED BY <3>1, <1>r, <1>n, MovedType DEF SecretLocations
    <2> QED BY <1>3, <1>t, <2>1 DEF LockForCheckout, secrets, SecretsTypeOK
  <1>4. ASSUME NEW h \in Handlers, NEW c \in checkouts, AcceptWebhook(h, c) PROVE SecretsTypeOK'
    <2>1. RequestsTypeOK(SecretLocations, 1..MaxSeals)'
      <3>1. Moved(h, "crediting", c.key) /\ faults' = faults /\ c.key \in 1..MaxSeals
        BY <1>4, <1>t DEF AcceptWebhook, Begin
      <3> QED BY <3>1, <1>r, <1>n, MovedType DEF SecretLocations
    <2> QED BY <1>4, <1>t, <2>1 DEF AcceptWebhook, secrets, SecretsTypeOK
  <1>5. ASSUME NEW h \in Handlers, AnswerCheckout(h) \/ CheckoutFails(h) \/ AnswerWebhook(h) \/ DropSecrets(h)
        PROVE  SecretsTypeOK'
    <2>1. Leave(h) /\ faults' \in 0..MaxFaults
      BY <1>5, <1>f, <1>n DEF AnswerCheckout, CheckoutFails, AnswerWebhook, DropSecrets, End, Dropped
    <2>2. RequestsTypeOK(SecretLocations, 1..MaxSeals)'
      BY <2>1, <1>r, LeaveType
    <2>3. checkouts' \subseteq [key : 1..MaxSeals, after : 0..MaxSeals] /\ checkouts \subseteq checkouts'
      BY <1>5, <1>t DEF AnswerCheckout, CheckoutFails, AnswerWebhook, DropSecrets, At
    <2>4. UNCHANGED <<secrets, refused>> /\ holder' \in Handlers \cup {Nothing}
      BY <1>5, <1>t DEF AnswerCheckout, CheckoutFails, AnswerWebhook, DropSecrets, Release
    <2> QED BY <1>t, <2>2, <2>3, <2>4 DEF secrets, SecretsTypeOK
  <1>6. ASSUME NEW c \in checkouts, RefuseWebhook(c) PROVE SecretsTypeOK'
    <2>1. RequestsTypeOK(SecretLocations, 1..MaxSeals)'
      BY <1>6, <1>r, RequestsStay DEF RefuseWebhook
    <2> QED BY <1>6, <1>t, <2>1 DEF RefuseWebhook, secrets, SecretsTypeOK
  <1>7. CASE UNCHANGED <<requests, secretVars>>
    <2>1. RequestsTypeOK(SecretLocations, 1..MaxSeals)'
      BY <1>7, <1>r, RequestsStay
    <2> QED BY <1>7, <1>t, <2>1 DEF secretVars, secrets, SecretsTypeOK
  <1> QED BY <1>1, <1>2, <1>3, <1>4, <1>5, <1>6, <1>7 DEF SecretsNext

LEMMA SecretsSoundStep ==
    ASSUME SecretsTypeOK, SecretsSound, [SecretsNext]_<<requests, secretVars>> PROVE SecretsSound'
  <1> USE PaymentSecretsAssumption DEF SecretsSound, WebhookVerifies, At, secrets
  <1>t. /\ \A h \in Handlers : pc[h] # "idle" => local[h] \in 1..MaxSeals
        /\ pc \in [Handlers -> SecretLocations \cup {"idle"}] /\ local \in [Handlers -> (1..MaxSeals) \cup {Nothing}]
        /\ sealCount \in 0..MaxSeals /\ sealedKey \in 0..sealCount /\ sealedHook \in 0..sealCount
        /\ \A c \in checkouts : c.key \in 1..MaxSeals /\ c.after \in 0..MaxSeals
        /\ refused \subseteq checkouts
    BY DEF SecretsTypeOK, RequestsTypeOK, SecretLocations
  <1>1. CASE SealBoth \/ SealKeyOnly
    BY <1>1, <1>t DEF SealBoth, SealKeyOnly, SealKey, Free, requests
  <1>2. CASE SealHalf
    BY <1>2, <1>t DEF SealHalf, SealKey, Free
  <1>3. ASSUME NEW h \in Handlers, LockForCheckout(h) \/ \E c \in checkouts : AcceptWebhook(h, c) PROVE SecretsSound'
    <2>1. \A g \in Handlers : pc[g] = "idle"
      BY <1>3 DEF LockForCheckout, AcceptWebhook, Free
    <2>2. /\ holder' = h /\ UNCHANGED <<sealedKey, sealedHook, sealCount, checkouts, refused>>
          /\ \A g \in Handlers \ {h} : pc'[g] = pc[g]
          /\ pc'[h] = "calling" => local'[h] = sealedKey
      BY <1>3, <1>t DEF LockForCheckout, AcceptWebhook, Begin, Moved
    <2> QED BY <2>1, <2>2
  <1>4. ASSUME NEW h \in Handlers, AnswerCheckout(h) \/ CheckoutFails(h) \/ AnswerWebhook(h) \/ DropSecrets(h)
        PROVE  SecretsSound'
    <2>1. pc[h] # "idle" /\ pc'[h] = "idle" /\ \A g \in Handlers \ {h} : pc'[g] = pc[g] /\ local'[g] = local[g]
      BY <1>4, <1>t DEF AnswerCheckout, CheckoutFails, AnswerWebhook, DropSecrets, End, Dropped, Leave, Moved
    <2>2. \A g \in Handlers \ {h} : pc[g] = "idle"
      BY <2>1
    <2>3. /\ UNCHANGED <<sealedKey, sealedHook, sealCount, refused>>
          /\ checkouts' = checkouts \/ (pc[h] = "calling" /\ checkouts' = checkouts \cup {[key |-> local[h], after |-> sealCount]})
      BY <1>4 DEF AnswerCheckout, CheckoutFails, AnswerWebhook, DropSecrets
    <2>4. \A c \in checkouts' : c.after <= sealCount /\ (c.after = sealCount => c.key = sealedKey)
      BY <2>3, <1>t
    <2> QED BY <2>1, <2>2, <2>3, <2>4
  <1>5. ASSUME NEW c \in checkouts, RefuseWebhook(c) PROVE SecretsSound'
    <2>1. c.after < sealCount \/ sealedKey # sealedHook
      BY <1>5, <1>t DEF RefuseWebhook
    <2> QED BY <1>5, <2>1 DEF RefuseWebhook, requests
  <1>6. CASE UNCHANGED <<requests, secretVars>>
    BY <1>6 DEF requests, secretVars
  <1> QED BY <1>1, <1>2, <1>3, <1>4, <1>5, <1>6 DEF SecretsNext

LEMMA SecretsAlways == SecretsSpec => [](SecretsTypeOK /\ SecretsSound)
  <1>1. ASSUME RequestsInit, SecretsInit PROVE SecretsTypeOK /\ SecretsSound
    <2>1. RequestsTypeOK(SecretLocations, 1..MaxSeals)
      BY <1>1, RequestsStart
    <2> QED BY <1>1, <2>1, PaymentSecretsAssumption
         DEF RequestsInit, SecretsInit, SecretsTypeOK, SecretsSound, WebhookVerifies, At
  <1>2. SecretsTypeOK /\ SecretsSound /\ [SecretsNext]_<<requests, secretVars>> => (SecretsTypeOK /\ SecretsSound)'
    BY SecretsTyped, SecretsSoundStep
  <1> QED BY <1>1, <1>2, PTL DEF SecretsSpec

\* The secrets, the guard and the checkouts have their types.
THEOREM SecretsTypeCorrect == SecretsSpec => []SecretsTypeOK
  BY SecretsAlways, PTL

(* A webhook is refused only after a later seal, or while the key is       *)
(* without its webhook secret.                                             *)
THEOREM WebhooksVerify == SecretsSpec => []WebhookVerifies
  BY SecretsAlways, PTL DEF SecretsSound

-----------------------------------------------------------------------------
(* Sessions.                                                               *)

\* What is remembered, or is about to be, is a key; a token that was logged
\* out has no row any more, and who came late knows it is so.
SessionsSound ==
    /\ remembered \subseteq KeyTokens
    /\ \A h \in Handlers : At(h, "setex") => TokenOf(h) \in KeyTokens
    /\ \A h \in Handlers : At(h, "delete") => TokenOf(h) \notin KeyTokens
    /\ \A t \in loggedOut : rowOf[t] = "deleted"
    /\ \A h \in Handlers : ~At(h, "idle") /\ local[h].late => TokenOf(h) \in loggedOut
    /\ LoggedOutIsRefused

SessionRequest(h) ==
    \/ \E t \in Bearers : \/ BeginLogout(h, t) \/ BeginValidate(h, t)
                          \/ \E x \in Extractors : BeginExtract(h, t, x)
    \/ DeleteSession(h) \/ Validate(h) \/ GetCache(h) \/ SelectKeyRow(h)
    \/ SelectSession(h) \/ Remember(h) \/ DropSession(h)

SessionData == [token : Bearers, by : Extractors \cup {"logout", "validate"}, late : BOOLEAN]

LEMMA SessionsTyped ==
    ASSUME SessionsTypeOK, SessionsSound, [SessionsNext]_<<requests, sessionRows>> PROVE SessionsTypeOK'
  <1> DEFINE R == RequestsTypeOK(SessionLocations, SessionData)
  <1>r. R
    BY DEF SessionsTypeOK, SessionData
  <1>t. /\ \A h \in Handlers : ~At(h, "idle") => local[h] \in SessionData
        /\ rowOf \in [Bearers -> {"none", "live", "expired", "deleted"}]
        /\ remembered \subseteq Bearers /\ loggedOut \subseteq Bearers \ KeyTokens
        /\ admittedLate \subseteq Bearers /\ strangers \subseteq Bearers
    BY <1>r DEF SessionsTypeOK, RequestsTypeOK
  <1>f. /\ Fault => faults' \in 0..MaxFaults
        /\ faults \in 0..MaxFaults
    BY <1>r, FaultType DEF RequestsTypeOK
  <1>1. ASSUME NEW t \in Bearers, InsertToken(t) \/ SessionExpires(t) \/ Forget(t) PROVE SessionsTypeOK'
    <2>1. R'
      BY <1>1, <1>r, RequestsStay DEF InsertToken, SessionExpires, Forget
    <2> QED BY <1>1, <1>t, <2>1 DEF InsertToken, SessionExpires, Forget, history, SessionsTypeOK, SessionData
  <1>2. ASSUME NEW h \in Handlers, SessionRequest(h) PROVE R'
    <2>m. ASSUME NEW loc \in SessionLocations, NEW d \in SessionData, Moved(h, loc, d), UNCHANGED faults PROVE R'
      BY <2>m, <1>r, <1>f, MovedType
    <2>1. CASE \E t \in Bearers : BeginLogout(h, t) \/ BeginValidate(h, t) \/ \E x \in Extractors : BeginExtract(h, t, x)
      <3>1. PICK t \in Bearers : BeginLogout(h, t) \/ BeginValidate(h, t) \/ \E x \in Extractors : BeginExtract(h, t, x)
        BY <2>1
      <3>2. \A x \in Extractors \cup {"logout", "validate"} : Bearing(t, x) \in SessionData
        BY DEF Bearing, SessionData
      <3> QED BY <2>m, <3>1, <3>2 DEF BeginLogout, BeginValidate, BeginExtract, Begin, SessionLocations
    <2>2. CASE DeleteSession(h) \/ Validate(h) \/ Remember(h) \/ DropSession(h)
      <3>1. Leave(h) /\ faults' \in 0..MaxFaults
        BY <2>2, <1>f DEF DeleteSession, Validate, Remember, DropSession, End, Dropped
      <3> QED BY <3>1, <1>r, LeaveType
    <2>3. CASE GetCache(h) \/ SelectKeyRow(h) \/ SelectSession(h)
      <3>1. local[h] \in SessionData
        BY <2>3, <1>t DEF GetCache, SelectKeyRow, SelectSession, At
      <3>2. \/ End(h)
            \/ \E loc \in SessionLocations : Goto(h, loc)
        BY <2>3 DEF GetCache, SelectKeyRow, SelectSession, SessionLocations
      <3>3. CASE End(h)
        <4>1. Leave(h) /\ faults' \in 0..MaxFaults
          BY <3>3, <1>f DEF End
        <4> QED BY <4>1, <1>r, LeaveType
      <3>4. CASE \E loc \in SessionLocations : Goto(h, loc)
        BY <2>m, <3>1, <3>4 DEF Goto, Keep
      <3> QED BY <3>2, <3>3, <3>4
    <2> QED BY <1>2, <2>1, <2>2, <2>3 DEF SessionRequest
  <1>3. ASSUME NEW h \in Handlers, SessionRequest(h) PROVE SessionsTypeOK'
    <2>0. CASE \E t \in Bearers : BeginLogout(h, t) \/ BeginValidate(h, t) \/ \E x \in Extractors : BeginExtract(h, t, x)
      BY <1>2, <1>3, <1>t, <2>0 DEF BeginLogout, BeginValidate, BeginExtract, sessionRows, history, SessionsTypeOK, SessionData
    <2>a. ASSUME ~At(h, "idle") PROVE TokenOf(h) \in Bearers
      BY <1>t, <2>a DEF TokenOf, SessionData
    <2>b. ASSUME ~At(h, "idle"), Admitted(h) PROVE admittedLate' \subseteq Bearers
      BY <1>t, <2>a, <2>b DEF Admitted
    <2>1. CASE DeleteSession(h)
      <3>1. TokenOf(h) \notin KeyTokens
        BY <2>1 DEF DeleteSession, SessionsSound
      <3> QED BY <1>2, <1>3, <1>t, <2>a, <2>1, <3>1 DEF DeleteSession, At, history, SessionsTypeOK, SessionData
    <2>2. CASE Validate(h) \/ GetCache(h) \/ SelectKeyRow(h)
      <3>1. admittedLate' \subseteq Bearers
        BY <1>t, <2>b, <2>2 DEF Validate, GetCache, SelectKeyRow, At, sessionRows, history
      <3> QED BY <1>2, <1>3, <1>t, <2>2, <3>1 DEF Validate, GetCache, SelectKeyRow, sessionRows, history, SessionsTypeOK, SessionData
    <2>3. CASE SelectSession(h)
      BY <1>2, <1>3, <1>t, <2>a, <2>3 DEF SelectSession, At, SessionsTypeOK, SessionData
    <2>4. CASE Remember(h)
      BY <1>2, <1>3, <1>t, <2>a, <2>b, <2>4 DEF Remember, At, SessionsTypeOK, SessionData
    <2>5. CASE DropSession(h)
      BY <1>2, <1>3, <1>t, <2>5 DEF DropSession, history, SessionsTypeOK, SessionData
    <2> QED BY <1>3, <2>0, <2>1, <2>2, <2>3, <2>4, <2>5 DEF SessionRequest
  <1>4. CASE UNCHANGED <<requests, sessionRows>>
    <2>1. R'
      BY <1>4, <1>r, RequestsStay
    <2> QED BY <1>4, <1>t, <2>1 DEF sessionRows, SessionsTypeOK, SessionData
  <1> QED BY <1>1, <1>3, <1>4 DEF SessionsNext, SessionRequest

LEMMA SessionsSoundStep ==
    ASSUME SessionsTypeOK, SessionsSound, [SessionsNext]_<<requests, sessionRows>> PROVE SessionsSound'
  <1> USE SessionsAssumption DEF At, TokenOf, sessionRows, history
  <1>t. /\ \A h \in Handlers : pc[h] # "idle" => local[h].token \in Bearers /\ local[h].late \in BOOLEAN
        /\ pc \in [Handlers -> SessionLocations \cup {"idle"}]
        /\ rowOf \in [Bearers -> {"none", "live", "expired", "deleted"}]
        /\ remembered \subseteq Bearers /\ loggedOut \subseteq Bearers \ KeyTokens
        /\ admittedLate = {}
    BY DEF SessionsTypeOK, RequestsTypeOK, SessionsSound, LoggedOutIsRefused
  <1>o. ASSUME NEW h \in Handlers, NEW loc, NEW d, Moved(h, loc, d)
        PROVE  /\ \A g \in Handlers \ {h} : pc'[g] = pc[g] /\ local'[g] = local[g]
               /\ pc'[h] = loc /\ local'[h] = d
    BY <1>o DEF SessionsTypeOK, RequestsTypeOK, Moved
  \* A request goes on with its token, ends, or begins as it should.
  <1>g. ASSUME NEW h \in Handlers, NEW loc, Moved(h, loc, local[h]), pc[h] # "idle", loc # "delete",
               loc = "setex" => local[h].token \in KeyTokens, UNCHANGED <<rowOf, remembered, loggedOut, admittedLate>>
        PROVE  SessionsSound'
    <2>1. /\ \A g \in Handlers \ {h} : pc'[g] = pc[g] /\ local'[g] = local[g]
          /\ pc'[h] = loc /\ local'[h] = local[h]
      BY <1>g, <1>o
    <2> QED BY <1>g, <2>1 DEF SessionsSound, LoggedOutIsRefused
  <1>e. ASSUME NEW h \in Handlers, Leave(h), remembered' \subseteq KeyTokens, admittedLate' = {},
               loggedOut \subseteq loggedOut', \A t \in loggedOut' : rowOf'[t] = "deleted"
        PROVE  SessionsSound'
    <2>1. /\ \A g \in Handlers \ {h} : pc'[g] = pc[g] /\ local'[g] = local[g]
          /\ pc'[h] = "idle"
      BY <1>e, <1>o DEF Leave
    <2> QED BY <1>e, <2>1 DEF SessionsSound, LoggedOutIsRefused
  <1>b. ASSUME NEW h \in Handlers, NEW loc, NEW t \in Bearers, NEW x, Moved(h, loc, Bearing(t, x)), loc # "setex",
               loc = "delete" => t \notin KeyTokens, UNCHANGED <<rowOf, remembered, loggedOut, admittedLate>>
        PROVE  SessionsSound'
    <2>1. /\ \A g \in Handlers \ {h} : pc'[g] = pc[g] /\ local'[g] = local[g]
          /\ pc'[h] = loc /\ local'[h].token = t /\ local'[h].late = (t \in loggedOut)
      BY <1>b, <1>o DEF Bearing
    <2> QED BY <1>b, <2>1 DEF SessionsSound, LoggedOutIsRefused
  <1>1. ASSUME NEW t \in Bearers, InsertToken(t) \/ SessionExpires(t) \/ Forget(t) PROVE SessionsSound'
    <2>1. UNCHANGED <<pc, local, loggedOut, admittedLate>> /\ remembered' \subseteq remembered
      BY <1>1 DEF InsertToken, SessionExpires, Forget, requests
    <2>2. \A u \in loggedOut : rowOf'[u] = "deleted"
      BY <1>1, <1>t DEF InsertToken, SessionExpires, Forget, SessionsSound
    <2> QED BY <2>1, <2>2 DEF SessionsSound, LoggedOutIsRefused
  <1>2. ASSUME NEW h \in Handlers,
               \E t \in Bearers : BeginLogout(h, t) \/ BeginValidate(h, t) \/ \E x \in Extractors : BeginExtract(h, t, x)
        PROVE  SessionsSound'
    BY <1>2, <1>b DEF BeginLogout, BeginValidate, BeginExtract, Begin
  <1>3. ASSUME NEW h \in Handlers, DeleteSession(h) PROVE SessionsSound'
    BY <1>3, <1>e, <1>t DEF DeleteSession, End, SessionsSound
  \* Who is accepted was not late: the row is live, or the token is a key.
  <1>a. ASSUME NEW h \in Handlers, pc[h] # "idle", Admitted(h),
               rowOf[local[h].token] = "live" \/ local[h].token \in KeyTokens
        PROVE  admittedLate' = {}
    <2>1. ~local[h].late
      BY <1>a, <1>t DEF SessionsSound
    <2> QED BY <1>a, <2>1, <1>t DEF Admitted
  <1>4. ASSUME NEW h \in Handlers, Validate(h) PROVE SessionsSound'
    <2>1. admittedLate' = {}
      BY <1>4, <1>a, <1>t DEF Validate
    <2> QED BY <1>4, <1>e, <2>1 DEF Validate, End, SessionsSound
  <1>5. ASSUME NEW h \in Handlers, GetCache(h) PROVE SessionsSound'
    <2>1. CASE local[h].token \in remembered
      <3>1. admittedLate' = {}
        BY <1>5, <1>a, <2>1 DEF GetCache, SessionsSound
      <3> QED BY <1>5, <1>e, <2>1, <3>1 DEF GetCache, End, SessionsSound
    <2>2. CASE local[h].token \notin remembered
      BY <1>5, <1>g, <2>2 DEF GetCache, Goto, Keep
    <2> QED BY <2>1, <2>2
  <1>6. ASSUME NEW h \in Handlers, SelectKeyRow(h) PROVE SessionsSound'
    <2>1. CASE local[h].token \in KeyTokens
      BY <1>6, <1>g, <2>1 DEF SelectKeyRow, Goto, Keep
    <2>2. CASE local[h].token \notin KeyTokens /\ local[h].by = "TtsUser"
      BY <1>6, <1>g, <2>2 DEF SelectKeyRow, Goto, Keep
    <2>3. CASE local[h].token \notin KeyTokens /\ local[h].by # "TtsUser"
      BY <1>6, <1>e, <1>t, <2>3 DEF SelectKeyRow, End, SessionsSound
    <2> QED BY <2>1, <2>2, <2>3
  <1>7. ASSUME NEW h \in Handlers, SelectSession(h) PROVE SessionsSound'
    <2>1. SessionUnder(TtsHash(local[h].token)) = {}
      BY DEF SessionUnder, StoredAs, TtsHash, Digest
    <2> QED BY <1>7, <1>e, <1>t, <2>1 DEF SelectSession, End, SessionsSound
  <1>8. ASSUME NEW h \in Handlers, Remember(h) PROVE SessionsSound'
    <2>1. local[h].token \in KeyTokens
      BY <1>8 DEF Remember, SessionsSound
    <2>2. admittedLate' = {}
      BY <1>8, <1>a, <2>1 DEF Remember
    <2> QED BY <1>8, <1>e, <2>1, <2>2 DEF Remember, End, SessionsSound
  <1>9. ASSUME NEW h \in Handlers, DropSession(h) PROVE SessionsSound'
    <2>1. \A t \in loggedOut : rowOf'[t] = "deleted"
      BY <1>9, <1>t DEF DropSession, SessionsSound
    <2> QED BY <1>9, <1>e, <1>t, <2>1 DEF DropSession, Dropped, SessionsSound
  <1>10. CASE UNCHANGED <<requests, sessionRows>>
    BY <1>10 DEF requests, SessionsSound, LoggedOutIsRefused
  <1> QED BY <1>1, <1>2, <1>3, <1>4, <1>5, <1>6, <1>7, <1>8, <1>9, <1>10 DEF SessionsNext

LEMMA SessionsAlways == SessionsSpec => [](SessionsTypeOK /\ SessionsSound)
  <1>1. ASSUME RequestsInit, SessionsInit PROVE SessionsTypeOK /\ SessionsSound
    <2>1. RequestsTypeOK(SessionLocations, [token : Bearers, by : Extractors \cup {"logout", "validate"}, late : BOOLEAN])
      BY <1>1, RequestsStart
    <2> QED BY <1>1, <2>1 DEF RequestsInit, SessionsInit, SessionsTypeOK, SessionsSound, LoggedOutIsRefused, At
  <1>2. SessionsTypeOK /\ SessionsSound /\ [SessionsNext]_<<requests, sessionRows>> => (SessionsTypeOK /\ SessionsSound)'
    BY SessionsTyped, SessionsSoundStep
  <1> QED BY <1>1, <1>2, PTL DEF SessionsSpec

\* The rows, the cache and the requests have their types.
THEOREM SessionsTypeCorrect == SessionsSpec => []SessionsTypeOK
  BY SessionsAlways, PTL

(* No request that comes after a logout is accepted with its token.        *)
THEOREM LoggedOutAreRefused == SessionsSpec => []LoggedOutIsRefused
  BY SessionsAlways, PTL DEF SessionsSound

-----------------------------------------------------------------------------
(* Charges that balance and channel share.                                 *)

\* A channel that is asked for the rest is asked for no less than nothing.
RestIsOwed == \A h \in Handlers : At(h, "zero_custodial") \/ At(h, "charge_rest") => Rest(h) >= 0

\* A request under way has a cost, and what it read of the balance.
LEMMA SplitData ==
    ASSUME SplitTypeOK, NEW h \in Handlers, pc[h] # "idle"
    PROVE  local[h] \in Bills /\ Due(h) \in Costs /\ Due(h) \in Nat /\ Saw(h) \in Nat
  <1>1. local[h] \in Bills
    BY DEF SplitTypeOK, RequestsTypeOK, At
  <1> QED BY <1>1, SplitAssumption DEF Bills, Due, Saw

\* The part of the type that is about the requests.
LEMMA SplitRequestsStep ==
    ASSUME SplitTypeOK, [SplitNext]_splitVars
    PROVE  RequestsTypeOK(SplitLocations, Bills)'
  <1>t. RequestsTypeOK(SplitLocations, Bills)
    BY DEF SplitTypeOK
  <1>f. faults \in 0..MaxFaults
    BY <1>t DEF RequestsTypeOK
  <1>0. CASE UNCHANGED requests
    BY <1>0, <1>t, RequestsStay
  <1>1. ASSUME NEW h \in Handlers, NEW n \in Costs, BeginCharge(h, n)
        PROVE  RequestsTypeOK(SplitLocations, Bills)'
    <2>1. Bill(n, 0) \in Bills
      BY DEF Bill, Bills
    <2> QED BY <1>1, <1>t, <1>f, <2>1, MovedType DEF BeginCharge, Begin, SplitLocations
  <1>2. ASSUME NEW h \in Handlers, ReadCustodial(h)
        PROVE  RequestsTypeOK(SplitLocations, Bills)'
    <2>1. Bill(Due(h), custodial) \in Bills
      BY <1>2, SplitData DEF ReadCustodial, At, Bill, Bills, SplitTypeOK
    <2> QED BY <1>2, <1>t, <1>f, <2>1, MovedType DEF ReadCustodial, Keep, SplitLocations
  <1>3. ASSUME NEW h \in Handlers,
               \/ DeductCustodial(h) \/ ReadChannel(h) \/ ZeroCustodial(h)
               \/ ChargeRest(h) \/ ChargeChannel(h) \/ DropCharge(h)
        PROVE  RequestsTypeOK(SplitLocations, Bills)'
    <2>1. /\ pc[h] # "idle" /\ (UNCHANGED faults \/ Fault)
          /\ Leave(h) \/ \E loc \in SplitLocations : Moved(h, loc, local[h])
      BY <1>3 DEF DeductCustodial, ReadChannel, ZeroCustodial, ChargeRest, ChargeChannel, DropCharge,
           Dropped, Earn, End, Goto, Keep, At, SplitLocations
    <2>2. local[h] \in Bills
      BY <2>1, SplitData
    <2>3. faults' \in 0..MaxFaults
      BY <1>t, <1>f, <2>1, FaultType
    <2> QED BY <1>t, <2>1, <2>2, <2>3, MovedType, LeaveType
  <1>4. CASE Credit \/ ChannelChanges
    BY <1>0, <1>4 DEF Credit, ChannelChanges
  <1> QED BY <1>0, <1>1, <1>2, <1>3, <1>4 DEF SplitNext, splitVars

LEMMA RestIsOwedStep ==
    ASSUME SplitTypeOK, RestIsOwed, [SplitNext]_splitVars PROVE RestIsOwed'
  <1>t. RequestsTypeOK(SplitLocations, Bills)
    BY DEF SplitTypeOK
  \* A request that does not go on to the channel for a rest, or has just asked.
  <1>m. ASSUME NEW h \in Handlers, NEW loc, NEW d, Moved(h, loc, d),
               \/ loc \notin {"zero_custodial", "charge_rest"}
               \/ d = local[h] /\ Rest(h) >= 0
        PROVE  RestIsOwed'
    <2>1. pc'[h] = loc /\ local'[h] = d /\ \A g \in Handlers \ {h} : pc'[g] = pc[g] /\ local'[g] = local[g]
      BY <1>m, <1>t, OthersStay
    <2>2. ASSUME NEW g \in Handlers, pc'[g] \in {"zero_custodial", "charge_rest"} PROVE Rest(g)' >= 0
      <3>1. CASE g = h
        BY <1>m, <2>1, <2>2, <3>1 DEF Rest, Due, Saw
      <3>2. CASE g # h
        BY <2>1, <2>2, <3>2 DEF RestIsOwed, At, Rest, Due, Saw
      <3> QED BY <3>1, <3>2
    <2> QED BY <2>2 DEF RestIsOwed, At
  <1>0. CASE UNCHANGED requests
    BY <1>0 DEF requests, RestIsOwed, At, Rest, Due, Saw
  <1>1. ASSUME NEW h \in Handlers,
               \/ \E n \in Costs : BeginCharge(h, n)
               \/ ReadCustodial(h) \/ DeductCustodial(h) \/ ReadChannel(h) \/ ZeroCustodial(h)
               \/ ChargeRest(h) \/ ChargeChannel(h) \/ DropCharge(h)
        PROVE  RestIsOwed'
    <2>1. CASE \E n \in Costs : BeginCharge(h, n)
      BY <1>m, <2>1 DEF BeginCharge, Begin
    <2>2. CASE ReadCustodial(h)
      BY <1>m, <2>2 DEF ReadCustodial, Keep
    <2>3. CASE DeductCustodial(h) \/ ChargeRest(h) \/ ChargeChannel(h) \/ DropCharge(h)
      <3>1. Moved(h, "idle", Nothing) \/ Moved(h, "read_channel", local[h])
        BY <2>3 DEF DeductCustodial, ChargeRest, ChargeChannel, DropCharge, Dropped, Earn, End, Leave, Goto, Keep
      <3> QED BY <1>m, <3>1
    <2>4. CASE ReadChannel(h)
      <3>1. CASE Splits(h)
        BY <1>m, <2>4, <3>1 DEF ReadChannel, Splits, Goto, Keep
      <3>2. CASE ~Splits(h)
        BY <1>m, <2>4, <3>2 DEF ReadChannel, Goto, Keep, End, Leave
      <3> QED BY <3>1, <3>2
    <2>5. CASE ZeroCustodial(h)
      BY <1>m, <2>5 DEF ZeroCustodial, RestIsOwed, Goto, Keep, At
    <2> QED BY <1>1, <2>1, <2>2, <2>3, <2>4, <2>5
  <1> QED BY <1>0, <1>1 DEF SplitNext, splitVars, Credit, ChannelChanges

LEMMA SplitTypeStep ==
    ASSUME SplitTypeOK, RestIsOwed, [SplitNext]_splitVars PROVE SplitTypeOK'
  <1> USE DEF purse, splits
  <1>t. /\ custodial \in Nat /\ remaining \in Nat /\ changes \in 0..MaxChanges
        /\ taken \in Nat /\ earned \in Nat /\ overwritten \in BOOLEAN /\ forfeited \in BOOLEAN
    BY DEF SplitTypeOK
  <1>r. RequestsTypeOK(SplitLocations, Bills)'
    BY SplitRequestsStep
  <1>0. CASE UNCHANGED splits
    BY <1>0, <1>r DEF SplitTypeOK
  <1>1. ASSUME NEW h \in Handlers, DeductCustodial(h) \/ ChargeChannel(h) PROVE SplitTypeOK'
    <2>1. Due(h) \in Nat
      BY <1>1, SplitData DEF DeductCustodial, ChargeChannel, At
    <2> QED BY <1>1, <1>t, <1>r, <2>1 DEF DeductCustodial, ChargeChannel, Earn, SplitTypeOK
  <1>2. ASSUME NEW h \in Handlers, ZeroCustodial(h) PROVE SplitTypeOK'
    BY <1>2, <1>t, <1>r DEF ZeroCustodial, SplitTypeOK
  <1>3. ASSUME NEW h \in Handlers, ChargeRest(h) PROVE SplitTypeOK'
    <2>1. Due(h) \in Nat /\ Rest(h) \in Nat
      BY <1>3, SplitData DEF ChargeRest, At, RestIsOwed, Rest
    <2>2. /\ UNCHANGED <<custodial, changes, overwritten>> /\ forfeited' \in {forfeited, TRUE}
          /\ \/ UNCHANGED <<remaining, taken, earned>>
             \/ /\ remaining >= Rest(h) /\ remaining' = remaining - Rest(h)
                /\ taken' = taken + Rest(h) /\ earned' = earned + Due(h)
      BY <1>3 DEF ChargeRest, Earn
    <2>3. remaining' \in Nat /\ taken' \in Nat /\ earned' \in Nat
      BY <1>t, <2>1, <2>2
    <2> QED BY <1>t, <1>r, <2>2, <2>3 DEF SplitTypeOK
  <1>4. ASSUME NEW h \in Handlers, DropCharge(h) PROVE SplitTypeOK'
    BY <1>4, <1>t, <1>r DEF DropCharge, SplitTypeOK, At
  <1>5. CASE Credit \/ ChannelChanges
    BY <1>5, <1>t, <1>r, SplitAssumption DEF Credit, ChannelChanges, SplitTypeOK
  <1> QED BY <1>0, <1>1, <1>2, <1>3, <1>4, <1>5 DEF SplitNext, splitVars, BeginCharge, ReadCustodial, ReadChannel

LEMMA SplitStart == ASSUME RequestsInit, SplitInit PROVE SplitTypeOK /\ RestIsOwed
  <1>1. RequestsTypeOK(SplitLocations, Bills)
    BY RequestsStart
  <1>2. RestIsOwed
    BY DEF RequestsInit, RestIsOwed, At
  <1>3. /\ custodial \in Nat /\ remaining \in Nat /\ changes \in 0..MaxChanges
        /\ taken \in Nat /\ earned \in Nat
    BY SplitAssumption DEF SplitInit
  <1> QED BY <1>1, <1>2, <1>3 DEF SplitInit, SplitTypeOK

\* Balance, channel and requests have their types: no charge takes less than
\* nothing, also one whose deduction met no row because the balance has
\* become large enough after it was read.
THEOREM SplitTypeCorrect == SplitSpec => []SplitTypeOK
  <1>1. RequestsInit /\ SplitInit => SplitTypeOK /\ RestIsOwed
    BY SplitStart
  <1>2. SplitTypeOK /\ RestIsOwed /\ [SplitNext]_splitVars => SplitTypeOK' /\ RestIsOwed'
    BY SplitTypeStep, RestIsOwedStep
  <1> QED BY <1>1, <1>2, PTL DEF SplitSpec

\* What the requests that are half way have taken from the balance.
HalvesAt == [h \in Handlers |-> IF pc[h] = "charge_rest" THEN Saw(h) ELSE 0]
Halves == SumFunctionOnSet(HalvesAt, Handlers)

TakenAddsUp == ~overwritten /\ ~forfeited => taken = earned + Halves

SplitInv == SplitTypeOK /\ RestIsOwed /\ TakenAddsUp

\* A request that moves takes its half along.
LEMMA HalvesMove ==
    ASSUME SplitTypeOK, NEW h \in Handlers, NEW loc, NEW d, Moved(h, loc, d),
           loc = "charge_rest" => d = local[h] /\ pc[h] # "idle"
    PROVE  /\ Halves \in Nat /\ Halves' \in Nat
           /\ Halves' = Halves - (IF pc[h] = "charge_rest" THEN Saw(h) ELSE 0)
                               + (IF loc = "charge_rest" THEN Saw(h) ELSE 0)
  <1>1. \A g \in Handlers : HalvesAt[g] \in Nat
    BY SplitData DEF HalvesAt
  <1>2. pc'[h] = loc /\ local'[h] = d /\ \A g \in Handlers \ {h} : pc'[g] = pc[g] /\ local'[g] = local[g]
    BY OthersStay DEF SplitTypeOK
  <1>3. /\ \A g \in Handlers \ {h} : HalvesAt'[g] = HalvesAt[g]
        /\ HalvesAt'[h] = IF loc = "charge_rest" THEN Saw(h) ELSE 0
        /\ HalvesAt[h] = IF pc[h] = "charge_rest" THEN Saw(h) ELSE 0
    BY <1>2 DEF HalvesAt, Saw
  <1>4. HalvesAt'[h] \in Nat
    BY <1>3, SplitData
  <1>5. IsFiniteSet(Handlers)
    BY SplitAssumption
  <1>6. /\ SumFunctionOnSet(HalvesAt, Handlers) \in Nat
        /\ SumFunctionOnSet(HalvesAt', Handlers) \in Nat
        /\ SumFunctionOnSet(HalvesAt', Handlers)
              = SumFunctionOnSet(HalvesAt, Handlers) - HalvesAt[h] + HalvesAt'[h]
    BY <1>1, <1>3, <1>4, <1>5, SumOfReplaced
  <1> QED BY <1>3, <1>6 DEF Halves

\* The sum over the requests that are half way is the sum over all.
LEMMA HalvesAreHalfWay ==
    ASSUME SplitTypeOK PROVE SumFunction([h \in HalfWay |-> Saw(h)]) = Halves
  <1> DEFINE f == [h \in HalfWay |-> Saw(h)]
  <1>1. HalfWay \in SUBSET Handlers /\ IsFiniteSet(Handlers)
    BY SplitAssumption DEF HalfWay
  <1>2. \A h \in Handlers : HalvesAt[h] \in Nat
    BY SplitData DEF HalvesAt
  <1>3. /\ \A h \in HalfWay : f[h] = HalvesAt[h]
        /\ \A h \in Handlers \ HalfWay : HalvesAt[h] = 0
    BY DEF HalfWay, HalvesAt, At
  <1>4. DOMAIN f = HalfWay
    OBVIOUS
  <1> HIDE DEF f
  <1>5. SumFunctionOnSet(f, HalfWay) = SumFunctionOnSet(HalvesAt, Handlers)
    BY <1>1, <1>2, <1>3, SumOfPart
  <1>6. SumFunction(f) = SumFunctionOnSet(f, DOMAIN f)
    BY DEF SumFunction, SumFunctionOnSet, FoldFunction
  <1> QED BY <1>4, <1>5, <1>6 DEF Halves, f

LEMMA TakenAddsUpStep ==
    ASSUME SplitInv, [SplitNext]_splitVars PROVE TakenAddsUp'
  <1> USE DEF purse, splits
  <1>t. /\ SplitTypeOK /\ RestIsOwed /\ TakenAddsUp
        /\ custodial \in Nat /\ remaining \in Nat /\ taken \in Nat /\ earned \in Nat
    BY DEF SplitInv, SplitTypeOK
  <1>0. CASE UNCHANGED requests /\ UNCHANGED <<taken, earned, overwritten, forfeited>>
    BY <1>0, <1>t DEF requests, TakenAddsUp, Halves, HalvesAt, Saw
  \* A request that neither was half way nor is.
  <1>m. ASSUME NEW h \in Handlers, NEW loc, NEW d, Moved(h, loc, d),
               pc[h] # "charge_rest", loc # "charge_rest"
        PROVE  Halves \in Nat /\ Halves' = Halves
    BY <1>m, <1>t, HalvesMove
  <1>1. ASSUME NEW h \in Handlers,
               (\E n \in Costs : BeginCharge(h, n)) \/ ReadCustodial(h) \/ ReadChannel(h)
        PROVE  TakenAddsUp'
    <2>1. PICK loc, d : loc # "charge_rest" /\ Moved(h, loc, d)
      BY <1>1 DEF BeginCharge, Begin, ReadCustodial, ReadChannel, Goto, Keep, End, Leave
    <2>2. pc[h] # "charge_rest" /\ UNCHANGED splits
      BY <1>1 DEF BeginCharge, Begin, ReadCustodial, ReadChannel, At
    <2>3. Halves' = Halves
      BY <1>m, <2>1, <2>2
    <2> QED BY <1>t, <2>2, <2>3 DEF TakenAddsUp
  <1>2. ASSUME NEW h \in Handlers, DeductCustodial(h) \/ ChargeChannel(h) PROVE TakenAddsUp'
    <2>1. PICK loc, d : loc # "charge_rest" /\ Moved(h, loc, d)
      BY <1>2 DEF DeductCustodial, ChargeChannel, Earn, Goto, Keep, End, Leave
    <2>2. pc[h] # "charge_rest" /\ Due(h) \in Nat
      BY <1>2, <1>t, SplitData DEF DeductCustodial, ChargeChannel, At
    <2>3. Halves \in Nat /\ Halves' = Halves
      BY <1>m, <2>1, <2>2
    <2>4. /\ UNCHANGED <<overwritten, forfeited>>
          /\ \/ UNCHANGED <<taken, earned>>
             \/ taken' = taken + Due(h) /\ earned' = earned + Due(h)
      BY <1>2 DEF DeductCustodial, ChargeChannel, Earn
    <2> QED BY <1>t, <2>2, <2>3, <2>4 DEF TakenAddsUp
  <1>3. ASSUME NEW h \in Handlers, ZeroCustodial(h) PROVE TakenAddsUp'
    <2>1. Moved(h, "charge_rest", local[h]) /\ pc[h] = "zero_custodial"
      BY <1>3 DEF ZeroCustodial, Goto, Keep, At
    <2>2. Saw(h) \in Nat
      BY <1>t, <2>1, SplitData
    <2>3. Halves \in Nat /\ Halves' = Halves + Saw(h)
      BY <1>t, <2>1, <2>2, HalvesMove
    <2>4. /\ taken' = taken + custodial /\ UNCHANGED <<earned, forfeited>>
          /\ ~overwritten' => ~overwritten /\ custodial = Saw(h)
      BY <1>3 DEF ZeroCustodial
    <2> QED BY <1>t, <2>2, <2>3, <2>4 DEF TakenAddsUp
  <1>4. ASSUME NEW h \in Handlers, ChargeRest(h) PROVE TakenAddsUp'
    <2>1. Moved(h, "idle", Nothing) /\ pc[h] = "charge_rest"
      BY <1>4 DEF ChargeRest, Earn, End, Leave, At
    <2>2. Saw(h) \in Nat /\ Due(h) \in Nat
      BY <1>t, <2>1, SplitData
    <2>3. Halves \in Nat /\ Halves' = Halves - Saw(h)
      BY <1>t, <2>1, <2>2, HalvesMove
    <2>4. /\ overwritten' = overwritten
          /\ \/ /\ taken' = taken + (Due(h) - Saw(h)) /\ earned' = earned + Due(h)
                /\ forfeited' = forfeited
             \/ forfeited' = TRUE
      BY <1>4 DEF ChargeRest, Earn, Rest
    <2> QED BY <1>t, <2>2, <2>3, <2>4 DEF TakenAddsUp
  <1>5. ASSUME NEW h \in Handlers, DropCharge(h) PROVE TakenAddsUp'
    <2>1. Moved(h, "idle", Nothing) /\ UNCHANGED <<taken, earned, overwritten>>
      BY <1>5 DEF DropCharge, Dropped, Leave
    <2>2. CASE pc[h] = "charge_rest"
      BY <1>5, <2>2 DEF DropCharge, At, TakenAddsUp
    <2>3. CASE pc[h] # "charge_rest"
      <3>1. Halves' = Halves
        BY <1>m, <2>1, <2>3
      <3>2. ~forfeited' => ~forfeited
        BY <1>5 DEF DropCharge
      <3> QED BY <1>t, <2>1, <3>1, <3>2 DEF TakenAddsUp
    <2> QED BY <2>2, <2>3
  <1> QED BY <1>0, <1>1, <1>2, <1>3, <1>4, <1>5 DEF SplitNext, splitVars, Credit, ChannelChanges

\* Balance and channel lose what the charges that were answered Ok cost, and
\* the custodial part of those that are about to charge the rest, unless a
\* balance was overwritten that is not the one that was read, or a charge
\* failed half way.
THEOREM ChargesEarned == SplitSpec => []TakenIsEarned
  <1>1. RequestsInit /\ SplitInit => SplitInv
    <2> SUFFICES ASSUME RequestsInit, SplitInit PROVE SplitInv
      OBVIOUS
    <2>1. \A h \in Handlers : HalvesAt[h] = 0
      BY DEF HalvesAt, RequestsInit
    <2>2. SumFunctionOnSet(HalvesAt, {}) = SumFunctionOnSet(HalvesAt, Handlers)
      BY <2>1, SumOfPart, SplitAssumption
    <2>3. Halves = 0
      BY <2>2, SumOfNothing DEF Halves
    <2>4. TakenAddsUp
      BY <2>3 DEF SplitInit, TakenAddsUp
    <2> QED BY <2>4, SplitStart DEF SplitInv
  <1>2. SplitInv /\ [SplitNext]_splitVars => SplitInv'
    BY SplitTypeStep, RestIsOwedStep, TakenAddsUpStep DEF SplitInv
  <1>3. SplitInv => TakenIsEarned
    BY HalvesAreHalfWay DEF SplitInv, TakenAddsUp, TakenIsEarned
  <1> QED BY <1>1, <1>2, <1>3, PTL DEF SplitSpec

-----------------------------------------------------------------------------
(* Conversation.                                                           *)

\* How many symbols of the answer the task has read.
ReadSoFar == 4 * SentenceCount - Len(wire)

\* x is the k-th symbol of the answer, or replaces one of a cut character.
Decodes(x, k) == \/ x = ModelAnswer[k]
                 \/ x = Replacement /\ k % 4 \in {1, 2} /\ (k + 3) \div 4 \in split

\* The wire holds the rest of the answer, the buffer what was read and not
\* yet cut.
StreamKept ==
    turn \in {"read", "parse", "speak", "send"} =>
      /\ Len(wire) <= 4 * SentenceCount
      /\ \A k \in 1..Len(wire) : wire[k] = ModelAnswer[ReadSoFar + k]
      /\ ReadSoFar % 4 = 1 => (ReadSoFar + 3) \div 4 \in split
      /\ Len(buffer) = ReadSoFar - 4 * speaking.nth
      /\ \A k \in 1..Len(buffer) : Decodes(buffer[k], 4 * speaking.nth + k)
      /\ turn = "read" => Len(buffer) < 4

Spoken(e) == e.nth \in split \/ e.text = Sentence(e.nth)

\* What the task holds.
TaskInv ==
    /\ turn \in {"transcript", "connect"} => buffer = <<>> /\ speaking.nth = 0
    /\ turn \in {"speak", "send"} => /\ speaking.event = "audio" /\ speaking.nth \in 1..SentenceCount
                                     /\ Spoken(speaking)
    /\ turn = "done" => broken \/ speaking.nth = SentenceCount

\* Sentences that the task is through with.
ThroughWith == IF turn \in {"speak", "send"} THEN speaking.nth - 1 ELSE speaking.nth

SaidDone == \E k \in 2..Len(Said) : Said[k].event = "done"
IsSaid(i) == \E k \in 2..Len(Said) : Said[k].nth = i

SaidInv ==
    /\ Said # <<>> => Said[1].event = "transcript"
    /\ \A k \in 2..Len(Said) : IsAudio(k) \/ (Said[k].event = "done" /\ k = Len(Said))
    /\ \A k \in 2..Len(Said) : IsAudio(k) =>
         /\ Said[k].nth <= ThroughWith /\ Spoken(Said[k])
         /\ \A j \in 2..k - 1 : Said[j].nth < Said[k].nth
    /\ turn = "transcript" => Said = <<>>
    /\ client = "listening" /\ turn # "transcript" => Said # <<>>
    /\ client = "listening" => \A i \in 1..ThroughWith \ silent : IsSaid(i)
    /\ SaidDone => turn = "ended" /\ (broken \/ \A i \in SentenceIds \ silent : IsSaid(i))

ConversationInv == ConversationTypeOK /\ StreamKept /\ TaskInv /\ SaidInv

\* A byte of the model's answer, and where the two of a character are.
LEMMA AnswerShape ==
    ASSUME NEW k \in 1..4 * SentenceCount
    PROVE  /\ ModelAnswer[k] \in Symbols /\ k % 4 \in 0..3
           /\ k % 4 \in {0, 3} => ModelAnswer[k] = LineFeed
           /\ k % 4 \in {1, 2} => (k + 3) \div 4 \in SentenceIds
           /\ k % 4 = 1 => ModelAnswer[k] = Symbol((k + 3) \div 4, "first")
           /\ k % 4 = 2 => ModelAnswer[k] = Symbol((k + 3) \div 4, "second")
  <1>1. SentenceCount \in Nat
    BY ConversationAssumption
  <1>2. k \in Int /\ (k - 1) \div 4 + 1 \in 1..SentenceCount
    BY <1>1
  <1>3. k % 4 \in 0..3
    BY <1>2
  <1>4. k % 4 \in {1, 2} => (k + 3) \div 4 = (k - 1) \div 4 + 1
    BY <1>2
  <1>5. ModelAnswer[k] = WireByte(k)
    BY DEF ModelAnswer
  <1> QED
    BY <1>1, <1>2, <1>3, <1>4, <1>5 DEF WireByte, Symbol, Symbols, LineFeed, SentenceIds

LEMMA AnswerType == ModelAnswer \in Seq(Symbols) /\ Len(ModelAnswer) = 4 * SentenceCount
  <1>1. 4 * SentenceCount \in Nat
    BY ConversationAssumption
  <1>2. ModelAnswer \in [1..4 * SentenceCount -> Symbols]
    BY AnswerShape DEF ModelAnswer
  <1> QED BY <1>1, <1>2

\* A decoded symbol is a line feed where the answer has one, and only there.
LEMMA DecodesLineFeed ==
    ASSUME NEW k \in 1..4 * SentenceCount, NEW x, Decodes(x, k)
    PROVE  x = LineFeed <=> k % 4 \in {0, 3}
  <1>1. k % 4 \in 0..3 /\ (k % 4 \in {0, 3} => ModelAnswer[k] = LineFeed)
    BY AnswerShape
  <1>2. \A i : Symbol(i, "first") # LineFeed /\ Symbol(i, "second") # LineFeed /\ Replacement # LineFeed
    BY DEF Symbol, LineFeed, Replacement
  <1>3. k % 4 \in {1, 2} => ModelAnswer[k] # LineFeed
    BY <1>2, AnswerShape
  <1>4. 0 \notin {1, 2} /\ 3 \notin {1, 2} /\ 0..3 = {0, 1, 2, 3}
    OBVIOUS
  <1> QED BY <1>1, <1>2, <1>3, <1>4 DEF Decodes

\* Two decoded symbols of a sentence that no chunk cut are the sentence.
LEMMA DecodesSentence ==
    ASSUME ConversationTypeOK, NEW n \in Nat, 4 * n + 4 <= 4 * SentenceCount, NEW b \in Seq(Symbols),
           Len(b) >= 2, Decodes(b[1], 4 * n + 1), Decodes(b[2], 4 * n + 2), n + 1 \notin split
    PROVE  SubSeq(b, 1, 2) = Sentence(n + 1)
  <1>1. SentenceCount \in Nat
    BY ConversationAssumption
  <1>2. /\ 4 * n + 1 \in 1..4 * SentenceCount /\ (4 * n + 1) % 4 = 1 /\ (4 * n + 1 + 3) \div 4 = n + 1
        /\ 4 * n + 2 \in 1..4 * SentenceCount /\ (4 * n + 2) % 4 = 2 /\ (4 * n + 2 + 3) \div 4 = n + 1
    BY <1>1
  <1>3. b[1] = Symbol(n + 1, "first") /\ b[2] = Symbol(n + 1, "second")
    BY <1>2, AnswerShape DEF Decodes
  <1>4. /\ SubSeq(b, 1, 2) \in Seq(Symbols) /\ Len(SubSeq(b, 1, 2)) = 2
        /\ SubSeq(b, 1, 2)[1] = b[1] /\ SubSeq(b, 1, 2)[2] = b[2]
    <2>1. \A i \in 1..2 : b[i] \in Symbols
      BY ElementOfSeq
    <2> QED BY <2>1, SubSeqProperties
  <1>5. /\ Sentence(n + 1) \in Seq(Symbols) /\ Len(Sentence(n + 1)) = 2
        /\ Sentence(n + 1)[1] = b[1] /\ Sentence(n + 1)[2] = b[2]
    <2>1. b[1] \in Symbols /\ b[2] \in Symbols
      BY ElementOfSeq
    <2> QED BY <1>3, <2>1 DEF Sentence
  <1> QED BY <1>4, <1>5, SeqEqual

\* The first empty line of a buffer that begins with a sentence is after its
\* character.
LEMMA FirstEmptyLine ==
    ASSUME ConversationTypeOK, StreamKept, TaskInv, turn = "parse"
    PROVE  /\ speaking.nth \in Nat
           /\ Len(buffer) >= 4 => 4 * speaking.nth + 4 <= 4 * SentenceCount /\ EmptyLineAt(3)
           /\ \A k \in 1..Len(buffer) : EventEnds(k) => k = 3
  <1> DEFINE n == speaking.nth
  <1>1. SentenceCount \in Nat /\ n \in Nat /\ buffer \in Seq(Symbols) /\ Len(buffer) \in Nat /\ Len(wire) \in Nat
    BY ConversationAssumption DEF ConversationTypeOK, Events
  <1>2. Len(buffer) + 4 * n <= 4 * SentenceCount
    BY <1>1 DEF StreamKept, ReadSoFar
  <1>3. \A k \in 1..Len(buffer) : Decodes(buffer[k], 4 * n + k)
    BY DEF StreamKept
  <1> HIDE DEF n
  <1>4. ASSUME NEW k \in 1..Len(buffer) PROVE buffer[k] = LineFeed <=> k % 4 \in {0, 3}
    <2>1. 4 * n + k \in 1..4 * SentenceCount /\ (4 * n + k) % 4 = k % 4
      BY <1>1, <1>2
    <2> QED BY <1>3, <2>1, DecodesLineFeed
  <1>5. Len(buffer) >= 4 => EmptyLineAt(3)
    <2>1. 3 % 4 = 3 /\ 4 % 4 = 0 /\ 3 + 1 = 4
      OBVIOUS
    <2> QED BY <1>1, <1>4, <2>1 DEF EmptyLineAt
  <1>6. ASSUME NEW k \in 1..Len(buffer), EventEnds(k) PROVE k = 3
    <2>1. k < Len(buffer) /\ buffer[k] = LineFeed
      BY <1>6 DEF EventEnds, EmptyLineAt
    <2>2. k % 4 \in {0, 3}
      BY <1>4, <2>1
    <2>3. k >= 3
      BY <2>2
    <2>4. k > 3 => EmptyLineAt(3)
      BY <1>1, <1>5, <2>1
    <2> QED BY <1>6, <2>3, <2>4 DEF EventEnds
  <1> QED BY <1>1, <1>2, <1>5, <1>6 DEF n

\* The type of what a task step does.
LEMMA DecodedType ==
    ASSUME NEW chunk \in Seq(Symbols)
    PROVE  Decoded(chunk) \in Seq(Symbols) /\ Len(Decoded(chunk)) = Len(chunk)
  <1>1. Len(chunk) \in Nat /\ \A k \in 1..Len(chunk) : chunk[k] \in Symbols
    BY LenProperties, ElementOfSeq
  <1>2. Replacement \in Symbols
    BY ConversationAssumption DEF Replacement, Symbol, Symbols
  <1>3. Decoded(chunk) \in [1..Len(chunk) -> Symbols]
    BY <1>1, <1>2 DEF Decoded
  <1> QED BY <1>1, <1>3

\* Reading a chunk keeps what is on the wire and in the buffer: only the
\* characters that its ends cut are replaced.
LEMMA ReadChunkKeeps ==
    ASSUME ConversationTypeOK, StreamKept, NEW n \in 1..Len(wire), ReadChunk(n)
    PROVE  /\ StreamKept' /\ split \subseteq split'
           /\ wire' \in Seq(Symbols) /\ buffer' \in Seq(Symbols) /\ split' \subseteq SentenceIds
  <1>0. PICK chunk, more, c, o : /\ chunk = SubSeq(wire, 1, n) /\ more = Decoded(chunk)
                                 /\ c = ReadSoFar /\ o = 4 * speaking.nth
    OBVIOUS
  <1>1. /\ SentenceCount \in Nat /\ wire \in Seq(Symbols) /\ buffer \in Seq(Symbols) /\ speaking.nth \in Nat
        /\ Len(wire) \in Nat /\ Len(buffer) \in Nat /\ n \in Nat
    BY ConversationAssumption DEF ConversationTypeOK, Events
  <1>2. /\ turn = "read" /\ turn' = "parse" /\ speaking' = speaking
        /\ wire' = SubSeq(wire, n + 1, Len(wire)) /\ buffer' = buffer \o more
        /\ split' = split \cup {i \in SentenceIds : chunk[n] = Symbol(i, "first")}
    BY <1>0 DEF ReadChunk
  <1>3. /\ Len(wire) <= 4 * SentenceCount /\ c = 4 * SentenceCount - Len(wire)
        /\ \A k \in 1..Len(wire) : wire[k] = ModelAnswer[c + k]
        /\ c % 4 = 1 => (c + 3) \div 4 \in split
        /\ Len(buffer) = c - o
        /\ \A k \in 1..Len(buffer) : Decodes(buffer[k], o + k)
    BY <1>0, <1>2 DEF StreamKept, ReadSoFar
  <1>c. c \in Nat /\ o \in Nat /\ 4 * SentenceCount = c + Len(wire) /\ c = o + Len(buffer)
    <2>1. 4 * SentenceCount \in Nat /\ o \in Nat
      BY <1>0, <1>1
    <2>2. Len(wire) <= 4 * SentenceCount /\ c = 4 * SentenceCount - Len(wire) /\ Len(buffer) = c - o
      BY <1>3
    <2> QED BY <1>1, <2>1, <2>2
  <1>4. chunk \in Seq(Symbols) /\ Len(chunk) = n /\ \A k \in 1..n : chunk[k] = wire[k]
    <2>1. \A i \in 1..n : wire[i] \in Symbols
      BY <1>1, ElementOfSeq
    <2> QED BY <1>0, <1>1, <2>1, SubSeqProperties
  <1>5. /\ wire' \in Seq(Symbols) /\ Len(wire') = Len(wire) - n
        /\ \A k \in 1..Len(wire') : wire'[k] = wire[n + k]
    <2>1. \A i \in n + 1..Len(wire) : wire[i] \in Symbols
      BY <1>1, ElementOfSeq
    <2>2. /\ wire' \in Seq(Symbols) /\ Len(wire') = IF n + 1 <= Len(wire) THEN Len(wire) - (n + 1) + 1 ELSE 0
          /\ \A k \in 1..Len(wire) - (n + 1) + 1 : wire'[k] = wire[n + 1 + k - 1]
      BY <1>1, <1>2, <2>1, SubSeqProperties
    <2> QED BY <1>1, <2>2
  <1>6. more \in Seq(Symbols) /\ Len(more) = n
    BY <1>0, <1>4, DecodedType
  <1>7. /\ buffer' \in Seq(Symbols) /\ Len(buffer') = Len(buffer) + n
        /\ \A k \in 1..Len(buffer) : buffer'[k] = buffer[k]
        /\ \A k \in 1..n : buffer'[Len(buffer) + k] = more[k]
    <2>1. /\ buffer' \in Seq(Symbols) /\ Len(buffer') = Len(buffer) + n
          /\ \A i \in 1..Len(buffer) + n : buffer'[i] = IF i <= Len(buffer) THEN buffer[i] ELSE more[i - Len(buffer)]
      BY <1>1, <1>2, <1>6, ConcatProperties
    <2>2. ASSUME NEW k \in 1..Len(buffer) PROVE buffer'[k] = buffer[k]
      <3>1. k \in 1..Len(buffer) + n /\ k <= Len(buffer)
        BY <1>1
      <3> QED BY <2>1, <3>1
    <2>3. ASSUME NEW k \in 1..n PROVE buffer'[Len(buffer) + k] = more[k]
      <3>1. Len(buffer) + k \in 1..Len(buffer) + n /\ ~(Len(buffer) + k <= Len(buffer))
            /\ Len(buffer) + k - Len(buffer) = k
        BY <1>1
      <3> QED BY <2>1, <3>1
    <2> QED BY <2>1, <2>2, <2>3
  <1>8. ReadSoFar' = c + n
    BY <1>0, <1>1, <1>5 DEF ReadSoFar
  <1>9. \A k \in 1..n : c + k \in 1..4 * SentenceCount /\ chunk[k] = ModelAnswer[c + k]
    <2> SUFFICES ASSUME NEW k \in 1..n PROVE c + k \in 1..4 * SentenceCount /\ chunk[k] = ModelAnswer[c + k]
      OBVIOUS
    <2>1. k \in 1..Len(wire)
      BY <1>1
    <2>2. chunk[k] = ModelAnswer[c + k]
      BY <1>3, <1>4, <2>1
    <2> QED BY <1>c, <1>1, <2>1, <2>2
  <1>s. /\ \A i : Symbol(i, "first").part = "first" /\ Symbol(i, "second").part = "second"
        /\ LineFeed.part = "feed"
    BY DEF Symbol, LineFeed
  <1>p. ASSUME NEW k \in 1..n
        PROVE  /\ (c + k) % 4 \in 0..3
               /\ chunk[k].part = "first" <=> (c + k) % 4 = 1
               /\ chunk[k].part = "second" <=> (c + k) % 4 = 2
    <2>1. /\ (c + k) % 4 \in 0..3
          /\ (c + k) % 4 \in {0, 3} => chunk[k].part = "feed"
          /\ (c + k) % 4 = 1 => chunk[k].part = "first"
          /\ (c + k) % 4 = 2 => chunk[k].part = "second"
      BY <1>9, <1>s, AnswerShape
    <2>2. 0..3 = {0, 1, 2, 3}
      OBVIOUS
    <2> QED BY <2>1, <2>2
  \* What the end of the chunk cuts is remembered.
  <1>10. (c + n) % 4 = 1 => (c + n + 3) \div 4 \in split'
    <2>1. ASSUME (c + n) % 4 = 1
          PROVE  chunk[n] = Symbol((c + n + 3) \div 4, "first") /\ (c + n + 3) \div 4 \in SentenceIds
      BY <1>1, <1>9, <2>1, AnswerShape
    <2> QED BY <1>2, <2>1
  <1>11. ASSUME NEW k \in 1..n PROVE Decodes(more[k], c + k)'
    <2>1. \/ more[k] = chunk[k]
          \/ more[k] = Replacement /\ chunk[k].part = "first" /\ k = n
          \/ more[k] = Replacement /\ chunk[k].part = "second" /\ k = 1
      BY <1>0, <1>4, <1>11 DEF Decoded
    <2>2. CASE more[k] = chunk[k]
      BY <1>9, <2>2 DEF Decodes
    <2>3. CASE more[k] = Replacement /\ chunk[k].part = "first" /\ k = n
      <3>1. (c + k) % 4 = 1
        BY <1>p, <2>3
      <3> QED BY <1>10, <2>3, <3>1 DEF Decodes
    <2>4. CASE more[k] = Replacement /\ chunk[k].part = "second" /\ k = 1
      <3>1. c \in Nat /\ (c + 1) % 4 = 2
        BY <1>1, <1>3, <1>p, <2>4
      <3>2. c % 4 = 1 /\ (c + 1 + 3) \div 4 = (c + 3) \div 4
        BY <3>1
      <3>3. (c + 1 + 3) \div 4 \in split'
        BY <1>2, <1>3, <3>2
      <3> QED BY <2>4, <3>1, <3>3 DEF Decodes
    <2> QED BY <2>1, <2>2, <2>3, <2>4
  <1>12. \A k \in 1..Len(wire') : wire'[k] = ModelAnswer[c + n + k]
    <2> SUFFICES ASSUME NEW k \in 1..Len(wire') PROVE wire'[k] = ModelAnswer[c + n + k]
      OBVIOUS
    <2>1. n + k \in 1..Len(wire) /\ c + (n + k) = c + n + k
      BY <1>1, <1>5, <1>c
    <2>2. wire'[k] = wire[n + k]
      BY <1>5
    <2> QED BY <1>3, <2>1, <2>2
  <1>13. ASSUME NEW k \in 1..Len(buffer') PROVE Decodes(buffer[k], o + k)'
    <2>1. CASE k <= Len(buffer)
      <3>1. buffer'[k] = buffer[k] /\ Decodes(buffer[k], o + k)
        BY <1>1, <1>3, <1>7, <2>1
      <3> QED BY <1>2, <3>1 DEF Decodes
    <2>2. CASE k > Len(buffer)
      <3>1. PICK j \in 1..n : k = Len(buffer) + j
        <4>1. k - Len(buffer) \in 1..n /\ k = Len(buffer) + (k - Len(buffer))
          BY <1>1, <1>7, <2>2
        <4> QED BY <4>1
      <3>2. buffer'[k] = more[j] /\ o + k = c + j
        BY <1>1, <1>7, <1>c, <3>1
      <3> QED BY <1>2, <1>11, <3>2 DEF Decodes
    <2> QED BY <1>1, <1>7, <2>1, <2>2
  <1>14. Len(wire') <= 4 * SentenceCount /\ Len(buffer') = c + n - o
    BY <1>1, <1>5, <1>7, <1>c
  <1>15. 4 * speaking'.nth = o
    BY <1>0, <1>2
  <1>16. StreamKept'
    <2>1. \A k \in 1..Len(wire') : wire'[k] = ModelAnswer[ReadSoFar' + k]
      BY <1>8, <1>12
    <2>2. \A k \in 1..Len(buffer') : Decodes(buffer[k], 4 * speaking.nth + k)'
      BY <1>13, <1>15
    <2>3. ReadSoFar' % 4 = 1 => (ReadSoFar' + 3) \div 4 \in split'
      BY <1>8, <1>10
    <2>4. Len(wire') <= 4 * SentenceCount /\ Len(buffer') = ReadSoFar' - 4 * speaking'.nth
      BY <1>1, <1>2, <1>8, <1>14, <1>15, <1>c
    <2> QED BY <1>2, <2>1, <2>2, <2>3, <2>4 DEF StreamKept
  <1>17. split \subseteq split' /\ split' \subseteq SentenceIds
    BY <1>2 DEF ConversationTypeOK
  <1> QED BY <1>5, <1>7, <1>16, <1>17

LEMMA CutEventKeeps ==
    ASSUME ConversationTypeOK, StreamKept, TaskInv, CutEvent
    PROVE  /\ StreamKept' /\ TaskInv'
           /\ buffer' \in Seq(Symbols) /\ speaking' \in Events
           /\ \/ turn' = "read" /\ speaking' = speaking
              \/ turn' = "speak" /\ speaking'.nth = speaking.nth + 1
  <1>1. /\ SentenceCount \in Nat /\ wire \in Seq(Symbols) /\ buffer \in Seq(Symbols) /\ speaking \in Events
        /\ speaking.nth \in Nat /\ Len(wire) \in Nat /\ Len(buffer) \in Nat
    BY ConversationAssumption DEF ConversationTypeOK, Events
  <1>2. turn = "parse" /\ wire' = wire /\ split' = split /\ ReadSoFar' = ReadSoFar
    BY DEF CutEvent, mishaps, ReadSoFar
  <1>3. /\ speaking.nth \in Nat
        /\ Len(buffer) >= 4 => 4 * speaking.nth + 4 <= 4 * SentenceCount /\ EmptyLineAt(3)
        /\ \A k \in 1..Len(buffer) : EventEnds(k) => k = 3
    BY <1>2, FirstEmptyLine
  <1>4. CASE /\ \A k \in 1..Len(buffer) : ~EmptyLineAt(k)
             /\ turn' = "read" /\ UNCHANGED <<speaking, buffer>>
    <2>1. Len(buffer) < 4
      <3>1. Len(buffer) >= 4 => 3 \in 1..Len(buffer)
        BY <1>1
      <3> QED BY <1>1, <1>3, <1>4, <3>1
    <2>2. \A k \in 1..Len(buffer) : Decodes(buffer[k], 4 * speaking.nth + k)'
      BY <1>2, <1>4 DEF StreamKept, Decodes
    <2>3. StreamKept'
      BY <1>2, <1>4, <2>1, <2>2 DEF StreamKept
    <2> QED BY <1>1, <1>4, <2>3 DEF TaskInv
  <1>5. ASSUME NEW k \in 1..Len(buffer), EventEnds(k),
               speaking' = Event("audio", speaking.nth + 1, SubSeq(buffer, 1, k - 1)),
               buffer' = SubSeq(buffer, k + 2, Len(buffer)),
               turn' = "speak"
        PROVE  /\ StreamKept' /\ TaskInv' /\ buffer' \in Seq(Symbols) /\ speaking' \in Events
               /\ speaking'.nth = speaking.nth + 1
    <2>0. PICK n, b : n = speaking.nth /\ b = buffer
      OBVIOUS
    <2>1. k = 3 /\ Len(b) >= 4 /\ n \in Nat /\ 4 * n + 4 <= 4 * SentenceCount
      <3>1. k = 3 /\ 3 < Len(buffer)
        BY <1>3, <1>5 DEF EventEnds, EmptyLineAt
      <3> QED BY <1>1, <1>3, <2>0, <3>1
    <2>2. n + 1 \in Nat /\ n + 1 <= SentenceCount /\ 4 * (n + 1) = 4 * n + 4
      BY <1>1, <2>1
    <2>3. /\ buffer' \in Seq(Symbols) /\ Len(buffer') = Len(b) - 4
          /\ \A i \in 1..Len(b) - 4 : buffer'[i] = b[4 + i]
      <3>1. \A i \in 5..Len(b) : b[i] \in Symbols
        BY <1>1, <2>0, ElementOfSeq
      <3>2. buffer' = SubSeq(b, 5, Len(b))
        BY <1>5, <2>0, <2>1
      <3>3. /\ SubSeq(b, 5, Len(b)) \in Seq(Symbols)
            /\ Len(SubSeq(b, 5, Len(b))) = IF 5 <= Len(b) THEN Len(b) - 5 + 1 ELSE 0
            /\ \A i \in 1..Len(b) - 5 + 1 : SubSeq(b, 5, Len(b))[i] = b[5 + i - 1]
        BY <1>1, <2>0, <3>1, SubSeqProperties
      <3>4. Len(b) \in Nat /\ Len(b) - 5 + 1 = Len(b) - 4
        BY <1>1, <2>0
      <3>5. Len(buffer') = Len(b) - 4
        BY <2>1, <3>2, <3>3, <3>4
      <3>6. ASSUME NEW i \in 1..Len(b) - 4 PROVE buffer'[i] = b[4 + i]
        <4>1. 5 + i - 1 = 4 + i
          BY <3>4
        <4> QED BY <3>2, <3>3, <3>4, <4>1
      <3> QED BY <3>2, <3>3, <3>5, <3>6
    <2>4. speaking' = Event("audio", n + 1, SubSeq(b, 1, 2))
      BY <1>5, <2>0, <2>1
    <2>5. SubSeq(b, 1, 2) \in Seq(Symbols)
      <3>1. \A i \in 1..2 : b[i] \in Symbols
        BY <1>1, <2>0, <2>1, ElementOfSeq
      <3> QED BY <3>1, SubSeqProperties
    <2>6. speaking'.nth = n + 1 /\ speaking'.event = "audio" /\ speaking'.text = SubSeq(b, 1, 2) /\ speaking' \in Events
      BY <2>2, <2>4, <2>5 DEF Event, Events
    <2>7. \A i \in 1..Len(b) : Decodes(b[i], 4 * n + i)
      BY <1>2, <2>0 DEF StreamKept
    <2>8. ASSUME NEW i \in 1..Len(buffer') PROVE Decodes(buffer[i], 4 * speaking.nth + i)'
      <3>1. 4 + i \in 1..Len(b) /\ 4 * n + (4 + i) = 4 * (n + 1) + i
        <4>1. Len(b) \in Nat /\ i \in 1..Len(b) - 4
          BY <1>1, <2>0, <2>3
        <4> QED BY <2>1, <4>1
      <3>2. Decodes(b[4 + i], 4 * (n + 1) + i)
        BY <2>7, <3>1
      <3>3. buffer'[i] = b[4 + i] /\ 4 * speaking'.nth + i = 4 * (n + 1) + i
        BY <2>3, <2>6
      <3> QED BY <1>2, <3>2, <3>3 DEF Decodes
    <2>9. Len(buffer') = ReadSoFar' - 4 * speaking'.nth
      <3>1. Len(b) = ReadSoFar - 4 * n
        BY <1>2, <2>0 DEF StreamKept
      <3>2. ReadSoFar \in Int
        BY <1>1 DEF ReadSoFar
      <3> QED BY <1>2, <2>1, <2>2, <2>3, <2>6, <3>1, <3>2
    <2>10. StreamKept'
      BY <1>2, <1>5, <2>8, <2>9 DEF StreamKept
    <2>11. Spoken(speaking)'
      <3>1. ASSUME n + 1 \notin split PROVE SubSeq(b, 1, 2) = Sentence(n + 1)
        <4>1. Decodes(b[1], 4 * n + 1) /\ Decodes(b[2], 4 * n + 2)
          BY <1>1, <2>0, <2>1, <2>7
        <4> QED BY <1>1, <2>0, <2>1, <3>1, <4>1, DecodesSentence
      <3> QED BY <1>2, <2>6, <3>1 DEF Spoken
    <2>12. TaskInv'
      <3>1. speaking'.nth \in 1..SentenceCount
        BY <1>1, <2>1, <2>2, <2>6
      <3> QED BY <1>5, <2>6, <2>11, <3>1 DEF TaskInv
    <2> QED BY <2>0, <2>3, <2>6, <2>10, <2>12
  <1> QED BY <1>4, <1>5 DEF CutEvent

LEMMA ConversationTaskStep ==
    ASSUME ConversationTypeOK, StreamKept, TaskInv, TaskStep
    PROVE  /\ StreamKept' /\ TaskInv' /\ turn' \in Turns
           /\ wire' \in Seq(Symbols) /\ buffer' \in Seq(Symbols) /\ speaking' \in Events
           /\ split \subseteq split' /\ split' \subseteq SentenceIds
           /\ silent' \subseteq Nat /\ broken' \in BOOLEAN /\ panicked' \in BOOLEAN
  <1> USE DEF mishaps, response, Turns
  <1>t. /\ SentenceCount \in Nat /\ wire \in Seq(Symbols) /\ buffer \in Seq(Symbols) /\ speaking \in Events
        /\ speaking.nth \in Nat /\ Len(wire) \in Nat /\ Len(buffer) \in Nat
        /\ split \subseteq SentenceIds /\ silent \subseteq Nat /\ broken \in BOOLEAN /\ panicked \in BOOLEAN
    BY ConversationAssumption DEF ConversationTypeOK, Events
  \* The task neither reads nor cuts.
  <1>s. ASSUME UNCHANGED <<wire, buffer, speaking, split>>,
               turn \in {"read", "parse", "speak", "send"}, turn' \in {"parse", "send", "done"}
        PROVE  StreamKept'
    <2>1. \A k \in 1..Len(buffer) : Decodes(buffer[k], 4 * speaking.nth + k)'
      BY <1>s DEF StreamKept, Decodes
    <2> QED BY <1>s, <2>1 DEF StreamKept, ReadSoFar
  <1>1. CASE SendTranscript
    BY <1>1, <1>t DEF SendTranscript, StreamKept, TaskInv
  <1>2. CASE ConnectModel
    <2>1. CASE turn' = "read" /\ wire' = ModelAnswer /\ UNCHANGED <<broken, panicked>>
      <3>1. wire' \in Seq(Symbols) /\ Len(wire') = 4 * SentenceCount
        BY <2>1, AnswerType
      <3>2. ReadSoFar' = 0
        BY <1>t, <3>1 DEF ReadSoFar
      <3>3. buffer' = <<>> /\ speaking' = speaking /\ speaking.nth = 0 /\ UNCHANGED <<split, silent>>
        BY <1>2 DEF ConnectModel, TaskInv
      <3>4. Len(buffer') = 0
        BY <3>3
      <3>5. \A k \in 1..Len(wire') : wire'[k] = ModelAnswer[0 + k]
        BY <2>1, <3>1
      <3>6. 0 % 4 # 1 /\ Len(wire') <= 4 * SentenceCount
        BY <1>t, <3>1
      <3>7. StreamKept'
        BY <1>t, <2>1, <3>2, <3>3, <3>4, <3>5, <3>6 DEF StreamKept
      <3>8. TaskInv'
        BY <2>1 DEF TaskInv
      <3> QED BY <1>t, <2>1, <3>1, <3>3, <3>7, <3>8
    <2>2. CASE turn' = "done" /\ broken' = TRUE /\ UNCHANGED <<wire, panicked>>
      BY <1>2, <1>t, <2>2 DEF ConnectModel, StreamKept, TaskInv
    <2>3. CASE Panics /\ UNCHANGED <<wire, broken>>
      BY <1>2, <1>t, <2>3 DEF ConnectModel, Panics, StreamKept, TaskInv
    <2> QED BY <1>2, <2>1, <2>2, <2>3 DEF ConnectModel
  <1>3. ASSUME NEW n \in 1..Len(wire), ReadChunk(n) PROVE TaskInv' /\ UNCHANGED <<speaking, silent, broken, panicked>> /\ turn' = "parse"
    BY <1>3 DEF ReadChunk, TaskInv
  <1>4. CASE StreamEnds
    <2>1. Len(wire) = 0
      BY <1>4 DEF StreamEnds
    <2>2. speaking.nth = SentenceCount
      <3>1. /\ Len(buffer) < 4 /\ Len(buffer) = 4 * SentenceCount - Len(wire) - 4 * speaking.nth
        BY <1>4 DEF StreamEnds, StreamKept, ReadSoFar
      <3> QED BY <1>t, <2>1, <3>1
    <2> QED BY <1>4, <1>s, <1>t, <2>2 DEF StreamEnds, TaskInv
  <1>5. CASE StreamBreaks
    BY <1>5, <1>s, <1>t DEF StreamBreaks, TaskInv
  <1>6. CASE CutEvent
    BY <1>6, <1>t, CutEventKeeps DEF CutEvent
  <1>7. CASE Speak
    <2>1. TaskInv' /\ silent' \subseteq Nat
      BY <1>7, <1>t DEF Speak, Panics, TaskInv, Spoken
    <2>2. turn' = "ended" => StreamKept'
      BY DEF StreamKept
    <2> QED BY <1>7, <1>s, <1>t, <2>1, <2>2 DEF Speak, Panics
  <1>8. CASE SendAudio
    BY <1>8, <1>s, <1>t DEF SendAudio, TaskInv
  <1>9. CASE SendDone
    BY <1>9, <1>t DEF SendDone, StreamKept, TaskInv
  <1> QED BY <1>t, <1>1, <1>2, <1>3, <1>4, <1>5, <1>6, <1>7, <1>8, <1>9, ReadChunkKeeps DEF TaskStep

\* What the type says of the events on their way.
LEMMA SaidType ==
    ASSUME ConversationTypeOK
    PROVE  /\ Said \in Seq(Events) /\ Len(Said) \in Nat /\ (Said = <<>> <=> Len(Said) = 0)
           /\ \A k \in 1..Len(Said) : Said[k].nth \in Nat
           /\ ThroughWith \in Int /\ speaking.nth \in Nat /\ SentenceCount \in Nat
  <1>1. Said \in Seq(Events) /\ speaking \in Events
    BY ConcatProperties DEF Said, ConversationTypeOK
  <1>2. \A k \in 1..Len(Said) : Said[k] \in Events
    BY <1>1, ElementOfSeq
  <1>3. \A e \in Events : e.nth \in Nat
    BY DEF Events
  <1>4. Len(Said) \in Nat /\ (Said = <<>> <=> Len(Said) = 0)
    BY <1>1, EmptySeq, LenProperties
  <1> QED BY <1>1, <1>2, <1>3, <1>4, ConversationAssumption DEF ThroughWith

\* Nothing is said: what was said stays so when the task goes on.
LEMMA SaidStays ==
    ASSUME ConversationTypeOK, SaidInv, Said' = Said, client' = client,
           split \subseteq split', silent \subseteq silent', ThroughWith' \in Int, ThroughWith <= ThroughWith',
           client = "listening" => \A i \in 1..ThroughWith' \ silent' : i \in 1..ThroughWith,
           turn # "ended", turn' # "transcript", turn = "transcript" => client = "gone"
    PROVE  SaidInv'
  <1>1. \A k \in 2..Len(Said) : Said[k].nth \in Nat
    BY SaidType
  <1>2. ThroughWith \in Int
    BY SaidType
  <1>3. \A e : Spoken(e) => Spoken(e)'
    BY DEF Spoken
  <1>4. \A k \in 2..Len(Said) : IsAudio(k)' <=> IsAudio(k)
    BY DEF IsAudio
  <1>5. \A i : IsSaid(i)' <=> IsSaid(i)
    BY DEF IsSaid
  <1>6. SaidDone' <=> SaidDone
    BY DEF SaidDone
  <1>7. ASSUME NEW k \in 2..Len(Said), IsAudio(k) PROVE Said[k].nth <= ThroughWith' /\ Spoken(Said[k])'
    BY <1>1, <1>2, <1>3, <1>7 DEF SaidInv
  <1>8. /\ ~SaidDone' /\ (Said' # <<>> => Said'[1].event = "transcript")
        /\ \A k \in 2..Len(Said') : IsAudio(k)' \/ (Said'[k].event = "done" /\ k = Len(Said'))
        /\ client' = "listening" => Said' # <<>> /\ \A i \in 1..ThroughWith' \ silent' : IsSaid(i)'
    BY <1>4, <1>5, <1>6 DEF SaidInv
  <1>9. ASSUME NEW k \in 2..Len(Said'), IsAudio(k)'
        PROVE  /\ Said'[k].nth <= ThroughWith' /\ Spoken(Said[k])'
               /\ \A j \in 2..k - 1 : Said'[j].nth < Said'[k].nth
    BY <1>4, <1>7, <1>9 DEF SaidInv
  <1> QED BY <1>8, <1>9 DEF SaidInv

\* One more event is said, to a client that listens.
LEMMA SaidGrows ==
    ASSUME ConversationTypeOK, SaidInv, NEW e \in Events, Said' = Append(Said, e),
           client = "listening", client' = client, split' = split, silent' = silent, broken' = broken,
           turn # "ended", turn' # "transcript", ThroughWith' \in Int, ThroughWith <= ThroughWith',
           \/ e.event = "transcript" /\ Said = <<>> /\ ThroughWith' = 0
           \/ /\ Said # <<>> /\ e.event = "audio" /\ e.nth = ThroughWith + 1 /\ ThroughWith' = ThroughWith + 1 /\ Spoken(e)
           \/ /\ Said # <<>> /\ e.event = "done" /\ turn' = "ended" /\ ThroughWith' = ThroughWith
              /\ broken \/ ThroughWith = SentenceCount
    PROVE  SaidInv'
  <1>t. /\ Said \in Seq(Events) /\ Len(Said) \in Nat /\ (Said = <<>> <=> Len(Said) = 0)
        /\ (\A k \in 1..Len(Said) : Said[k].nth \in Nat)
        /\ ThroughWith \in Int /\ SentenceCount \in Nat /\ e.nth \in Nat
    BY SaidType DEF Events
  <1>1. /\ Len(Said') = Len(Said) + 1 /\ Said' # <<>>
        /\ \A k \in 1..Len(Said) : Said'[k] = Said[k]
        /\ Said'[Len(Said) + 1] = e
    BY <1>t, AppendProperties
  <1>2. \A x : Spoken(x) => Spoken(x)'
    BY DEF Spoken
  <1>3. \A k \in 2..Len(Said) : IsAudio(k) /\ Said[k].event # "done"
    BY DEF SaidInv, SaidDone
  <1>4. \A k \in 2..Len(Said) : /\ Said[k].nth <= ThroughWith /\ Spoken(Said[k])
                               /\ \A j \in 2..k - 1 : Said[j].nth < Said[k].nth
    BY <1>3 DEF SaidInv
  <1>5. Said'[1].event = "transcript"
    <2>1. CASE Said = <<>>
      BY <1>t, <1>1, <2>1
    <2>2. CASE Said # <<>>
      <3>1. 1 \in 1..Len(Said)
        BY <1>t, <2>2
      <3> QED BY <1>1, <2>2, <3>1 DEF SaidInv
    <2> QED BY <2>1, <2>2
  <1>6. ASSUME NEW k \in 2..Len(Said') PROVE k \in 2..Len(Said) \/ (k = Len(Said) + 1 /\ Said # <<>>)
    BY <1>t, <1>1, <1>6
  <1>7. ASSUME NEW k \in 2..Len(Said') PROVE IsAudio(k)' \/ (Said'[k].event = "done" /\ k = Len(Said'))
    <2>1. CASE k \in 2..Len(Said)
      <3>1. k \in 1..Len(Said)
        BY <1>t, <2>1
      <3> QED BY <1>1, <1>3, <2>1, <3>1 DEF IsAudio
    <2>2. CASE k = Len(Said) + 1 /\ Said # <<>>
      BY <1>1, <2>2 DEF IsAudio
    <2> QED BY <1>6, <2>1, <2>2
  <1>8. ASSUME NEW k \in 2..Len(Said'), IsAudio(k)'
        PROVE  /\ Said'[k].nth <= ThroughWith' /\ Spoken(Said[k])'
               /\ \A j \in 2..k - 1 : Said'[j].nth < Said'[k].nth
    <2>1. CASE k \in 2..Len(Said)
      <3>1. /\ k \in 1..Len(Said) /\ Said'[k] = Said[k] /\ Said[k].nth \in Nat
            /\ \A j \in 2..k - 1 : j \in 1..Len(Said)
        BY <1>t, <1>1, <2>1
      <3>2. \A j \in 2..k - 1 : Said'[j].nth < Said'[k].nth
        BY <1>1, <1>4, <2>1, <3>1
      <3>3. Said'[k].nth <= ThroughWith'
        BY <1>t, <1>4, <2>1, <3>1
      <3> QED BY <1>2, <1>4, <2>1, <3>1, <3>2, <3>3
    <2>2. CASE k = Len(Said) + 1 /\ Said # <<>>
      <3>1. Said'[k] = e /\ e.event = "audio"
        BY <1>1, <1>8, <2>2 DEF IsAudio
      <3>2. e.nth = ThroughWith + 1 /\ ThroughWith' = ThroughWith + 1 /\ Spoken(e)
        BY <2>2, <3>1
      <3>3. ASSUME NEW j \in 2..k - 1 PROVE Said'[j].nth < Said'[k].nth
        <4>1. j \in 2..Len(Said) /\ j \in 1..Len(Said)
          BY <1>t, <2>2
        <4>2. Said'[j] = Said[j] /\ Said[j].nth <= ThroughWith /\ Said[j].nth \in Nat
          BY <1>t, <1>1, <1>4, <4>1
        <4> QED BY <1>t, <3>1, <3>2, <4>2
      <3>4. Said'[k].nth <= ThroughWith' /\ Spoken(Said[k])'
        BY <1>t, <1>2, <3>1, <3>2
      <3> QED BY <1>2, <3>1, <3>2, <3>3, <3>4
    <2> QED BY <1>6, <2>1, <2>2
  <1>9. ASSUME NEW i, IsSaid(i) PROVE IsSaid(i)'
    <2>1. PICK k \in 2..Len(Said) : Said[k].nth = i
      BY <1>9 DEF IsSaid
    <2>2. k \in 2..Len(Said') /\ k \in 1..Len(Said)
      BY <1>t, <1>1
    <2> QED BY <1>1, <2>1, <2>2 DEF IsSaid
  <1>10. ASSUME NEW i \in 1..ThroughWith' \ silent PROVE IsSaid(i)'
    <2>1. CASE i \in 1..ThroughWith
      BY <1>9, <2>1 DEF SaidInv
    <2>2. CASE i \notin 1..ThroughWith
      <3>1. Said # <<>> /\ e.nth = i
        BY <1>t, <2>2
      <3>2. Len(Said) + 1 \in 2..Len(Said')
        BY <1>t, <1>1, <3>1
      <3> QED BY <1>1, <3>1, <3>2 DEF IsSaid
    <2> QED BY <2>1, <2>2
  <1>11. ASSUME SaidDone' PROVE turn' = "ended" /\ (broken' \/ \A i \in SentenceIds \ silent' : IsSaid(i)')
    <2>1. PICK k \in 2..Len(Said') : Said'[k].event = "done"
      BY <1>11 DEF SaidDone
    <2>2. Said # <<>> /\ e.event = "done"
      <3>1. CASE k \in 2..Len(Said)
        <4>1. k \in 1..Len(Said)
          BY <1>t, <3>1
        <4> QED BY <1>1, <1>3, <2>1, <3>1, <4>1
      <3>2. CASE k = Len(Said) + 1 /\ Said # <<>>
        BY <1>1, <2>1, <3>2
      <3> QED BY <1>6, <3>1, <3>2
    <2>3. turn' = "ended" /\ ThroughWith' = ThroughWith /\ (broken \/ ThroughWith = SentenceCount)
      BY <2>2
    <2> QED BY <1>10, <2>3 DEF SentenceIds
  <1>12. client' = "listening" => Said' # <<>> /\ \A i \in 1..ThroughWith' \ silent' : IsSaid(i)'
    BY <1>1, <1>10
  <1> QED BY <1>1, <1>5, <1>7, <1>8, <1>11, <1>12 DEF SaidInv

\* The client hears an event, or hangs up and gets no more.
LEMMA ClientStep ==
    ASSUME ConversationTypeOK, SaidInv, Hear \/ HangUp
    PROVE  ConversationTypeOK' /\ SaidInv'
  <1> USE DEF speakerTask, mishaps
  <1>t. /\ Said \in Seq(Events) /\ Len(Said) \in Nat /\ (Said = <<>> <=> Len(Said) = 0)
        /\ heard \in Seq(Events) /\ channel \in Seq(Events)
    BY SaidType DEF ConversationTypeOK
  <1>1. CASE Hear
    <2>1. Head(channel) \in Events /\ Tail(channel) \in Seq(Events) /\ channel = <<Head(channel)>> \o Tail(channel)
      <3>1. channel # <<>> /\ Len(channel) \in Nat /\ Len(channel) >= 1
        BY <1>1, <1>t, EmptySeq DEF Hear
      <3>2. /\ Head(channel) \in Events /\ Tail(channel) \in Seq(Events) /\ Len(Tail(channel)) = Len(channel) - 1
            /\ \A i \in 1..Len(Tail(channel)) : Tail(channel)[i] = channel[i + 1]
        BY <1>t, <3>1, HeadTailProperties
      <3>3. SubSeq(channel, 1, Len(channel)) = <<channel[1]>> \o SubSeq(channel, 2, Len(channel))
        <4>1. 1 \in 1..Len(channel) /\ Len(channel) \in 1..Len(channel) /\ 1 + 1 = 2
          BY <3>1
        <4> QED BY <1>t, <4>1, SubSeqRecursiveFirst
      <3>4. SubSeq(channel, 1, Len(channel)) = channel /\ Tail(channel) = SubSeq(channel, 2, Len(channel))
        BY <1>t, <3>1, SubSeqFull, TailIsSubSeq
      <3>5. Head(channel) = channel[1]
        BY <1>t, <3>1
      <3> QED BY <3>2, <3>3, <3>4, <3>5
    <2>2. /\ heard' = Append(heard, Head(channel)) /\ heard' \in Seq(Events)
          /\ heard' = heard \o <<Head(channel)>>
      BY <1>1, <1>t, <2>1, AppendProperties, AppendIsConcat DEF Hear
    <2>3. <<Head(channel)>> \in Seq(Events)
      BY <2>1
    <2>4. (heard \o <<Head(channel)>>) \o Tail(channel) = heard \o (<<Head(channel)>> \o Tail(channel))
      BY <1>t, <2>1, <2>3, ConcatAssociative
    <2>5. Said' = Said
      BY <1>1, <2>1, <2>2, <2>4 DEF Hear, Said
    <2>6. ConversationTypeOK'
      BY <1>1, <2>1, <2>2 DEF Hear, ConversationTypeOK
    <2>7. SaidInv'
      BY <1>1, <2>5 DEF Hear, SaidInv, SaidDone, IsSaid, IsAudio, ThroughWith, Spoken
    <2> QED BY <2>6, <2>7
  <1>2. CASE HangUp
    <2>1. ConversationTypeOK'
      BY <1>2 DEF HangUp, ConversationTypeOK
    <2>2. /\ Len(Said') \in Nat /\ Len(Said') <= Len(Said) /\ (Said' = <<>> <=> Len(Said') = 0)
          /\ \A k \in 1..Len(Said') : Said'[k] = Said[k]
      <3>1. Said' = heard
        BY <1>2, <1>t, ConcatEmptySeq DEF HangUp, Said
      <3>2. /\ Len(Said) = Len(heard) + Len(channel)
            /\ \A i \in 1..Len(heard) + Len(channel) : Said[i] = IF i <= Len(heard) THEN heard[i] ELSE channel[i - Len(heard)]
        BY <1>t, ConcatProperties DEF Said
      <3>3. Len(heard) \in Nat /\ Len(channel) \in Nat /\ (heard = <<>> <=> Len(heard) = 0)
        BY <1>t, EmptySeq, LenProperties
      <3>4. ASSUME NEW k \in 1..Len(heard) PROVE heard[k] = Said[k]
        <4>1. k \in 1..Len(heard) + Len(channel) /\ k <= Len(heard)
          BY <3>3
        <4> QED BY <3>2, <4>1
      <3> QED BY <3>1, <3>2, <3>3, <3>4
    <2>3. UNCHANGED <<turn, split, silent, broken, ThroughWith>> /\ client' = "gone"
      BY <1>2 DEF HangUp, ThroughWith
    <2>4. ASSUME NEW k \in 2..Len(Said')
          PROVE  /\ k \in 2..Len(Said) /\ k \in 1..Len(Said') /\ Said'[k] = Said[k]
                 /\ k = Len(Said) => k = Len(Said')
                 /\ \A j \in 2..k - 1 : Said'[j] = Said[j]
      BY <1>t, <2>2
    <2>5. Said' # <<>> => Said # <<>> /\ Said'[1] = Said[1]
      <3>1. Said' # <<>> => 1 \in 1..Len(Said')
        BY <2>2
      <3> QED BY <1>t, <2>2, <3>1
    <2>6. \A k \in 2..Len(Said') : IsAudio(k)' \/ (Said'[k].event = "done" /\ k = Len(Said'))
      BY <2>4 DEF SaidInv, IsAudio
    <2>7. ASSUME NEW k \in 2..Len(Said'), IsAudio(k)'
          PROVE  /\ Said'[k].nth <= ThroughWith' /\ Spoken(Said[k])'
                 /\ \A j \in 2..k - 1 : Said'[j].nth < Said'[k].nth
      <3>1. IsAudio(k)
        BY <2>4, <2>7 DEF IsAudio
      <3> QED BY <2>3, <2>4, <3>1 DEF SaidInv, Spoken
    \* Who has got "done" has got everything.
    <2>8. ASSUME SaidDone' PROVE Said' = Said /\ SaidDone
      <3>1. PICK k \in 2..Len(Said') : Said'[k].event = "done"
        BY <2>8 DEF SaidDone
      <3>2. Said[k].event = "done" /\ k \in 2..Len(Said) /\ k = Len(Said)
        BY <2>4, <3>1 DEF SaidInv, IsAudio
      <3>3. Len(Said') = Len(Said)
        BY <1>t, <2>2, <3>1, <3>2
      <3>4. Said' \in Seq(Events)
        BY <2>1, SaidType, ConcatProperties DEF ConversationTypeOK, Said
      <3> QED BY <1>t, <2>2, <3>2, <3>3, <3>4, SeqEqual DEF SaidDone
    <2>9. SaidDone' => turn' = "ended" /\ (broken' \/ \A i \in SentenceIds \ silent' : IsSaid(i)')
      BY <2>3, <2>8 DEF SaidInv, IsSaid
    <2>10. turn' = "transcript" => Said' = <<>>
      <3>1. turn = "transcript" => Len(Said) = 0
        BY <1>t DEF SaidInv
      <3> QED BY <1>t, <2>2, <2>3, <3>1
    <2>11. Said' # <<>> => Said'[1].event = "transcript"
      BY <2>5 DEF SaidInv
    <2> QED BY <2>1, <2>3, <2>6, <2>7, <2>9, <2>10, <2>11 DEF SaidInv
  <1> QED BY <1>1, <1>2

\* What a task step does to the channel.
LEMMA SendStep ==
    ASSUME ConversationTypeOK, NEW e \in Events, SendEvent(e), UNCHANGED <<heard, client>>
    PROVE  /\ channel' \in Seq(Events)
           /\ \/ client = "gone" /\ Said' = Said
              \/ client = "listening" /\ Said' = Append(Said, e)
  <1>1. channel \in Seq(Events) /\ heard \in Seq(Events) /\ <<e>> \in Seq(Events) /\ Said \in Seq(Events)
    BY SaidType DEF ConversationTypeOK
  <1>2. CASE client = "gone" /\ UNCHANGED channel
    BY <1>1, <1>2 DEF Said
  <1>3. CASE client = "listening" /\ channel' = Append(channel, e)
    <2>1. channel' \in Seq(Events) /\ channel' = channel \o <<e>>
      BY <1>1, <1>3, AppendProperties, AppendIsConcat
    <2>2. (heard \o channel) \o <<e>> = heard \o (channel \o <<e>>)
      BY <1>1, ConcatAssociative
    <2>3. Append(Said, e) = Said \o <<e>>
      BY <1>1, AppendIsConcat
    <2> QED BY <1>3, <2>1, <2>2, <2>3 DEF Said
  <1> QED BY <1>2, <1>3 DEF SendEvent

LEMMA ConversationStep ==
    ASSUME ConversationInv, [ConversationNext]_conversationVars PROVE ConversationInv'
  <1> USE DEF mishaps, response, speakerTask
  <1>t. ConversationTypeOK /\ StreamKept /\ TaskInv /\ SaidInv
    BY DEF ConversationInv
  <1>p. /\ ThroughWith \in Int /\ speaking.nth \in Nat /\ SentenceCount \in Nat
        /\ turn \in {"speak", "send"} => ThroughWith = speaking.nth - 1
        /\ turn \notin {"speak", "send"} => ThroughWith = speaking.nth
    BY <1>t, SaidType DEF ThroughWith
  <1>q. /\ turn' \in {"speak", "send"} => ThroughWith' = speaking'.nth - 1
        /\ turn' \notin {"speak", "send"} => ThroughWith' = speaking'.nth
    BY DEF ThroughWith
  <1>0. CASE UNCHANGED conversationVars
    <2>1. ConversationTypeOK' /\ TaskInv'
      BY <1>0, <1>t DEF conversationVars, ConversationTypeOK, TaskInv, Spoken
    <2>3. Said' = Said /\ UNCHANGED <<turn, client, split, silent, broken, ThroughWith>>
      BY <1>0 DEF conversationVars, Said, ThroughWith
    <2>4. SaidInv'
      BY <1>t, <2>3 DEF SaidInv, SaidDone, IsSaid, IsAudio, Spoken
    <2>2. StreamKept'
      BY <1>0, <1>t DEF conversationVars, StreamKept, ReadSoFar, Decodes
    <2> QED BY <2>1, <2>2, <2>4 DEF ConversationInv
  <1>1. CASE Hear \/ HangUp
    <2>1. ConversationTypeOK' /\ SaidInv'
      BY <1>1, <1>t, ClientStep
    <2>2. TaskInv'
      BY <1>1, <1>t DEF Hear, HangUp, TaskInv, Spoken
    <2>3. StreamKept'
      BY <1>1, <1>t DEF Hear, HangUp, StreamKept, ReadSoFar, Decodes
    <2> QED BY <2>1, <2>2, <2>3 DEF ConversationInv
  <1>2. CASE TaskStep
    <2>1. /\ StreamKept' /\ TaskInv' /\ turn' \in Turns
          /\ wire' \in Seq(Symbols) /\ buffer' \in Seq(Symbols) /\ speaking' \in Events
          /\ split \subseteq split' /\ split' \subseteq SentenceIds
          /\ silent' \subseteq Nat /\ broken' \in BOOLEAN /\ panicked' \in BOOLEAN
      BY <1>2, <1>t, ConversationTaskStep
    <2>2. ASSUME channel' \in Seq(Events), UNCHANGED <<heard, client>> PROVE ConversationTypeOK'
      BY <1>t, <2>1, <2>2 DEF ConversationTypeOK
    \* The task says nothing.
    <2>3. ASSUME UNCHANGED <<channel, heard, client>>, turn \notin {"transcript", "ended"}, turn' # "transcript",
                 silent \subseteq silent', ThroughWith' \in Int, ThroughWith <= ThroughWith',
                 \A i \in 1..ThroughWith' \ silent' : i \in 1..ThroughWith
          PROVE  ConversationInv'
      <3>1. Said' = Said
        BY <2>3 DEF Said
      <3>2. SaidInv'
        BY <1>t, <2>1, <2>3, <3>1, SaidStays
      <3>3. channel' \in Seq(Events)
        BY <1>t, <2>3 DEF ConversationTypeOK
      <3> QED BY <2>1, <2>2, <2>3, <3>2, <3>3 DEF ConversationInv
    <2>4. CASE ConnectModel \/ (\E n \in 1..Len(wire) : ReadChunk(n)) \/ StreamEnds \/ StreamBreaks
      <3>1. /\ UNCHANGED <<channel, heard, client, speaking, silent>> /\ turn \notin {"speak", "send"}
            /\ turn' \notin {"speak", "send", "transcript"} /\ turn \notin {"transcript", "ended"}
        BY <2>4 DEF ConnectModel, Panics, ReadChunk, StreamEnds, StreamBreaks
      <3>2. ThroughWith' = ThroughWith
        BY <1>p, <1>q, <3>1
      <3> QED BY <1>p, <2>3, <3>1, <3>2
    <2>5. CASE CutEvent
      <3>1. /\ UNCHANGED <<channel, heard, client, silent>> /\ turn = "parse"
            /\ \/ turn' = "read" /\ speaking' = speaking
               \/ turn' = "speak" /\ speaking'.nth = speaking.nth + 1
        BY <1>t, <2>5, CutEventKeeps DEF CutEvent
      <3>2. ThroughWith' = ThroughWith
        BY <1>p, <1>q, <3>1
      <3> QED BY <1>p, <2>3, <3>1, <3>2
    <2>6. CASE Speak
      <3>1. /\ UNCHANGED <<channel, heard, client, speaking>> /\ turn = "speak"
            /\ \/ turn' = "send" /\ UNCHANGED silent
               \/ turn' \in {"parse", "ended"} /\ silent' = silent \cup {speaking.nth}
        BY <2>6 DEF Speak, Panics
      <3>2. /\ ThroughWith' \in Int /\ ThroughWith <= ThroughWith'
            /\ \A i \in 1..ThroughWith' \ silent' : i \in 1..ThroughWith
        BY <1>p, <1>q, <3>1
      <3> QED BY <2>3, <3>1, <3>2
    <2>7. ASSUME NEW e \in Events, SendEvent(e), UNCHANGED <<heard, client, split, silent, broken>>,
                 turn # "ended", turn' # "transcript", ThroughWith' \in Int, ThroughWith <= ThroughWith', ThroughWith' <= ThroughWith + 1,
                 \/ e.event = "transcript" /\ turn = "transcript" /\ ThroughWith = 0 /\ ThroughWith' = 0
                 \/ turn # "transcript" /\ e.event = "audio" /\ e.nth = ThroughWith + 1 /\ ThroughWith' = ThroughWith + 1 /\ Spoken(e)
                 \/ /\ turn # "transcript" /\ e.event = "done" /\ turn' = "ended" /\ ThroughWith' = ThroughWith
                    /\ broken \/ ThroughWith = SentenceCount
          PROVE  ConversationInv'
      <3>1. /\ channel' \in Seq(Events)
            /\ \/ client = "gone" /\ Said' = Said
               \/ client = "listening" /\ Said' = Append(Said, e)
        BY <1>t, <2>7, SendStep
      <3>2. ASSUME client = "gone", Said' = Said PROVE SaidInv'
        <4>1. /\ split \subseteq split' /\ silent \subseteq silent' /\ client' = client /\ ThroughWith' \in Int
              /\ ThroughWith <= ThroughWith' /\ turn # "ended" /\ turn' # "transcript"
          BY <2>7
        <4> QED BY <1>t, <3>2, <4>1, SaidStays
      <3>3. ASSUME client = "listening", Said' = Append(Said, e) PROVE SaidInv'
        <4>1. turn = "transcript" => Said = <<>>
          BY <1>t DEF SaidInv
        <4>2. turn # "transcript" => Said # <<>>
          BY <1>t, <3>3 DEF SaidInv
        <4>3. SaidInv'
          BY <1>t, <2>7, <3>3, <4>1, <4>2, SaidGrows
        <4> QED BY <4>3
      <3> QED BY <2>1, <2>2, <2>7, <3>1, <3>2, <3>3 DEF ConversationInv
    <2>8. CASE SendTranscript
      <3>1. Event("transcript", 0, <<>>) \in Events /\ Event("transcript", 0, <<>>).event = "transcript"
        BY DEF Event, Events
      <3>2. /\ SendEvent(Event("transcript", 0, <<>>)) /\ turn = "transcript" /\ turn' = "connect"
            /\ UNCHANGED <<heard, client, split, silent, broken, speaking>>
        BY <2>8 DEF SendTranscript
      <3>3. ThroughWith = 0 /\ ThroughWith' = 0
        BY <1>p, <1>q, <1>t, <3>2 DEF TaskInv
      <3> QED BY <2>7, <3>1, <3>2, <3>3
    <2>9. CASE SendAudio
      <3>1. /\ SendEvent(speaking) /\ turn = "send" /\ turn' = "parse"
            /\ UNCHANGED <<heard, client, split, silent, broken, speaking>>
        BY <2>9 DEF SendAudio
      <3>2. speaking \in Events /\ speaking.event = "audio" /\ Spoken(speaking)
        BY <1>t, <3>1 DEF TaskInv, ConversationTypeOK
      <3>3. speaking.nth = ThroughWith + 1 /\ ThroughWith' = ThroughWith + 1
        BY <1>p, <1>q, <3>1
      <3>4. ThroughWith' \in Int /\ ThroughWith <= ThroughWith'
        BY <1>p, <3>3
      <3> QED BY <1>p, <2>7, <3>1, <3>2, <3>3, <3>4
    <2>10. CASE SendDone
      <3>1. Event("done", 0, <<>>) \in Events /\ Event("done", 0, <<>>).event = "done"
        BY DEF Event, Events
      <3>2. /\ SendEvent(Event("done", 0, <<>>)) /\ turn = "done" /\ turn' = "ended"
            /\ UNCHANGED <<heard, client, split, silent, broken, speaking>>
        BY <2>10 DEF SendDone
      <3>3. ThroughWith' = ThroughWith /\ (broken \/ ThroughWith = SentenceCount)
        BY <1>p, <1>q, <1>t, <3>2 DEF TaskInv
      <3> QED BY <1>p, <2>7, <3>1, <3>2, <3>3
    <2> QED BY <1>2, <2>4, <2>5, <2>6, <2>8, <2>9, <2>10 DEF TaskStep
  <1> QED BY <1>0, <1>1, <1>2 DEF ConversationNext

LEMMA ConversationStart == ASSUME ConversationInit PROVE ConversationInv
  <1>1. SentenceCount \in Nat
    BY ConversationAssumption
  <1>2. /\ turn = "transcript" /\ wire = <<>> /\ buffer = <<>> /\ channel = <<>> /\ heard = <<>>
        /\ speaking.nth = 0 /\ speaking \in Events /\ client = "listening"
        /\ split = {} /\ silent = {} /\ broken = FALSE /\ panicked = FALSE
    BY DEF ConversationInit, NothingSaid, Event, Events
  <1>3. ConversationTypeOK
    <2>1. /\ <<>> \in Seq(Symbols) /\ <<>> \in Seq(Events) /\ "transcript" \in Turns
          /\ split \subseteq SentenceIds /\ silent \subseteq Nat /\ broken \in BOOLEAN /\ panicked \in BOOLEAN
      BY <1>2, EmptySeq DEF Turns
    <2> QED BY <1>2, <2>1 DEF ConversationTypeOK
  <1>4. Said = <<>> /\ Len(Said) = 0 /\ ThroughWith = 0
    BY <1>2 DEF Said, ThroughWith
  <1>5. StreamKept /\ TaskInv
    BY <1>2 DEF StreamKept, TaskInv
  <1>6. 2..0 = {} /\ 1..0 = {}
    OBVIOUS
  <1>7. SaidInv
    BY <1>2, <1>4, <1>6 DEF SaidInv, SaidDone
  <1> QED BY <1>3, <1>5, <1>7 DEF ConversationInv

\* The task, its stream and the events have their types.
THEOREM ConversationTypeCorrect == ConversationSpec => []ConversationTypeOK
  <1>1. ConversationInv => ConversationTypeOK
    BY DEF ConversationInv
  <1> QED BY <1>1, ConversationStart, ConversationStep, PTL DEF ConversationSpec

\* However the answer of the model is cut into chunks, a client is told the
\* transcript, then the sentences in their order, each once and as written
\* unless a chunk ended within one of its characters, then "done", and with
\* "done" it has all that could be spoken, unless the stream broke off.
THEOREM StreamsFaithful == ConversationSpec => []StreamFaithful
  <1>1. ConversationInv => StreamFaithful
    BY DEF ConversationInv, SaidInv, SaidDone, IsSaid, Spoken, StreamFaithful
  <1> QED BY <1>1, ConversationStart, ConversationStep, PTL DEF ConversationSpec
=============================================================================
