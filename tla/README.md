# A TLA+ model of sonotxt

sonotxt turns text into speech. An API server (`sonotxt-api`) takes requests,
charges for them, queues them in PostgreSQL and works through the queue with
remote synthesis workers (`sonotxt-worker`); `sonotxt-core` holds what both
share, the encrypted transport and the object storage client among it. This
directory models the parts of it that keep state across concurrent steps, checks
them with TLC on small instances and proves the most important results with
TLAPS for all instances.

Run everything from this directory: `tlasany M.tla`, `tlc -config X.cfg M`,
`tlapm M.tla`. `PROJECT.json` lists the runs with their configurations, maps every
definition to the lines it models, and lists hazards, findings and theorems.

## 1. The system

All paths are under `src/`; `api` stands for `sonotxt-api/src`, `core` for
`sonotxt-core/src`, `worker` for `sonotxt-worker/src`.

| component | state it keeps | operations | who it talks to |
|---|---|---|---|
| job queue and job worker (`api/job_worker.rs`) | table `jobs`, audio objects, one loop per API process with the job in hand | submit, recover zombies, claim, synthesize, upload, complete, mark failed | route handlers insert rows; worker pool; object storage |
| deposit pipeline (`api/routes/payments.rs`, `api/services/payments`) | table `deposits`, `account_credits.balance`, `users.txt_balance` | webhook, listener callbacks, user-recorded deposits, credit, sweep | Stripe, Asset Hub and Penumbra listeners, billing |
| payment secrets (`api/routes/admin.rs`, `payments.rs`) | two sealed secrets behind a lock | seal, checkout, webhook | Stripe |
| deposit addresses (`assethub.rs`, `penumbra.rs`) | table of derived addresses, watched set | get, rotate, load | deposit pipeline |
| zcash scanner (`api/services/payments/zcash.rs`) | `seen_txids` in memory, credits, `transactions` | scan | the wallet's node, accounts of ZIDs |
| TXT billing (`api/services/billing.rs`, `api/routes/billing.rs`) | `users.txt_balance` | check and charge, credit, withdraw | request handlers, SONO service |
| free tier (`api/auth/free_tier.rs`) | table `free_tier_usage` | what is left, check with daily reset, consume | request handlers |
| SONO payment channels (`api/services/sono.rs`) | in-memory channel table, last block seen, TXT price | remaining, charge, sign, settle, listen, oracle, faucet | contract on chain, billing |
| worker pool (`api/services/worker_pool.rs`) | per worker: healthy, in flight, totals | pick, call, retry, hedge, health check | job worker, workers |
| encrypted worker transport (`core/noise.rs`, `api/services/quic_pool.rs`, `worker/quic.rs`) | a table of sessions at the worker, two nonce counters per connection and end | dial, attest, shake hands, encrypt, decrypt, notify, forget | worker pool, workers |
| object storage client (`core/storage.rs`) | bucket and its policy, files, pinning orders | ensure the bucket, upload, pin | job worker, vault; S3, IPFS, Crust |
| vault (`api/routes/vault.rs`) | item rows, objects, quota | upload, delete, publish | object storage, balances |
| sites and content (`api/routes/sites.rs`, `crawler.rs`) | `content`, `content_versions` | crawl, edit | jobs |
| embeds (`api/routes/embed.rs`) | daily counter in redis, totals of a domain | count, state, queue | jobs |
| contacts (`api/routes/contacts.rs`) | table `contacts` | invite, accept, reject, block, remove | |
| calls (`api/routes/p2p.rs`) | in-memory table of sessions, a broadcast channel each | create, join, relay, leave, clean up | sockets of the two peers |
| status websocket (`api/routes/ws.rs`) | the socket | connect, poll, tell | table `jobs` |
| conversation (`api/routes/converse.rs`) | a task, a bounded channel, the response | read, cut, speak, send, hear | language model and speech through the pool |
| login (`magic_link.rs`, `user_auth.rs`, `auth.rs`) | tokens, challenges, users, accounts, sessions, redis counters | request, verify, log out, limit | every handler |
| passkeys (`api/routes/passkey.rs`, `services/passkey.rs`) | ceremonies in redis, credentials | start and finish of registration and login | users, sessions |
| API keys and ZIDs (`api/auth/`) | `api_keys`, `accounts`, redis cache | look up, create, revoke | every handler |
| the rest | see the components of `PROJECT.json` | formatting, proxies, keys, types | |

How they interact: a request handler authenticates its caller, charges the TXT
balance or the daily allowance (billing), and inserts a job row; the worker loop
of any API process claims it, calls a worker through the pool, and stores the
result, which a client waits for on a socket. Money comes in through the deposit
pipeline and leaves through charges and withdrawals. Everything shared between
processes is in PostgreSQL or redis, where one statement, one command or one
transaction is atomic; almost every handler is a sequence of such steps with
nothing around it.

What is hard about it, and what the properties are for:

- **handlers end anywhere.** `api/lib.rs:85-87` puts a timeout on every request,
  a client may leave, a process may die: the handler's future is dropped at any
  `await`. Whatever was committed before stays, whatever was to follow never
  happens. Every model has a `Drop` or `Crash` at every step.
- **check, then act, in two statements.** Duplicate checks, balances, allowances,
  quotas, limits, tokens and ceremonies are all read first and written later; what
  saves the result, where something does, is a UNIQUE column or a condition in the
  UPDATE.
- **two stores, one after the other.** A row and its object, a text and its version,
  a counter in redis and a total in a table, two balances: every order has a state
  in the middle, and some handlers take the two orders.
- **several API processes share the tables**, and recovery acts on rows that
  belong to other, live processes.
- **deliveries repeat**, and an early success answer ends the repetition.
- **outside effects come before their outcome is known** (transfers, uploads,
  synthesis).
- **counters, tables and ciphers kept in memory** lose step with the other side
  when a task is dropped or a process restarts.
- **tasks joined by shared cells** (the slot of a session at the worker, the map of
  calls, a bounded channel) are interleaved by the scheduler as it likes.

## 2. The modules

| component | detailed module | abstract | proofs | TLC instance |
|---|---|---|---|---|
| job queue and job worker | `JobQueue` | `JobLifecycle` | `JobQueueProofs` | `MCJobQueue` |
| deposit pipeline | `Deposits` | `PaymentLedger` | `DepositsProofs` | `MCDeposits` |
| TXT billing, free tier | `Billing` | `TxtAccounts` | `BillingProofs` | `MCBilling` |
| worker pool | `WorkerPool` | | `WorkerPoolProofs` | `MCWorkerPool` |
| encrypted session | `NoiseSession` | | `NoiseSessionProofs` | `MCNoiseSession`, `MCStreams` |
| SONO payment channels | `SonoChannels` | | `SonoChannelsProofs` | `MCSonoChannels` |
| deposit addresses | `DepositAddresses` | | `DepositsProofs` | `MCEndpoints` |
| login, logout | `Logins`, `Sessions` | | `EndpointsProofs` | `MCEndpoints` |
| API keys, ZIDs | `RequestAuth` | | `EndpointsProofs` | `MCEndpoints` |
| passkeys | `Passkeys` | | `EndpointsProofs` | `MCEndpoints` |
| vault | `Vault` | | `EndpointsProofs` | `MCEndpoints` |
| sites, embeds | `Contents`, `Embeds` | | `EndpointsProofs` | `MCEndpoints` |
| contacts, calls | `Contacts`, `Calls` | | `EndpointsProofs` | `MCEndpoints` |
| price oracle | `PriceOracle` | | `EndpointsProofs` | `MCEndpoints` |
| charge over balance and channel | `SplitCharge` | | `EndpointsProofs` | `MCEndpoints` |
| payment secrets, zcash scanner | `PaymentSecrets`, `ZcashScanner` | | `EndpointsProofs` | `MCEndpoints` |
| status websocket | `JobWatch` | over `JobLifecycle` | `EndpointsProofs` | `MCEndpoints` |
| conversation | `Conversation` | | `EndpointsProofs` | `MCStreams` |
| attestation and handshake | `Handshake` | | `EndpointsProofs` | `MCStreams` |
| object storage client | `ObjectStore` | | `EndpointsProofs` | `MCEndpoints` |

`SumProofs` has no component of its own: it holds the lemmas about sums over finite
sets that the proofs of the other modules cite.

`JobLifecycle` joins two components: `JobQueue` is shown to implement it, and
`JobWatch` composes it with the sockets that read the table, so that what a client
is told rests on the abstract life of a job alone.

Conventions. One action is one database statement or one committed transaction,
one redis command, one load or store of an atomic, or the return of one awaited
call; what happens between two awaits is local and part of the step before. A
handler's place is `pc`, what it keeps across awaits is `local`. A failed statement
and a dropped task count against `MaxFaults` where the graph would be infinite
without. History variables (`raced`, `stirred`, `crowded`, `missed`, `leaked`,
`disturbed`, `wasted`, `torn`, `crossed`, `skewed`, ...) are read by no guard: they
say what happened, so that a property can say "unless". A definition with a suffix
(`Take_Unchecked`) is a mutant: a plausible bug put in place of the definition
after it, to see that a property notices. Ids that a model draws in turn (`Tokens`,
`Pages`, `Sessions`, `Ceremonies`) are numbers taken in order of creation, since
only their difference matters.

### JobQueue

`status`, `prio`, `source`, `created` are the columns of `jobs` the worker reads;
`audio` is the bucket; `pc` and `cur` are each process's loop (`Procs`), `now` the
database clock. `Submit` stands for the INSERTs of the handlers (`Submissions`: the
priorities 50, 10 and 0 of text to speech, those of embeds, and those of sites over
stored content). `RecoverZombies` is the UPDATE at start-up, `Claim...` the
UPDATE ... FOR UPDATE SKIP LOCKED by priority and age, split by what the claimed
row holds; `TtsDone`, `UploadDone`, `SaveCompleted` and their failures follow
`process_next`. `ClaimUndecodable` is a row over stored content: `JobRow` reads the
UUID column as `i64`, so the claim commits and its row is lost. `stream` is the
highest priority among the queued jobs that are none of `Jobs`: a claim takes one of
`Jobs` only if `stream` does not outrank it, and `OthersSubmit` and the claims of
others change it at will, so that two jobs of the model wait in a queue of any
length. `Hang` is an upload that never returns: the HTTP client of the storage service
has no timeout (`core/storage.rs:71`), and the loop with it, be the job one of `Jobs`
or another, stands still until somebody restarts the process.

Properties: two processes hold the same job only when it is old enough to have been
taken away (`YoungJobsRunOnce`); the worker does not lose a text job unless a fault
occurs (`UnattendedOnlyAfterFault`); a queued text job settles, unless a fault left it
unattended, its upload hangs, every loop is down or hangs, or more important jobs
keep coming in ahead of it (`TextJobSettles`: each of the four happens);
the table implements `JobLifecycle` (`ImplementsLifecycle`), in which completion
comes with the audio, a young job has one attempt at a time, and its verdict
stands, although the final UPDATEs are unconditional. An old job may be queued
again, and where several processes share the table (`Shared`) its former attempt
may come in late, on top of anything.

### Deposits

A `Handler` is one delivery being processed in the process `Home[h]`. `row` is
`deposits.status` by transaction hash; `usd` and `txt` count how often a payment was
added to `account_credits` and to `users.txt_balance`; the UPDATE of
`account_credits` adds nothing for an account without a row there and is no error,
so `HasCredits` says which payments it adds, and the row reads "credited" all the
same; `swept`, `owed` follow the
sweep; `acked` is what the sender knows. The three kinds of payment take their own
path: a checkout holds the process-wide lock of the webhook and is credited twice
(TXT, then credits), a Penumbra note is looked up first, an Asset Hub transfer is
swept after the credit. A user may report any hash as one on Penumbra (`Record`), that
of a checkout or a transfer too.

Properties: what was added has a row that says "credited", such a row means that the
amount was added wherever there was a row to add it to, and sweeps happen once and
after that status (`FundsFollowCredit`, of `CreditedRowIsPaidUp` and
`SweptOnceAfterCredit`); no stranding without a fault (`StrandedOnlyAfterFault`); both
balances implement `PaymentLedger`, which adds a payment at most once
(`ImplementsLedgers`); a checkout that was made, and any other payment whose delivery
was begun, is added, but for the exceptions the property names: no credits row, no
known receiver or user, a hash that a user recorded first, a row left by a dropped
handler, a delivery of a listener dropped before its row (`ArrivedIsCredited`).

### Billing

Each request of `Requests` is made once and runs one route: `process`, `tts`,
`anonymous` (the free-tier branch of /tts) or `withdraw`. `balance` is
`users.txt_balance`; `used` and `reset` are the row of `free_tier_usage`; `day` is
CURRENT_DATE; `job` is the job row a request leaves (`is_free_tier` tells paid from
free); `sent` are the transfers that reached the chain. `FreeBalance` is the question
of a visitor for what is left: it creates the row or starts its day. `granted`,
`charged` and `raced` are history: what came in, which prices are taken and not given
back, and which payers had two requests between check and consumption. `Unpaid` is
the difference between the two handlers: /process passes an error of
`check_and_charge` on, /tts takes every error for an empty balance.

Properties: paid jobs are charged in full, and TXT is taken for something unless a
fault occurs (`ChargeMatchesJob`); holdings and spendings never exceed what was
credited (`BooksBalance`, a sum over requests); the daily limit is exceeded only by
racing requests, and a used up allowance stays so for the day (`DailyAllowance`);
the handlers implement `TxtAccounts`, in which nothing is overdrawn
(`ImplementsAccounts`).

### SplitCharge

The branch of `check_and_charge` for a user with a wallet, which no handler reaches
at this commit: balance and channel pay together. The balance is read, and set to 0
two awaits later; the channel is asked, and charged later. `taken` is what the
statements removed, `earned` the costs of charges answered Ok. `TakenIsEarned`: the
two differ by what is under way, unless a balance was overwritten that was not the
one read, or a charge failed half way.

### WorkerPool

`healthy` and `inflight` are the atomics of each `Worker`; they are read one at a
time, with `Relaxed`, while other calls write them, so each load in `pick_from` is
a step: `ReadHealthy` (the filter), `ReadLoad` (the fold of the minimum) and
`CompareLoad` (the second load of every counter). `Given` is the return of `pick`,
`Dispatch` the `fetch_add` before `send().await`, `Answered` and `Refused` its end
with the `fetch_sub`, `BodyRead` and `BodyFails` the body. `AttemptFails` is
`with_retry` (tts only, once), `QuicFails` the fallback of asr to HTTP on the same
worker, `Timeout` the `tokio::time::timeout` around a call and `Drop` the end of a
request handler; both leave the counter up when they hit `send`, which `leaked`
counts. Two over-approximations: the round robin between equally loaded workers is
an arbitrary choice, and a health check stores any verdict at any time.

Properties: a counter is the number of requests being sent plus what was left
behind, and a choice during which no counter changed returns a worker with the
lowest load and does not panic (`LoadBalanced`); calls end (`BegunCallEnds`).

### Handshake and NoiseSession

`Handshake`: a start of an API process dials each worker once. `dial` is the
statement of `connect`, `streamTask` the task the worker runs for its stream,
`serving` the worker's task of the connection, `slot` the cell that joins the two,
`noiseTable` the sessions in `NoiseServer`. The stream's task inserts the session,
releases the table, and fills the slot; the connection's task empties the slot and
removes the session when the connection ends. `RestartWorker` gives a new static
key and an empty table. `SessionPaired`: a stored connection that is up has its
session at the worker under the attested key, and an ended one leaves none behind
unless it ended within its handshake.

`NoiseSession`: the session after that. `sent`, `expected`, `replied` and `awaited`
are the four nonce counters of the two `NoiseSession`s, `nonce` and `reply` where the
message and the reply of a request begin; a message of `Chunks[r]` chunks takes as
many nonces. `Encrypt` runs under the lock of the connection, `Write` on a stream of
its own later; the worker takes streams up in any order (`Understand`, `Refuse`,
`Ignore`), answers under its own lock (`Answer`), and the API decrypts (`TakeReply`,
`RefuseReply`). `Ignore` is a job notification, for which the worker has no arm.
`Drop` is a timeout or a dropped handler, at any place, `Disconnect` the end of the
connection, after which nothing connects again.

Properties: messages and replies are understood in the order of encryption, with
no gap (`InOrder`); a request fails on an open connection only with a cause, a
notification, a dropped request, or two in hand at once (`FailureHasCause`); requests
end (`EncryptedEnds`).

### SonoChannels and PriceOracle

`chain` is the contract as the sequence of its states, one per block; what the
contract reports of a block is how it differs from the one before (`Opened`,
`ToppedUp`, `Settled`). `tracked`, `deposit` and `spent` are the map of
`ChannelState`s; `place`, `todo`, `found`, `last` and `upTo` are `start_listener`,
`sync_channels` and `poll_events`. The sync has two steps for each log: `LookUp` asks
the contract (the amount it gives as spent is any up to the deposit, since the
contract is external), and `SyncChannel` writes the answer later, behind the lock, when
the chain may have gone on. The three queries of a poll are the actions `PassOpened`,
`PassTopped` and `PassSettled`, each applying its events in the order of the logs.
`Settle`, `Receipt`, `Forget` are `settle`, which keeps the read lock of the map from
the look-up until the receipt: `LockFree` is in the guard of everything that takes
the write lock. `since` and `missed` are history.

The model over-approximates the chain (a transaction is mined or not at any time)
and simplifies two things: one close per user is under way at a time, and a pass
applies the events of its query in one step, since it awaits nothing but the lock.
`charge` is modelled as it stands in `sono.rs`; at this commit no handler hands
`check_and_charge` a wallet address (`api/auth/api_key.rs:68`, `:105` and
`api/auth/free_tier.rs:105`, `:139` pass `None`), so in the built program the tallies
stay at 0.

Properties: a listener that is caught up has exactly the open channels, with their
deposits, except for users it lost sight of in one of the listed ways, and a close
that is waited for settles what was charged (`TableIsRight`); a tally goes back only
for a new opening, unless a call failed or the first poll is still to come
(`TallyKept`); an opened channel is found or closed (`OpenedIsTracked`).

`PriceOracle`: each process fetches a price, sets it in the contract if it is a
hundredth or more off, and quotes it. `QuoteIsContract`: what a process quotes
differs from the contract by less than a hundredth (small changes do not add up),
unless its transaction failed or another process has set the contract since.

### DepositAddresses

The table `payment_addresses` of one chain: `stored` are the derivation indices of an
account's rows, `active` those with `is_active`; an address is its index. Asset Hub
and Penumbra run the same statements. A handler is one call: `BeginGet` is a
`get_deposit_address` that finds no active row (one that finds a row changes
nothing) and goes on with index 0, `BeginRotate` the count of `rotate_address`;
`ReadMax`, `Deactivate` and `Insert` are its next three statements and `Describe` the
SELECT with which the route answers. `InsertTaken` is the UNIQUE column. `Load` is
the start of a listener, which is told of no address after that, and `Stop` its end,
which nothing repairs. `disturbed` and `loaded` are history: accounts with a rotation
that overlapped another call or was dropped before its INSERT, and the rows there
were when the listener started.

`AddressServed`: at most one address of an account is active whatever overlaps and
fails, and for undisturbed accounts it is the newest and the one the rotation
answers with; and a running listener misses no active address that was there when it
started. That the limit is exceeded only by overlapping calls, by one address for
each, is proved (`LimitKept`). What the code does not give: an account whose
rotation ended between UPDATE and INSERT has no active address, every get then
derives index 0 and fails at the UNIQUE column, until the next rotation, and an
address given out while the listener runs is not watched before its restart.

### Requests

The handlers of the endpoints below share one machinery: `pc`, `local` and
`faults` with `Begin`, `Keep`, `Goto`, `End` and `Dropped`. A component's module
extends it and adds its tables.

### Logins, Sessions, Passkeys, RequestAuth

`Logins` is one identity that signs in in one of five ways (`kind`): by nickname,
public key, wallet, mail link, or mail link of an account. `token` is the life of a
challenge or link, `attempts`, `expiring` and `locked` the redis keys of the limiter
(INCR and EXPIRE are two commands; `WindowEnds` and `LockoutEnds` are redis dropping a
key), `opened` the sessions of a token. Look-up (`Find`) and use (`Spend`) of a token
are two statements, user, credits and session follow in their own. Two properties:
`SignInWhole`, that a token opens one session unless two attempts held it at once,
that a spent one has opened a session or belongs to an attempt that is about to or
ended in between, and that a new account has its credits row, with the same
exceptions; and `Readmitted`, that whoever is locked out is admitted again, unless an
EXPIRE was lost.

`Sessions` is a token after its login: `rowOf` is its row, `remembered` the cache
entry `apikey:<token>` that both extractors read first, and a logout removes the row.
`LoggedOutIsRefused`: no request that comes after an answered logout is accepted,
although the cache has entries for API keys only. The digests are explicit
(`Digest`), since one extractor uses another prefix than the logins (section 5).

`Passkeys`: a ceremony is kept in redis under the mail address, fetched and deleted
in two commands, and the credential's counter is compared and written in two
statements. `CeremonyCounts`: a ceremony opens one session unless two requests
fetched it together, and the stored counter is the newest a session was opened with
unless one was written over another than read.

`RequestAuth`: a key in the table and in the cache with its time to live, and the
account of a ZID, made by its first request in two INSERTs. `IdentityHolds`: a revoked
key is accepted for one lifetime of an entry and one of a request (a row read before
the revocation may be cached after it), and credits belong to the one stored account
of the ZID.

### Vault, Contents, Embeds, ObjectStore

`Vault`: rows, objects and balance of one account. `ListedIsStored`: an item of the
list has its object unless a delete is between the stores or ended there.
`OverrunByOverlap`: quota and balance are overrun by overlapping requests only, by
one file or price for each further one.

`Contents`: the rows of one site and their versions; a crawl changes and then
records, an edit records and then changes. `ContentHistory`: the text of a row is one
of its versions and the newest one, unless two changes crossed or one was dropped.

`Embeds`: counter of a day, totals, and jobs of a domain. `EmbedCounted`: what is
queued for a day is counted for that day, also by a request that midnight passes, and
the limit is exceeded by one text for each further request and each failed GET.

`ObjectStore`: the start that finds or makes the bucket and lets everybody read it
in a second call, and the uploads to it or to IPFS with a pinning order.
`UploadsReadable`: what a caller is told of an upload is so, unless the start that
made the bucket was cut short, which no later start makes good.

### Contacts, Calls

`Contacts`: the rows of two users; the table is not among the migrations and is
modelled without constraints. `RowPerInvite`: a pair has one row and one more for
each concurrent invitation. That a blocked row stays blocked is proved
(`BlocksHold`).

`Calls`: the map of sessions by code, a task for each socket, clean-up after two
hours, lag. `CallTally`: a session counts its sockets, which read and write one
channel, unless the code was given out a second time while sockets of the first
session remained.

### PaymentSecrets, ZcashScanner, JobWatch, Conversation

`PaymentSecrets`: an administrator stores two secrets while checkouts and webhooks
hold the write lock over their awaits. `WebhookVerifies`: a webhook is refused only
if secrets were sealed after its checkout was answered, or came one without the
other.

`ZcashScanner`: the scan loop, statement by statement, beside a request that makes
the same account. What it has seen is in memory, and the record comes after the
credit. `CreditedPerStart`: a payment is credited at most once per start and failed
record, and what is marked as seen was credited if there was a row to credit. No
binary constructs the scanner at this commit.

`JobWatch`: sockets that ask for a row twice a second. `ToldIsFinal`: a terminal
answer stays true, unless the query failed, or the job is an old one of a shared
table.

`Conversation`: the model's answer arrives in chunks of any size, which cut events
and two-byte characters anywhere; `buffer` is the decoded rest (a cut character
becomes two replacement characters, as `from_utf8_lossy` does), `channel` the bounded
queue, `heard` the response. `ConversationServed`: the transcript comes first, each
sentence once and in order, as the model wrote it unless a chunk ended within a
character, "done" last and with nothing missing that could be spoken; and the response
ends for a client that keeps listening: with "done", or, if the task panicked, with
the last event it had sent. The panic is that of `pick_from` (finding `pool_panic`),
which the task meets in `llm_stream` and `tts`; here it may come with every call of the
pool (`Panics`).

## 3. The runs

| run | bounds | shows |
|---|---|---|
| `jobs_duo` | 2 processes, 2 jobs, each paid, free or over stored content, others that come and go, clock 0..2 with a zombie age of 1, 2 faults, fair | the safety properties with a restart or a second process in the middle of a job, when text jobs settle, and the refinement of `JobLifecycle` |
| `jobs_content` | 1 process, 1 content job, no fault | finding |
| `deposits` | five scenes. Two checkouts, one by an account without a users row; a checkout and a transfer: 3 handlers, two of them in one process, 2 faults. A checkout and a note; a note and a stray note; two transfers, one to an account without a credits row: 2 handlers in 2 processes, 1 fault, each payment also reported by hand. Fair | the safety properties, the lock of the webhook included, the refinement of `PaymentLedger` by both balances, and that payments are credited |
| `deposits_crash` | one checkout, 1 fault | finding |
| `billing` | a /process request, two /tts requests and a withdrawal of one account, an anonymous request; up to 3 TXT credited in ones and twos; 2 dates; 1 fault | the money and allowance properties and the refinement of `TxtAccounts` |
| `pool` | 2 workers, one with QUIC; a call of a handler (tts, asr or llm) and one of a task (tts or llm_stream); fair | the worker pool |
| `pool_panic` | 1 worker, the same calls | finding |
| `streams` | one of three parts: two recordings, of 2 chunks and with a reply of 2 chunks, and a notification, fair; 2 connections that shake hands, 2 restarts of the worker, 2 breaks; a conversation of 4 sentences with a channel for 2 events, fair | the encrypted session, the handshake before it, the conversation |
| `noise_notify` | one recording and a notification | finding |
| `sono` | 1 user, deposits up to 2, 5 blocks, the sync going back 2 blocks and the first poll 1, 1 fault; fair | the payment channels |
| `endpoints` | sixteen parts, below | every property of the modules over `Requests`, and of the components with tasks of their own |
| `sessions` | 1 token, 2 requests, 1 fault | finding |

`endpoints` runs the parts of `MCEndpoints` one at a time: `Init` chooses a part, and
the variables of the others stand still, as in `streams`. They share the request machinery and keep
tables of their own; no property is about two of them, so that a product would only
multiply the states (about 770 000 as it is). Its bounds, by part (2 handlers and 1 fault unless said
otherwise):

| part | bounds |
|---|---|
| logins | each of the 5 kinds; 2 tokens, 2 attempts until a lockout, 1 link an hour, 1 challenge; the limiter of logins is kept; fair |
| auth | one key and one ZID; a cache entry lives for 2 ticks, a request for 1 |
| sessions | one API key, one session token |
| passkeys | 2 ceremonies, with and without a credential at first |
| vault | 3 items of size 1, a quota of 1, 1 credit |
| contents | 2 rows, 2 texts |
| embeds | texts of 1 and 2 characters, a limit of 2, 2 days |
| contacts | 2 users, 3 rows |
| calls | 2 codes, 3 sockets, 2 sessions |
| prices | 2 processes, prices 0, 200, 201 and 202, 1 failed call |
| split | costs of 2 and 3, 4 in the balance, 4 in the channel, 1 credit or change of the channel |
| addresses | 1 account, 3 concurrent calls, a limit of 2, 1 drop |
| zcash | 3 payments in 2 transactions, 2 starts, 1 failure |
| watch | 2 jobs of a shared table, 1 socket, 1 failed query |
| store | 1 file, with and without S3 and a Crust token |
| secrets | 3 calls that seal |

Why the bounds are enough:

- Every hazard listed needs at most two actors and one fault to bite: two claims,
  two deliveries, two checks, two messages, two tasks, with one drop in between. The
  third handler of `deposits` gives two in one process beside one outside.
- A clock of 0..2 with a zombie age of 1 has a job young and aged, and a job
  submitted meanwhile young beside it. Priorities 50 and 0 against a stream of 0, 10
  or 50 have a job behind, level with and ahead of the others.
- Prices of 1 and 2 against credits of 1 and 2 give exact, insufficient and left
  over balances; limits of 3 and 2 against requests of 2 let one request fit and
  not two. Two dates show a reset between check and consumption.
- Three files of size 1 against a quota of 1 let two overlapping uploads exceed it by
  one file and leave a third that must be refused; likewise the prices and 1 credit.
- Two workers are the least with a choice, and two calls the least with a race.
  `pool_panic` has one worker because it needs no more.
- Messages and replies of one and two chunks in both roles let a cursor stand in
  front of, behind and inside a message.
- Five blocks let a channel be opened, topped up, closed and opened again, with
  blocks before the window of the sync (2), and between it and the window of the
  first poll (1). In the code the windows are 1000 and 100 blocks; what matters is
  that the second is shorter. Users do not interact except through the lock and the
  position of the listener, so one user shows what the listener does; that the
  results hold for any number is proved.
- Two rotations that overlap and a third call that finds what they left need three
  calls; a limit of 2 lets three rotations pass the count together and end two over
  it. Accounts share only the listener.
- The limiter keys of a purpose are only used by requests of that purpose, so one
  purpose shows what becomes of a counter; that a counter has a time to live unless
  its EXPIRE is about to come or was lost is proved for all three (`CountersExpire`).
- Two tokens are one that is spent and one that is asked for meanwhile. Two
  ceremonies are one and the one that replaces it, two sessions of calls one and
  the one that reuses its code.
- Prices 200, 201 and 202 are less than a hundredth apart one by one, and a
  hundredth apart at the ends: what small changes would add up to.
- An entry of two ticks and a request of one let an entry be written after the
  revocation from a row read before it, and live on after the request.
- A channel of 2 against 6 events makes the task wait, and a sentence of four bytes
  is cut at every place, within its character and within the empty line too.
- 3 shielded payments in 2 transactions are two in one transaction, of which the
  second is met by the mark of the first, and one of another.
- Faults are bounded only to keep the graph finite; two allow a fault during the
  recovery from the first.

Deadlock is not checked: in every instance all requests can be through.

## 4. Fairness

- `JobQueue!FairSpec`: weak fairness of each running loop (`Work`). The awaits on the
  pool return, since its calls have timeouts. That a statement returns is an assumption:
  the database answers or the connection breaks. An upload need not return (`Hang`),
  since the client of the storage service has no timeout; a loop that hangs is not at
  `Work`. Starting a process is not fair: nobody has to restart it.
- `MCDeposits!SceneSpec` (`Deposits!FairSpec` within a scene): weak fairness of each
  handler at work and strong fairness of Stripe's redelivery of a checkout until an Ok
  is seen. The first is the async runtime; the second is what Stripe documents: it is
  an assumption about code outside of `src/`. Nothing is assumed of the listeners of the
  chains, which are not started again after an error (`api/main.rs:103`): they may never
  report a payment, or not again.
  Strong fairness is needed because handlers are busy with other payments again and
  again.
- `WorkerPool!FairSpec`: weak fairness of each call that has begun. Every await in
  it is bounded, by its own timeout or by that of the HTTP client
  (`api/main.rs:38-42`). Making a call, the end of a handler and the health loop are
  not fair.
- `NoiseSession!Fairness`: weak fairness of the caller's and of the worker's task
  of each request; speech recognition on the worker ends with its timeout of 30 s.
  Encrypting a request, dropping one and losing the connection are not fair.
- `SonoChannels!FairSpec`: weak fairness of the listener, a task of its own whose
  queries return, and of the end of each wait for a transaction, which comes at the
  latest with the timeout of the request (`api/lib.rs:85-87`); without the second
  a listener that waits for the lock would wait for good. Blocks, charges, closes
  and the start of a process are not fair.
- `Logins!LoginFairness`: weak fairness of a step of each request that has begun,
  since its statements return, and of the end of a window and of a lockout, which is
  redis dropping a key whose time to live is set. Making a request, mail, the
  life of a token and faults are not fair.
- `Conversation!ConversationFairness`: weak fairness of the task, whose calls to the
  model and to speech have timeouts, and of the client's reading while it listens.
  A client may leave at any time.

## 5. Findings

Each of these is a run that violates a statement quoted from the repository; see
`PROJECT.json` for the lines.

- `jobs_content`: a job over stored content never settles: the id is a UUID in the
  table and an `i64` in `JobRow`, so the claimed row is lost after the commit.
- `deposits_crash`: a deposit whose handler ends between INSERT and credit is never
  credited; the redelivery is answered as a duplicate.
- `pool_panic`: `pick_from` loads every counter twice; when the least loaded worker
  gets another request in between, the second pass finds no worker and the
  remainder by zero panics, in the job worker for good.
- `noise_notify`: the API encrypts a job notification, the worker does not decrypt
  it; from the first notification on every recording is refused and goes over HTTP.
- `sessions`: `TtsUser` looks for a session under the hash of a prefix and the token,
  while every login stores the hash of the token alone; the request of a signed-in
  user is served as one of the free tier.

The modules state more such sentences of the repository, which TLC refutes when
they are added to a configuration of their module, and which no run repeats:
`JobQueue!StartupRecoversZombies` (a younger zombie waits for a later restart),
`JobQueue!PositionIsPlaceInQueue` (the position shown ignores priorities),
`Deposits!RecordedIsCredited` (a note its user recorded is not credited),
`Deposits!FailedSweepIsRetried`, `Deposits!ConfirmedIsCredited` on a checkout by an
account without a users row (without any fault), `Billing!DailyLimitHolds`
(concurrent requests exceed it), `Billing!WithdrawnOrKept` (a transfer whose reply
is lost is both sent and given back) and `Billing!ChargedRequestHasJob` (the job row
is inserted in a later statement than the charge).

One more disagreement has no definition of its own: `services/payments/mod.rs:11` says
"credit account after confirmed deposit", but for an account without a row in
`account_credits` the UPDATE adds nothing, the deposit is marked "credited" and its funds
are swept. The payment `vain` of `MCDeposits` does so in the run `deposits`; it is why
`FundsFollowCredit` and `ArrivedIsCredited` speak of `HasCredits`.

## 6. What is proved

All theorems hold for any constants that satisfy the named assumptions of the
component modules (`JobQueueAssumption`, `DepositsAssumption`, ...), which type the
constants and say no more than the code does.

- `JobQueueProofs`: types; `CompletedHasAudio`; `YoungJobsRunOnce`;
  `UnattendedOnlyAfterFault`; refinement of `JobLifecycle` for any number of
  processes. The inductive invariant adds that a loop holds a job exactly in the
  holding places, that a process saving a job has stored its audio, and that a
  young job's holder is unique with the row in "processing"; the last is what makes
  the unconditional UPDATEs harmless for young jobs. For a single process
  (`Solo`) whatever is held is in "processing" at any age, since only the process
  itself could requeue it. Either way a held job is one that the lifecycle has
  under way (`HeldIsUnderWay`). A loop that hangs holds its job in a place of its own,
  from which it writes nothing more, so neither needs to say anything of it.
- `DepositsProofs`: types; `CreditedOnce`; `FundsFollowCredit`;
  `StrandedOnlyAfterFault`; both refinements. The inductive invariant (`IInv`) says
  that the handler whose INSERT succeeded is the only one on the way to the credit
  while its row says "confirmed" (`OneCreditor`), and what each status says about both
  balances (`RowTellsBalance`; of `account_credits` only where there is a row). Without `OneCreditor` two handlers past the check
  could both credit.
- `SumProofs`: what the library's `SumFunctionOnSet` computes. It is a recursive
  function that takes the elements in the order `CHOOSE` gives. That the recursion
  has one solution (`OneSolution`) comes from a minimal counterexample: among the
  subsets of a finite set for which it fails there is one that contains no other of
  them, since cardinalities are naturals and those are well-founded. In the same way
  a sum is found not to depend on the order, and what the components need follows:
  adding, removing or changing one element changes the sum by that much, a larger
  set has a larger sum, and a sum of terms below a bound is below as many bounds.
- `BillingProofs`: types; `NeverOverdrawn` (which the run checks as part of
  `ImplementsAccounts`); `ChargeMatchesJob`; `DailyAllowance`; refinement of
  `TxtAccounts`; `BooksBalance`. The invariant ties each place of a handler to what has
  been taken for it (`StepTellsCharge`); `Fits` says that a request past the check still
  fits into the allowance as long as it was alone. `BooksBalance` is an inequality and
  not inductive; `AddsUp` is its exact form: balance and costs of what is charged at
  the moment make up what was credited, to the unit. A paid job is charged for
  (`PaidJobIsCharged`), so its cost is among them.
- `WorkerPoolProofs`: types; `LoadIsRequests`; `PanicOnlyByRace`;
  `LeastLoadedUnlessRace`, and with them `LoadBalanced`. Types and counters are
  proved together (`CountersInductive`): a `fetch_sub` stays above zero because its
  own call is one of those counted. `Unstirred` says what a pass of `pick_from` knows
  so far, for the calls during which no counter changed: the minimum over the workers
  looked at, attained by one of them (`MinSoFar`), then the minimum over all with the
  set of those that have it (`LeastSoFar`).
- `NoiseSessionProofs`: types; `InOrder`; `StuckForGood`; `FailureHasCause`. Both
  directions have one invariant, proved once for any counter: the messages are blocks
  of nonces laid end to end (`Blocks`) and the receiver is a cursor between two of
  them (`Cursor`). `FailureHasCause` needs in addition that a request in hand behind
  or ahead of another one is marked and that a stream that ended without an answer
  has its cause already (`Causes`).
- `SonoChannelsProofs`: types; `SettlesWhatWasSpent` and `CaughtUpIsExact`, together
  `TableIsRight`; `TallyKept`. The invariant `Sight` says, for each place of the
  listener, that the table agrees with the chain after some block k which is not
  older than the window about to be read (for the sync, that what a look-up found was so
  after such a block, `FoundOnce`, is why its late write does no harm); what each pass has applied narrows k down
  (`KnowsOpened`, `KnowsTopped`, `KnowsSettled`) until it is the last block read.
  `ChainShape` (a deposit grows or goes to 0) carries the facts about a window from
  its first to its last block; the least block at which a channel changes comes
  from the well-founded order of the naturals.
- Deposit addresses, in `DepositsProofs` as well: types; `OneActive` and
  `MissesOnlyNewer`, together `AddressServed`; `WithinLimit`. `Contiguous` and
  `Pending` say that indices have no gaps, and that an index a call is about to insert is either taken or still the next
  one, in which case nobody inserted since it was read and nothing is active: this is
  why the UNIQUE column is enough to keep two addresses from being active. `Limit`
  adds to the rows the calls that are counted in and have not inserted yet.
- `EndpointsProofs`, each with the types of its module:
  - `SignInWhole`: a token in the hands of a request past its look-up is claimed
    (`ClaimedOnce`), and is held by one request only unless it is marked as raced; a
    spent token has its request in one of the places after `Spend` (`SpentIsHeld`). The
    safety half of `Readmitted` (`CountersExpire`): a counter without a time to live is
    one whose first attempt is about to set it, or whose EXPIRE was lost.
  - `IdentityHolds`: the time a cached entry has left, and the time a request past its
    look-up has left, bound what may still follow a revocation, so that their sum never
    exceeds one lifetime of each (`AcceptedUntil`); credits follow the one INSERT that stored an account.
  - `LoggedOutIsRefused`: only API keys are on their way to the cache.
  - `CeremonyCounts`: a ceremony in the hands of two requests is marked (`OneUse`);
    a session about to be opened has its counter stored (`CountersKept`).
  - `ListedIsStored`: an upload is alone with its item until its row is there
    (`UploadIsAlone`). `ContentHistory`: a change under way is the only one on its row
    unless it is marked as crossed.
  - `OverrunByOverlap`: what is listed and what is being uploaded past the check, added
    up, exceed the quota by no more than the other requests can bring; likewise the balance
    less the prices that are yet to be deducted (`WithinBudget`).
  - `EmbedCounted`: the same three times over. The statistics cover the jobs and those that
    are about to be inserted (`Stated`), the counter of a day covers its jobs and the
    requests that are past it (`Tallied`), and the counter with the requests past the
    check stays within the limit and what the others may bring (`Capped`). A request carries
    its day with it, so midnight moves nothing from one sum to another.
  - `TakenIsEarned`: what was taken is what charges that went through brought and
    the halves of those under way (`TakenAddsUp`); a rest to be charged is not negative
    (`RestIsOwed`), without which the charge of the channel would give money back.
  - `RowPerInvite`, `RowPerCrawl`: rows and requests about to insert one, added up, never
    exceed the number of requests. `BlockHolds`.
  - `CallTally`: sockets under a code that was not reused carry the channel of its
    session. `QuoteIsContract`: what a round has read stays valid unless another
    process has set the contract.
  - `CreditedPerStart`, `ToldIsFinal` (on the abstract lifecycle), `SessionPaired` (the
    tasks of stream and connection at the worker by their joint places),
    `UploadsReadable`, `WebhookVerifies` (the lock has one holder, and no seal falls
    between key and answer).
  - `StreamFaithful`, the safety half of `ConversationServed`, for any number of
    sentences and any room in the channel. `StreamKept` says where the bytes of the
    model's answer are: the wire is a suffix of the answer, the buffer the part
    read and not yet cut, each symbol in it decoded as it was written or cut in two by
    the end of a chunk, and a half of a character at the end of what was read has marked
    its sentence. `SaidInv` relates what was sent to the sentence the task is at (`ThroughWith`): nothing beyond, in
    order, and for a client that listens nothing missing.

Only model-checked: everything under fairness (`TextJobSettles`,
`ArrivedIsCredited`, `BegunCallEnds`, `EncryptedEnds`, `OpenedIsTracked`, and the
liveness halves of `Readmitted` and `ConversationServed`), which is out of reach of
the prover; and every finding. The invariants and the action properties of the
passing runs are all proved.

## 7. What is not modelled

`PROJECT.json` lists every component with its status and what is left out of it. The
reasons, in short:

- In modelled components: `encrypted_tts` and `tts_with_backup` (no callers at this
  commit; they take the paths of `encrypted_asr` and of two calls); totals and
  latencies of the pool, read only for display and for the hedging delay; the
  faucet and the signing of channel states in `sono.rs`; the transfer of test money
  that a wallet login starts for an empty wallet; profile fields; lists and other
  statements that only read. `services/payments/stripe.rs` is an earlier version of
  the webhook without a caller.
- Without a caller at this commit, and modelled as they stand: the wallet branch of
  `check_and_charge` (`SplitCharge`, and `charge` in `SonoChannels`) and the zcash
  scanner. The tables `contacts` and `passkey_credentials` are not among the
  migrations; they are modelled from the statements, without constraints.
- External, and modelled from how the code uses them: the contract and the chains,
  Stripe and the enclave behind its secrets, S3, IPFS and Crust, redis, the mail
  service, the language model, authenticators.
- Hazards without a property: a health flag is up to ten seconds old, and a QUIC
  connection that ended is never dialled again, so that its worker is reached over
  HTTP from then on. `CheckHealth` may store any verdict at any time; that the flag
  agrees with the worker is promised by nobody. A listener that returns an error is
  logged and not started again (`api/main.rs:103`): `Stop` of `DepositAddresses`.
  A listener reads the active addresses once, at its start, so that an address given
  out later is not watched until the process starts again (`assethub.rs:242`);
  `AddressServed` says only that it misses no older one.
- No protocol state: fetching and extracting of web pages, the audio proxies and
  the conversation in one answer, signature checks, key derivation, the seed manager,
  configuration, types, the synthesis itself.
- Not built: `src/src` is an earlier copy of the API outside of the workspace of
  Cargo.

## 8. Plan

What is left, in this order:

1. `Submission`: composition of `Billing` and `JobQueue` over the job rows of paid
   requests, with a joint ledger of charges and jobs, and the refinement of it.
2. A ledger of `account_credits` that the vault, the deposit pipeline and the zcash
   scanner share: each is modelled with the balance to itself.
3. The restart of the worker (`Handshake`) together with the nonces of the session
   (`NoiseSession`), for the requests that are under way when it happens.
