# RouterView: formal verification

TLA+ models of RouterView (a Rust backend that polls a router and stores its
traffic, and a Vue dashboard fed over a WebSocket), the TLC runs that
model-check them on small instances, and TLAPS proofs of the most important
theorems for every value of the constants. `PROJECT.json` lists components,
runs, mutants, the map from definitions to source lines, findings, hazards and
theorems; this file explains them.

## 1. The system and its parts

| part | state it keeps | operations | interacts with |
|---|---|---|---|
| exact traffic persistence (`poller/engine.rs`, `db/traffic_v4.rs`) | volatile baselines per interface; tables `counter_checkpoints`, `traffic_samples`, `traffic_gaps` | one poll: persist every WAN, then the aggregate; one transaction each | called from the poll tick; fails independently of it |
| poll engine (`poller/engine.rs`) | router client, last connection parameters, router scope, history, previous snapshot, readiness | tick: reconnect, fetch, transform, persist, cache, broadcast; probes; maintenance | reads the shared configuration, writes the snapshot cache, sends on a broadcast channel |
| WebSocket session (`ws/session.rs`) | receiver position, session validity | subscribe, send, resynchronise after lag, revalidate, close | cache, broadcast channel, shutdown channel, auth |
| admission and drain (`ws/limits.rs`, `ws/tracker.rs`, `ws/handler.rs`) | permit tallies, guard count, accepting flag, notification | acquire, register, release, stop accepting, wait for empty | upgrade handler, main |
| supervision (`main.rs`) | task handles, shutdown channels | select over server, poller, signal; tail that drains and joins | everything above |
| browser socket store (`stores/websocket.ts`, `App.vue`, `stores/auth.ts`) | current socket, generation, timers, flags | connect, disconnect, socket callbacks, network callbacks, session check | login state, dashboard store |
| dashboard store (`stores/dashboard.ts`) | what the page shows | apply snapshot, update, connection status | fed by the socket store |
| authentication (`auth.rs`, `db/mod.rs`, `oidc.rs`) | admin credential version, sessions, setup token, pairings, OIDC flows, failure limiter | login, setup, pair, rotate, revoke, validate | every request and every WebSocket session |
| configuration (`config_store.rs`, `config.rs`, `api/system.rs`) | stored revision, shared in-memory copy | load, save with expected revision | poll engine |
| rollup and retention (`db/traffic_v4.rs`) | `traffic_rollups` (one-minute buckets) beside samples and gaps | roll up, prune, query | poll engine's maintenance, history API |
| schema, maintenance, keys (`db/schema.rs`, `db/maintenance.rs`, `db/key_management.rs`, `secrets.rs`, `key_cli.rs`) | schema version, backup files, key ring | migrate, back up, restore, rotate | start-up and command line |
| router client, transformation, REST API, views | none of their own | I/O, conversion, presentation | - |

What is hard here, and cannot be reached by the unit tests: a process that
dies between two per-interface transactions; one commit of several failing;
wall clock steps against reboots against counter wraps; a session that lags
behind a bounded channel while ticks fail and the router is exchanged; socket
callbacks, timers and HTTP answers that arrive after sign-out and sign-in; the
last session ending between the drain's look at the counter and its sleep; a
session revoked, expired or reset while a handler that relied on it is hashing
a password; a sample cut at bucket boundaries, at a moving cutoff and at the end of
a batch's budget, whose parts must still add up; a restore, a migration, a
backup or a key rotation that dies between two files; a configuration update
dropped between its transaction and the copy in memory; the row of a setup
token and its file written one after the other; a provider's answer delivered
twice, or a discovery stored after the refresh that overtook it.
`PROJECT.json` lists each as a hazard with the line where it bites.

## 2. Modules

### TrafficLedger (abstract) and CounterPersistence

`TrafficLedger` is what persistence promises: per interface a frontier and a
set of intervals; a ledger is opened once and only ever extended from its
frontier. `CounterPersistence` is what the code does.

*World* (not code): monotonic and wall clock, the router's counters, reboots,
counter resets, clock steps. The variables `boots`, `resets`, `passed` and
`incarnation` are what really happened; no guard of the poller reads them, they
are only copied into samples so that properties can compare a stored sample
with the truth.

*Fetch*: `StartPoll` sends the requests of `fetch_all`; `AnswerUptime` is the
router answering `/system/resource`, `AnswerCounters` the router reading its
counters, `StampCounters` the poller reading both its clocks when that answer has
arrived. They happen in any order and at different instants, the world moves and
the router may reboot between them, and none outlives `RequestMs` (10 s in the
code). `FailPoll` is a poll one of whose requests fails or times out, `LoseScope`
one answered by another router or one whose identity cannot be stored.

*Poller*: `StartPersisting` is `persist_exact_traffic` up to its loop,
`SkipMember`/`DropMember`/`PersistMember` the loop body for one WAN,
`PersistAggregate`/`DropAggregate` the end with `baselines.retain`.
`PersistCounterObservation` has one disjunct per way
`persist_counter_observation` returns. The transactions are
`InitializeCheckpointIfAbsent`, `CommitSampleAndCheckpoint` and
`CommitGapAndCheckpoint`, with their duplicate-key branches. `Restart` is a
crash and restart at any point of a poll.

Abstractions: rx and tx always travel together, one counter stands for both;
one router; of the requests only the two whose answers persistence uses; an
answer shows what the router knew at one instant before it arrives, all counters
at the same one; persistence reads neither the router nor a clock, so the world
stands still in its loop. `U64Max` is a parameter and `I64Max` half of it, so wrap-around and
the signed column keep their relation at small width.

### PollFeed

One poll tick split at its awaits (the two configuration reads, connect, fetch,
cache, announce), the cache, the bounded broadcast channel, one session and the
browser behind it. The channel is the full message log with a window of
`Capacity`, which is how tokio's broadcast behaves for one receiver. A snapshot
has one section with an optional field, one replaced as a whole, and the traffic
points; the other sections repeat these shapes. The browser's chart is the
bag of the points pushed onto it, so repetitions count.

### WsClient

The socket store is one record, every function of `websocket.ts` an operator
from records to records, every callback an action. A socket is identified by
the generation it was created in. Delays are not modelled: a timer may fire any
time after it was set. Vue watchers run before the next callback, so their
effect belongs to the action that triggers them.

### ServerLifecycle

Connection limiter, session tracker, upgrade handler, session task and the
supervision in `main`. A client may hold an HTTP request (`HoldRequest`) for
ever, since the router has no request timeout, and axum's graceful shutdown waits
for it. Every mutex section is one step; dropping the permit and
dropping the guard are two. `Notify::notify_one`-style storage of a wake-up is
the variable `notified`. Timeouts are steps that may be taken at any time;
only the grace period of 30 s (`GraceExpires`) is fair.

### AuthSessions

The tables `auth_sessions` and `pairing_codes`, the administrator's credential
version, the Argon2 permits and the pairing slot, with any number of concurrent
handlers. One database call is one step (the connection is behind a mutex), and
everything a handler read before an await is a local of its `request` record, so
it may be stale when used; the time at which `create_pairing` and `pair` evaluate
their row is any instant between entering the last step and its database call,
because they read the clock before they get the connection. `ReadUnacceptable`, `Refuse`, `Admit` and `Touch` are
`require_auth`; `Logout` and `RevokeOther` their routes; `Login`,
`StartVerifying`, `EndVerifying`, `LoginInsert` the login; `BeginAdminPairing`
(with the same verification) and `GrantInsert` are `create_pairing`;
`PairCheck` and `PairConsume` are `pair`; `Callback` and `EstablishOidcSession`
the OIDC callback as far as sessions go. `DropHandler` is a client that goes away
at an await, `EndOrphan` the hashing task it left behind. `CliSetup`, `CliReset`,
`Boot` and `Halt` exclude each other by the database lock; `Boot` revokes the
sessions of another OIDC policy.

The fields `ver`, `proof` and `code` of a row record which evidence it rests on.
No code reads them; the properties compare them with the present credential.

Abstractions: a user name and password either match the credential that was read
or not; tokens are the identities of their rows; nothing but its code is kept
of a revoked row, because every query asks for `revoked_at IS NULL` first;
`last_seen_at` is folded into the idle expiry; expiries beyond the bounded clock
are one value; a WebSocket upgrade only reads. Two facts the model makes visible:
the lock keeps the command line and handlers apart, so the rechecks of the
credential version when a handler writes its row are a second line of defence;
and a device paired from an OIDC session carries no policy, so it outlives a
change of the policy.

### TrafficHistory

What becomes of recorded traffic. `Poll` is recording as `CounterPersistence`
implements it (an interface extends its ledger from its frontier, or is skipped);
`Configure` saves other retention times; `Rollup` and `Prune` are the two
transactions of the engine's maintenance, which computes both cutoffs first, and
`FailRollup` and `SkipPrune` their failures and a crash in between. One rollup is
one set-valued expression: `Plan` says which samples of the batch are consumed
how far (the segment budget may stop inside a sample), `Bucket` what that adds to
each minute, `Refused` the errors that abort the transaction, `RolledUp` the
writes. The query is a family of operators (`Rows`, `Segment`, `Totals`,
`PointSize`, `Points`, `QueryFails`) evaluated in every state, because a query
reads a snapshot on its own connection and may fall between any two
transactions.

Abstractions: one router; download and upload travel together; rates and sample
counts are for display; the row budget of a query refuses it without changing
anything; sums stay below 2^63; the clock does not run backwards (longer
retention times move the cutoff backwards instead); rows adopted from a legacy
database are left out. The variables `recorded` and `forgotten` are history that
only the properties read.

### LegacyImport, ConfigStore and DatabaseLifecycle

The database file over its whole life. `LegacyImport` holds the pure part of
the import of legacy traffic (`db/schema.rs`): the width of a point, the minutes
a point reaches into, the rows that collapse when a missing interface name
becomes the empty one. `ConfigStore` holds the pure part of the configuration
(`config_store.rs`, `secrets.rs`, `db/key_management.rs`): what loading refuses,
what it seals, what a save and a rotation leave behind.

`DatabaseLifecycle` runs processes over them: the daemon and maintenance
commands. `main` and `wal` are the two files of the target, `files` the backups
with the hash their manifest names, `quarantine` complete quarantine
directories, `holder` the advisory lock, `proc` where each process stands,
`config` and `request` the daemon's shared configuration and its
`update_config` handlers.

| actions | code |
|---|---|
| `OpenForBootstrap`, `Load`, `Compact`, `MigrateConnection`, `ApplyMigrations`, `FinishMigrations` | the start of the daemon and of `admin` and `migrate`: lock, open, seal a plaintext password, VACUUM, back up, migrate, verify |
| `RejectConfig` | `merged.validate()` at the end of `ConfigStore::load`, after the secret was sealed: the environment refuses the stored values |
| `RotateKey` | `key_cli.rs` and the re-encryption in one transaction |
| `WriteRow`, `CreateAdmin`, `BeginUpdate`, `SaveConfig`, `InstallConfig`, `DropUpdate` | commits of the running daemon; an update clones, saves with the expected revision, installs, and may be dropped at either await |
| `StartBackup`, `CopySnapshot`, `PublishSnapshot`, `HashSnapshot`, `WriteManifest` | a backup or a legacy export, and the backups that migration and restore take |
| `VerifySource`, `OpenSource`, `LockTarget`, `PreserveTarget`, `DiscardQuarantine`, `RemoveSidecars`, `ReplaceTarget` | a restore |
| `Crash`, `Fail`, `Damage` | a process dies, an operation returns an error, a file rots, between any two steps |

Abstractions: a file is what SQLite reads from it. SQLite's own promises are
given (an atomic and durable transaction, a backup API that copies one committed
state), so the model is about the order of files, not of pages. A secret is a
password with the key it was sealed under. `.partial` files are never read again
and are left out. Schema versions between 0 and the current one apply in one
step, as they share one transaction.

### FailureLimiter, SetupToken, OidcLogin and SignIn

`FailureLimiter` is `FailureLimiter<K>` as operators over its table.
`SetupToken` is the way to the first administrator: `Boot`, `IssueStore`,
`WriteFile` and their failures put a token into the database and then into a
file; `SetupAsked`, `SetupChecked`, `SetupConsume`, `SetupDone` are the request,
split at the hash and at the lock; `SetupLegacy` is the same request on the loopback
listener, which no limiter guards, `Cleanup` the task that invalidates an expired token, `CliSetup` the offline command, `Crash` and
`Halt` the ends of a process. `section` is what remains to be done by the holder
of `setup_token_lock`.

`OidcLogin` adds the identity provider (external: up or down, one generation of
keys, exchanges a code once), the background discovery split at its requests,
the flow store with its limits and its cookie, and the callback split at the
exchange, the refresh of keys and the identification. `SignIn` composes both
with `pair` behind the pairing limiter; all share the clock, the life of the
daemon and the administrator.

Abstractions: a token, a state, a nonce and a verifier are random, so names stand
for them; checking an ID token is comparing key generations; `creations`,
`sessions`, `opened` and `owed` are history that only the properties read;
`faults` is the fault budget and `leftover` records that a file operation has
failed.

## 3. Runs

| run | instance | shows |
|---|---|---|
| `single` | one WAN + aggregate, steps of 4 s, requests of up to 4 s, reboots of 4 s, clock steps of 4 s back, two process lives, a counter just below the wrap at 15; polls at three instants with every fault and one reboot, five steps and two reboots as long as nothing else disturbed the samples | types, baseline = checkpoint, refinement of the ledger (hence tiling), truthful exact bytes; a reboot hides in an exact sample only below the tolerances or within one request |
| `aggregate` | two WANs, 2 polls after the first, members missing, without counters or reset | an exact aggregate sample is the sum of exact samples of all its members over the same interval |
| `masked` (violation) | two WANs, failing commits, one reset | finding 1 |
| `live` | two routers, two section values, channel of one message, three ticks, one configuration change | the drained browser is current, sees outages, shows no foreign points and repeats at most two points; readiness is truthful; the saved address is polled; the session catches up |
| `optional` (violation) | one router | finding 3 |
| `client` | nine generations, two sign-ins | the store never stops trying, never leaks a socket, is quiet after sign-out |
| `offline` (violation) | the same | finding 2 |
| `lifecycle` | two connections, sessions and sources, limits 2/1/1, requests held for any time | no leaked permit or guard, no lost wake-up, final drain, every shutdown completes, one that waits for the server alone once clients hold no request |
| `auth` | two handlers, two session rows, one code, one OIDC policy or none, one permit, clock to 2, two credential versions | no session or code survives a reset or a policy change; administrator devices had the password; a code makes one device; only a live session delegates; renewals never shorten; hashing stays bounded |
| `history_store` | two interfaces, polls 3 or 5 apart to time 8, buckets of 3, batches of one sample (budget two segments) and one deletion, raw retention 1 or 2, total 2, queries of two points over every range | no batch is ever refused, every query is answered, nothing inside the retention time is lost, doubled or promoted to exact, a backlog shrinks |
| `database` | one command of any kind beside the daemon, two updates, two keys, two commits, one fault anywhere; from no database, a current one, a newer one, or a legacy one with a plaintext password; a restorable legacy backup whose migration is refused | no file is ever paired with another's WAL or published damaged or with a plaintext password; every commit is in the target, a verified backup or a quarantine; the daemon only serves a database that is ready; the import counts no second twice; the daemon always comes back |
| `signin` | three deployments: a fresh daemon with two faults and two setup requests; a provider with two changes, two flows and two callbacks; one device and two addresses at a limiter of one entry; clock to 2 | one administrator, created with the latest token; one session per flow, for the browser that opened it; penalties are served; dead token files and lost providers are repaired |

Why the bounds suffice. Persistence compares an observation only with the
previous one of the same interface, so three polls with a restart in between
contain every pair of neighbours. To be mistaken for one that never rebooted a
router must be up again for as long as before: the constraint
`ShortOrUndisturbed` lets behaviours in which only reboots interfered go on to
20 s. There the bound is reached: samples do hide reboots by each of its two
clauses, and with one request time less in it the run fails. An outage is as
long as a request may take, so that it fits between the two requests of a poll.
`single` has one WAN and no counter resets: members that come and go are in
`aggregate` and, for any number of them and with all faults together, in the
theorem `ExactCountsAreTrue`. A channel of one message lags after two broadcasts, and three ticks allow a success, a failure
and a recovery around a lag. Nine generations allow both sign-ins to go through
open, loss, verification and reconnect. Two connections are enough for the last
guard to be dropped while the other is still registering. In `auth` every race
is between two handlers over one row or one code; two rows allow a creator and
its device; the lifetimes are chosen so that a device, an idle session and a code
each expire before the clock ends and a standard session outlives it. In
`history_store` polls end on and between bucket boundaries; a sample of eight
units has three pieces, one more than a batch may consume; batches of one row
force the order between interfaces, remainders and backlogs at both limits.
In `database` a command and the daemon are the only two processes that ever
meet (the lock excludes more writers, readers only copy); two commits let a
backup and the target differ, two updates race for one revision; four generated
names are more than one command and one fault use; only a refused migration takes
one at every start until they are gone, and that content is unserviceable anyway. In `signin` two tokens allow one to replace the other,
two faults a crash on each side of it; the deployments are separate initial
states because their parts share nothing but the clock, the administrator and
the life of the daemon, and each part is run through restarts or outages of its
own; two flows with one per address fill the store, two callbacks take every
permit, and three times let a token, a flow and a penalty expire.
Some instances are too small for a clause of their property, which then rests on
its theorem: with two session rows in `auth` there is a creator and one device,
never two devices of one code (`PairingIsSound`); with one device in `signin` no
slow success meets a newer attempt of its own address (`PenaltiesAreServed`); with
one browser no callback can arrive in another one (`FlowsAreSpentOnce`); in
`lifecycle` two connections do not exceed the global limit (`NoResourceLeaks`).
Behaviours of the bounded models end (polls, ticks, generations, tokens and names
run out), so their configurations do not check for deadlock.

Properties that are conjunctions have one name per question:
`SocketsAreOwned`, `FollowsTheLogin`, `ResourcesAreCounted`, `DrainIsSound`,
`EngineIsConsistent`, `StoreIsSound`, `FilesAreSound`, `OneSessionPerFlow`,
`Argon2IsBounded` and `DelegationIsSound` join the type invariant or closely related statements.

Fairness. `live` assumes that a session task that can move is polled again
(tokio); nothing is assumed of the engine, so `CatchesUp` is about the session
only. `lifecycle` assumes the same of the session tasks, of `main` and of the
poller's stop, and that the grace of 30 s expires (main.rs:312); no fairness is
given to clients, signals, failures or the other timeouts. `ShutdownCompletes`
therefore has two parts. Once a signal or the end of the poller has taken `main`
out of its select, main ends although a client holds a request for ever. After a
failure of the setup listener main still awaits the server alone (main.rs:265),
without a timeout: it ends once clients hold no more requests, and if one is held
for ever it does not. The WebSocket drain ends by its notifications, not by its
timeout.
`database` assumes that a started process goes on, that the supervisor starts
the daemon again (the deployment's restart policy), and, strongly, that the
operator who may present either key file eventually presents the one the secret
was sealed under, and who may change the environment finds one that accepts the
stored configuration (strong fairness of `Load` and `MigrateConnection`; a start
may meet the wrong key or `RejectConfig` any finite number of times). Nothing is assumed of commands, clients or faults, and
`ServiceReturns` excepts contents that every start must refuse. `signin` assumes
that the daemon is started, that a holder of the setup lock goes on, that the
clean-up and discovery loops run, that an ordered halt ends and that a callback
in progress moves; nothing of clients, the provider, faults or the clock. Flows
are bounded, so callbacks take the permits a discovery waits for (one second,
oidc.rs:461) finitely often; an endless stream of them is outside the claim.

Every property of a passing run has a mutant: a plausible bug in one mapped
definition (named after what it gets wrong, next to the definition it replaces)
under which TLC finds the property violated.

## 4. Findings

1. `masked` - `AggregateNeverMasksMemberGap`: when the aggregate's forced gap
   cannot be committed, the error is only collected (engine.rs:1169) and the
   old aggregate baseline stays. The next poll, if every member is continuous
   again, writes an exact aggregate sample across the interval in which a member
   only has a gap.
2. `offline` - `ReconnectsWhenOnline`: `disconnect()` detaches the network
   listeners but keeps `offline`; an `online` event missed while signed out
   leaves the flag set, and `connect()` then returns early for good.
3. `optional` - `UpdatesReproduceSnapshot`: optional IPv6 fields are skipped in
   JSON when absent and merged with `Object.assign`, so they never disappear
   from the dashboard through an update.
Facts the models make visible, which no statement of the repository contradicts:

- A poll without a positive rate after a reconnect caches and broadcasts a
  snapshot without the accumulated history (engine.rs:626): charts start anew
  although the engine keeps the points.
- Updates already covered by the snapshot of a joining or lagged session push
  their points once more; `ReplayIsBounded` says how many.
- `try_reconnect` compares one read of the configuration and builds the client
  from another (engine.rs:402 and 442), remembering the first. A single save in
  between is repaired by the next tick (`SaveTakesEffect`). If a second save
  restores the first address before that tick, nothing has changed for it, and
  the engine goes on polling the other router until the address changes again.
- A daemon restarted while its migration is refused makes one more pre-migration
  backup at every start.
- A start that dies between removing the plaintext password and VACUUM is never
  compacted later: the condition for it is gone.
- A configuration update dropped after its commit leaves the daemon with the older
  copy, and every later update conflicts, until a restart. Nothing is overwritten.
- A token file that could not be removed is not tried again by the same process;
  the next start removes it (`TokenFileGoes` excepts `leftover`).

## 5. Proofs

Every safety invariant and every action property that a passing run checks is also
a theorem (`AggregateBackedByMembers` under the hypothesis `SteadyHost`, see
below). A proof module belongs to one component, except `WebSocket_proofs`
(both ends of the connection) and `Sums`.

`Sums` is about `SumFunctionOnSet` of the community module Functions, in which
byte totals and repeated points are written: a sum may be taken element by
element in any order, compared, split, renamed and cut. The fold behind it is a
chosen recursive function, so `SumsExist` first shows that there is one for every
finite set and `SumsAgree` that all agree. Library induction takes an operator
as its parameter, which the provers cannot instantiate; `FiniteIsGenerated` says
the same of a collection of sets (one that holds the empty set and, with a set,
that set and one more element, holds every finite set) and is used in its place.

`CounterPersistence_proofs`, from the assumptions `CounterConstants` and
`NoneIsNoRecord` only, for any number of WANs, counter width, tick, reboot time,
request timeout and clock steps:

- `TypeCorrect`: one lemma per part of Next; `DeltaType` shows that an accepted
  delta fits the signed column.
- `BaselineMatchesCheckpoint`: `TypeOK /\ BaselineIsCheckpoint` is inductive.
  `PersistEffect` is the key lemma: once the baseline is known to be the
  checkpoint, the duplicate-key branches of both transactions are unreachable
  and an observation has one of four effects.
- `PersistenceImplementsLedger`: the refinement mapping sends a checkpoint to the
  frontier and samples and gaps to entries; every step is a ledger step or a
  stutter. It needs the previous invariant, because a sample starts at the
  baseline and the ledger at the checkpoint.
- `LedgerTiles`: the abstract ledger tiles time, from the inductive invariant
  `LedgerInv` (types, entries behind the frontier, no overlap, no hole).
- `TablesTile`: the refinement plus `LedgerTiles`.
- `NoExactSampleAcrossRestart` and `RebootDetection` from `TruthInv`, which
  speaks of three kinds of facts about the past: the answers of the running fetch
  (`FetchIsTrue`), the observation and the baselines (`IsPast`). Each belongs to
  this process, its uptime and its counters were fetched within one timeout of
  each other, and they come from the same boot unless the router was back within
  one request (`Straddles`). Between two of them, `Precedes`: a reboot came at
  least `RebootMs` after the earlier one and the router has been up since; a
  baseline precedes what the running poll fetches (`BeforeFetch`). The bound is
  the sum of the 5 s epoch tolerance, the rounding of three values to whole
  seconds, 250 ms + 1 % between the clocks, and one `RequestMs` for each of the
  two fetches whose uptime and sample time are apart: the router's uptime plus its
  outage must be below 27.25 s + 1 % of the sample with the code's 10 s. The
  exception is an outage of at most `RequestMs` that falls between the two
  requests of one poll.
- `ExactCountsAreTrue` from `BytesInv`: two readings of the counters without a
  reset or a reboot in between differ, modulo the counter's width, by the bytes
  that passed (`Continues`), and every baseline was taken from such a reading
  (`TakenFrom`), so `BaselinesExplain`. For the aggregate
  both are sums over its signature. A delta that is accepted is below the width,
  so it is the number passed modulo the width.
- `AggregatesAddUp`: `SteadyHost => (Spec => []AggregateBackedByMembers)`.
  `SteadyHost` says that storage refuses no statement and the clock is not set
  back, and the run `aggregate` satisfies it. Without it the property is false: a
  member whose observation was refused keeps an older baseline than the
  aggregate, and what that leads to is the run `masked`. Everything else is free:
  missing interfaces and counters, unknown identities, resets, reboots and
  restarts. `TimeInv` says that polls follow each other and the wall clock never
  loses time against the monotonic one (`Lead`). `GroupInv` says that the baselines of the members were taken with the
  aggregate's (`MembersInStep`) and that their counters add up to its counter; in
  the middle of a poll, that they do with what the members already processed have
  stored put back (`GroupAddsUp`).

`AuthSessions_proofs`, from `AuthConstants` only, for any number of handlers,
rows, codes and policies and any lifetimes:

- `ResetRevokesEverything`, `AdminDevicesArePaidFor` and `PoliciesAreCurrent`
  from the inductive invariant `Evidence`. The properties alone are not
  inductive: a handler about to write a row must hold the present version
  (`HandlersSound`), which survives a reset because no handler outlives the
  daemon (`Quiet`), and rows that count exist only after setup (`RowsSound`).
  One lemma per action or group of actions with the same effect.
- `TypeCorrect` and `HashingIsBounded` from `PermitsAccounted`: the permits taken
  are the handlers that wait for a hash plus the orphaned tasks. It rests on the
  cardinality theorems of the library.
- `PairingIsSound` and `IdleTimeIsKept`, the action properties (a grant is from a
  session that is not revoked when the row is written and was not expired when its
  request read the clock, `ActsFor`): every step is
  shown to move the rows in one of four ways (`RowsMove`: they age, or a session,
  a code or a device is added), and each way keeps one device per code
  (`Delegated`), delegates from a live session and takes no idle time.

`SignIn_proofs`, from the named assumptions of FailureLimiter, SetupToken and
OidcLogin, for any number of requests, tokens, deployments and faults:

- `SetupCreatesOneAdministrator`: `SetupHappensOnce` says that at most one
  administrator is created over HTTP, with the latest token and before it
  expired. It is not inductive, because a request is checked long before it
  consumes. `SetupInv` adds that an unused row names the latest token (`Latest`)
  and that a creation leaves the administrator's row behind for good (`Sealed`).
  The proof has one lemma per way the row changes; steps of OidcLogin and
  pairing leave the state alone.

- `FlowsAreSpentOnce`: `LoginInv` adds to `SetupInv`'s state the types of the
  flow store, the permits actually taken by callbacks, and `FlowsSound`: a flow
  is in the store, or with one callback, or spent, never two of these. Every step
  is one of four kinds (flows age, one opens, one is taken by a callback, one
  becomes a session), and the invariant is proved kind by kind.
- `PenaltiesAreServed`: an action property, from `OwedInv`: what a source owes is
  what its entry says, or is over when it has none. The limiter's functions have
  lemmas of their own: pruning, expiry and the shared overflow entry never drop
  an entry whose penalty still runs.

`WebSocket_proofs`, server end, from `LifecycleConstants`, for any finite set of
connections and any limits: `NoResourceLeaks` and `DrainIsComplete` from
`LifecycleInv`. The tallies are compared with cardinalities of sets of
connections, so each step is classified by who enters or leaves these sets; the
drain needs in addition that main has stopped accepting before it looks at the
counter (`DrainStands`).

`WebSocket_proofs`, browser end, from `WsClientConstants`: `NoSocketIsForgotten`,
`ConnectionFollowsLogin` and `ReconnectingNeverStops` from `ClientInv`. The
functions of websocket.ts are operators on stores; each has a lemma that says
what it does to a sound store, and a callback composes them. The invariant ties
the application to the store: a started one runs and is trying unless it is
offline, any other is stopped, and a start that is still loading is the present
one unless it was stopped (`Fits`). (The specification of `WsClient` is named
`ClientSpec`, so that both ends can be proved about in one module.)

`PollFeed_proofs`, from `PollFeedConstants`, for any number of routers, contents
and polls and any capacity of the channel:

- `ReadinessIsTruthful` from `EngineInv`, which knows at each point of the tick
  what is fetched, cached and connected.
- `OutagesReachTheBrowser` and `DrainedViewsAreCurrent` from `Delivery`. The
  properties speak of a drained session only; the invariant reads what any
  session will show off the log: the last message that carries a part carries
  the engine's (`LogIsCurrent`), and a part that no pending message carries is
  already shown (`ViewIsCurrent`), as the engine announced it or as a tick that
  has cached its snapshot is about to. Engine steps are quiet, an outage or
  news, and each kind keeps `Delivery`.
- `SavesTakeEffect`, an action property, from `Followed`: after at most one save
  the client is for the address it is remembered under or for the new one.
- `ReplaysAreBounded` from `ReplayInv`. That a chart repeats at most `Capacity + 1`
  points is not inductive, since a chart that has repeated so many could be about
  to receive another one. `RepeatsFit` counts what was repeated together with the
  messages held for the session that would repeat a point (`Held`) and the point of
  a tick that is cached but not announced (`Unannounced`): receiving moves a
  repetition from the second to the first, announcing from the third to the
  second, and a snapshot starts the first anew. It needs that messages carry
  points in the order of the polls (`PointsArePast`).

`TrafficHistory_proofs`, from `HistoryConstants`, for any finite set of interfaces,
any bucket, batch and point limits, retention times and polls:

- `HistoryStoreIsSound` from `StoreInv`: samples and rows of an interface lie
  apart, the rows before the samples and both behind its checkpoint, and a row
  covers a part of its bucket, once. The plan of a batch is used only through
  `Consumes` (it takes the oldest samples of an interface, all but the last of
  them to their ends), which `PlanConsumes` derives from the order by start, the
  batch limit and the segment budget. That pieces of a bucket do not overlap
  bounds what the bucket covers (`DisjointLengths`), and so does the same
  argument what a query covers.
- `BacklogIsWorkedOff`, an action property: the first sample that is due is in
  the plan with all the budget (`PlanIsNotEmpty`).
- `ExactIsMeasured` from `ExactInv`: a stored sample that is exact is as it was
  recorded, and the exact bytes of a row are those of recorded samples inside it.
  Merging needs that what a row already counts is no longer stored.
- `RollupKeepsTheTotals`, an action property. What a query counts is a difference
  of what the rows hold before its two ends (`TotalsAreDifferences`); before one
  boundary, a rollup moves what the consumed samples have there into the rows, but
  for the rounding of the one sample that the boundary cuts (`CutInTwo`,
  `RollupMoves`).
- `HistoryKeepsAll` from `CompleteInv`: at every boundary between buckets that
  cuts no recorded sample, the rows hold beyond it what was recorded beyond it, in
  bytes and in time (`AllHeld`); every stored sample ends a recorded one
  (`Recorded`), and a gap is only deleted behind the retention boundary
  (`NoGapLost`). Polls add the same to both sides, a rollup changes nothing by
  `RollupMoves`, and retention deletes only what ends before.

`DatabaseLifecycle_proofs`, from `ConstantsAssumption`, for any number of
commands, requests, keys, passwords, backups, commits and faults:

- `DatabaseFilesAreSound`, `NoCommitIsLost` and `TheServedDatabaseIsReady` from
  `DatabaseInv`. The properties are far from inductive: that a restore may remove
  the WAL rests on what it put aside several steps before. `Own` says for one
  process what it relies on at each of its places (`Coherent`, `Locked`,
  `Numbered`, `Copies`, `Opened`, `Restoring`), `Preserved` that every commit is
  in the target or in a verified backup under a generated name or in a
  quarantine, `Configured` that a copy of the configuration in memory is the
  stored one or has a smaller revision. Whoever works on the target holds the
  lock, so each action is proved with the facts about its own process, and
  `OthersKeep` shows once that the facts about the others stay.
- `HistoryIsImportedOnce`: `ImportIsDisjoint` proves it of every history whose
  minutes start on whole minutes (the bucket of `traffic_1m`). The greatest
  earlier point exists because the natural numbers are well-founded; the rest is
  arithmetic.

`ConstantsAssumption` says that the initial contents and backups are contents,
that `None` is none of them, and that generated names are not a user's. A
backup of a database of a newer release is not refused by the code (a snapshot is
checked for damage and plaintext only), so `PublishedAreClean` does not speak of
versions.

Only model-checked: the liveness properties `CatchesUp`, `ShutdownCompletes`,
`RevokedIsCutOff`, `ServiceReturns` and `SignInRecovers`. Fairness and ENABLED are
outside the prover's reach.

## 6. Not modelled, and the plan

Not modelled at all: HTTP and JSON of the router client, shaping data for
display, REST plumbing, views, packaging, cryptography, the DDL of single schema
versions, parsing of the environment. Not modelled yet, in the order planned:

1. History queries over HTTP: admission, deadline and cancellation
   (`api/traffic.rs`).
2. Router identity and adoption of legacy rows (`db/traffic_v4.rs`); the latency
   probes of the poll engine.
3. The limiters of the password login composed with AuthSessions.
