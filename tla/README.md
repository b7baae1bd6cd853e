# Formal verification of btcpool-go-modules

TLA+ specifications of the programs in this repository, the TLC runs that check
them on small instances, and theorems about them proved with TLAPS.  Every
definition is translated from the Go sources; `PROJECT.json` maps each one to
its lines.

## The system

The repository holds four services that stand between miners and the Stratum
servers of a mining pool, and a few tools.

| Component | State it keeps | Operations | Interacts with |
|---|---|---|---|
| `stratumSwitcher/SessionIDManager.go` | bitset of used indices, count, allocation pointer | alloc, resume, free | sessions, upgrade |
| `stratumSwitcher/ZookeeperManager.go` | one watcher per path: cached value, one channel per session | GetW, ReleaseW, dispatch of an event | ZooKeeper, sessions |
| `stratumSwitcher/StratumSession.go` | status, reconnection counter, coin, two connections, a watch channel | client handshake, server handshake, proxying, reconnecting, switching, stopping | everything in stratumSwitcher, miners, Stratum servers |
| `stratumSwitcher/StratumSessionManager.go` | map of proxying sessions, server ID, registration quota | accept, resume, register, release, assign a server ID | ID manager, ZooKeeper manager |
| `stratumSwitcher/Upgradable.go` | the saved sessions | save the sessions, close ZooKeeper, execute the new program | session manager, the next process |
| `chainSwitcher/main.go` | current chain, time of the last update, command ID | poll the API, fail-safe, send commands and read responses over Kafka | Kafka, the switcher API |
| `mergedMiningProxy` | current blocks of the chains, buffer of aux jobs | update blocks, make jobs, find jobs, submit blocks | chain nodes, pool, database |
| `userChainAPIServer/switcherAPIServer` | none but ZooKeeper | HTTP handlers that switch sub-accounts, a cron job | ZooKeeper, stratumSwitcher through it |
| `userChainAPIServer/initUserCoin` | last user ID per coin | import of user lists, automatic registration | ZooKeeper, stratumSwitcher through it |
| `initNiceHash`, `install` | none | one-shot tools | |

What makes stratumSwitcher hard is that one session is driven by many
goroutines.  Each call of `proxyStratum` starts a copier per direction and a
coin watcher; they end at different times, after newer ones have been started,
and meet only in `session.lock` and `reconnectCounter`.  Some fields
(`miningCoin`, `serverConn`, `zkWatchEvent`, `manager`) are read and written
without the lock.  Below the sessions, the watch of a path is shared, cached and
fires once, and the IDs of sessions outlive the process that gave them.

What makes each component correct:

- **Session IDs**: unique among live sessions, never leaked, and kept by the
  sessions that survive an upgrade.
- **Watches**: no change of a node is missed although the value comes from a
  cache, no channel is closed twice, one watch per path.
- **Sessions**: one reconnection for one failure, no stop without a cause, one
  release, every coin change followed, every client that leaves released.
- **Handshakes**: a session proxies only for a server that accepted its miner,
  no order of requests makes it use what it does not have, a registration gives
  back its place and ends.
- **Upgrade**: a session is resumed as the kind of client it was.
- **chainSwitcher**: the servers end on the chain that the API, or the
  fail-safe, wants.
- **mergedMiningProxy**: every chain finds its block in a job at the slot it
  computes, the job list stays consistent and bounded, requests are answered
  although a lock is held over a channel send, jobs run ahead of the
  announcements by one hash at most, and a recorded acceptance is not replaced by
  an error.
- **userChainAPIServer**: every switch is in effect after a bounded time although
  requests are lost, delayed and overtaken; the cached user lists are current.
- **Server ID assignment** (not modelled): distinct IDs for live switchers; ends.

The `hazards` of `PROJECT.json` name the lines where these can go wrong.

## Modules

| Module | Models | Notes |
|---|---|---|
| `SessionIDPool` | the abstract pool of indices | Acquire, Release, Handover, Reclaim, Forfeit |
| `SessionIDManager` | `SessionIDManager.go` and its callers, with upgrades | refines `SessionIDPool` |
| `MCSessionIDManager` | the instance TLC checks | symmetry of connections |
| `SessionIDManager_proofs` | proofs | |
| `ZookeeperManager` | the watch registry of `ZookeeperManager.go` | ZooKeeper and its Go client are external |
| `ZookeeperManager_proofs` | proofs | |
| `StratumSession` | one session in proxy mode | `INSTANCE`s `ZookeeperManager` for its watch |
| `StratumSession_proofs` | proofs | |
| `StratumRequests` | the requests a client starts with, as a function | used by `SessionStart` |
| `SessionStart`, `MCSessionStart` | from the connection of a client to the proxy mode, the automatic registration included | composed with `UserAutoReg.go` |
| `AuxPow` | slots, compact bits, Merkle trees and branches, jobs | operators only |
| `AuxPow_proofs` | lemmas about them | used by the proofs of the next two |
| `AuxJobMaker`, `MCAuxJobMaker` | `AuxJobMaker.go` and createauxblock | |
| `AuxSubmission`, `MCAuxSubmission` | submitauxblock and the database | |
| `UserList` | the import of users and the list of users | |
| `SwitcherAPI`, `MCSwitcherAPI` | coin switches over HTTP and by the cron job | composed with `UserList` |
| `ChainSwitcher`, `MCChainSwitcher` | `chainSwitcher/main.go` | |
| `SessionStart_proofs`, `SwitcherAPI_proofs`, `AuxJobMaker_proofs`, `AuxSubmission_proofs` | proofs | |

In every module an operator named after another with an addition, such as
`StopUnchecked` beside `StopEnter`, is a slip somebody might make in that code.
No action uses it; `PROJECT.json` lists, under `mutants`, which property catches
which slip.

### SessionIDManager

State: the server ID, the bitset `sessionIDs`, `count` and `allocIDx` as in the
Go struct; `held`, the ID of each connection; `pending`, the saved IDs a new
process has yet to resume.  An ID is the pair of server ID and index.  `MakeID`
is the OR of the source and does what the OR does when `allocIDx` has grown
beyond the mask.  Every method holds the lock, so each is one action.
`Upgrade` replaces the process: it may save any of the live sessions, since only
sessions in proxy state are registered, and starts with a new manager.

The search for a clear bit is a definition (`FirstClear`) that says where the
loop stops.  It needs no recursion, and so can be used in proofs.

### ZookeeperManager

State: `node`, `armed` and `fired` are ZooKeeper's: node contents, watches set
and events sent but not received.  `watcherMap`, `nodeValue` and `channels` are
the manager's, `chan` and `handed` what its callers see: the state of a channel
and the value that came with it.  Two things may set off a watch, a change of
the node and the loss of the ZooKeeper session.

### StratumSession

A generation is the value of `reconnectCounter` when a connection is made; every
goroutine is named by its generation.  `copier`, `watch` and `proxy` hold the
program counters, with the counter and connection or channel each goroutine has
taken.  `stops` counts goroutines sent to run `Stop`.  `locked` is true while a
reconnection holds `session.lock`; the other critical sections are single
actions.

Decisions a reader of the code may ask about:

- The read of `miningCoin` for a dial is part of the step that begins the
  attempt.  A write to `miningCoin` needs no lock, so one that comes between is
  the same as one that comes before.
- The dial and the handshake of an attempt succeed or fail as a whole
  (`AttemptSucceeds`, `AttemptFails`).  The handshake's own states, and the
  connection that a failed attempt leaves open, are in `SessionStart`.
- A goroutine notices that its connection is gone and asks for the lock in one
  action: what it noticed cannot change while it waits.
- `Stop` closes the connections in the step in which it sets the status.
- No bytes are modelled.  A copier ends because its end or the other is gone.
- `Panic` is a nil dereference: of `manager`, which `Stop` sets to nil; of `serverConn`
  or `serverReader`, which are nil during a reconnection; or of a reader that a copier of
  the same direction and another generation has set to nil between the check and
  the use.  It ends the process, and no property excludes it.
- A channel that nobody refers to becomes free before the next one is made, so
  that a few channel objects stand for any number.

### StratumRequests and SessionStart

`StratumRequests` is `stratumHandleRequest` as a function from what a session
knows (its protocol, kind of client, saved requests and step) and a request to
what it knows then; `Resumed` handles the saved requests again, as `Resume` does
after an upgrade.

State of `SessionStart`: per session a record with its step, what it knows, the
request its reading goroutine has in hand, its coin, whether it holds a place of
`autoRegAllowUsers`, and the attempt whose connection is `serverConn`.
`readers` are the goroutines of `serverSubscribeAndAuthorize`, which live on after
the time limit of their attempt and read whatever `session.serverReader` is
then; `conns` are the connections with the responses still to be read.  The
service that registers users (`RunUserAutoReg`, `regUser`) shares the nodes
`coinOf` and `regNode` with the sessions.

- The test of `autoRegAllowUsers` and its decrement are two actions, as they are
  in the code; the number may be negative for a while.
- The session ID is compared where the response has one (`ComparesID`): for Bitcoin
  and for NiceHash.  For the other two Ethereum protocols the code looks at the
  result only, so `RunningIsAccepted` says nothing of the ID there.
- The comments at `StratumSession.go:1143` and 1182 call a mismatch an error that is
  detected.  In two cases it is not, and the property excepts them: a
  goroutine that outlives its time limit may read the next attempt's responses and
  accept in its place; and when the response to mining.authorize comes before that to
  mining.subscribe (`Responses`), the goroutine ends without reading the second.
- A line that is `null` is decoded without an error to a nil pointer, and an array
  that is too short is indexed: `NullRequest` for a client, the response `malformed`
  for a server.  The process panics (`HandleNull`, `ReadMalformed`).  Other lines that
  are not understood are skipped by the code, and left out.
- A request may be handled after the time limit has stopped the session.  Its
  answer takes `manager`, which is nil by then; only a mining.configure that is not
  answered (`Unanswered`) goes by without a panic.
- A session may be stopped by its client between the acceptance and the result,
  so a goroutine that read an acceptance may end as a failure.
- Other observations: a resumed session of the EthereumProxy protocol becomes
  an EthereumStratum one, so it answers with JSON-RPC 1 instead of 2; the comment "copy an object" at line 839 stands beside a copy of a
  pointer; the connection that a failed attempt has dialled stays open.

### AuxPow, AuxJobMaker and AuxSubmission

`AuxPow` keeps the shape of the arithmetic and shrinks its width: integers modulo
`2^Width`, targets of `Bytes` digits in base `Base`.  The constants of the random
generator are the code's, reduced to the width, which keeps their low bits,
those that decide a slot.  A hash of two hashes is their pair, so that two different trees
never have the same root.  `RootOf` is what a node of a chain computes from a
branch: the reference that branches are compared with.  Shifts are
multiplications by a `Power` and repeated halvings (`Halvings`), recursive
functions on the naturals, which the proofs can use.  `SideMask` is the loop of
`ExpandingBlockchainBranch` that pushes one bit per hash into the mask.

State of `AuxJobMaker`: `updater`, the goroutine of each chain with the block in
hand; `publisher`; `currentAuxBlocks`, `chainSlots`, `auxPowJobs` and
`auxPowJobIndex` as in the struct; `request`, the createauxblock of each client.
The lock is seen held only while `updateAuxBlock` sends on the unbuffered channel
(`LockFree`).  A node's successive replies are a constant, and a restart of the
process forgets everything but those.

A block is announced in three steps.  Its goroutine stores it and takes the lock;
the publisher receives its hash (`Receive`), which lets go of the lock; and the
publisher sends it on its socket (`Publish`), whose errors are dropped.  Between
the last two the hash is `inHand`, and a job of the block may already be handed out.
`OneHashAhead` says that this is all by which jobs run ahead.

What the node of a chain answers is a constant (`Replies`) and comes as the code
reads it: with an ID of 32 bits, with bits, a target or both.  That bits and target belong
together when a node gives both is an assumption about the nodes; the code does
not compare them.

State of `AuxSubmission`: the goroutines of `submitAuxBlock` with their chain and
branch, the rows of the database per block, and what the chains have accepted.  The call
may be lost before or after the node has acted; the error of `RPCCall` is not
looked at, so a lost response counts as a success, as in the code.  So does a
response whose error is null and whose result is false ("refused"), which is how some nodes
answer a duplicate.  Neither is an error for `InsertAuxBlock`, and the
UPDATE writes either over a row of the same block: an acceptance that was
recorded can be replaced by both.  What does hold is `AcceptanceOverErrors`.
The tables are made outside of this repository; whether one refuses a second row
of a block is the constant `Keyed`, and both kinds are checked.  An INSERT that
fails for another reason is taken to fail together with its UPDATE.  Jobs are a
constant here; `JobAssumption` asks of them that branches lead to the root and
`HashAssumption` that no two chains share the hash of a block, which
`JobsAreSubmittable` proves of those that `AuxJobMaker` makes.  `OuterAssumption`
asks that a branch of a job and the one it is joined to have no more hashes than
a mask has bits.  Not modelled:
the query for the columns of a table failing.

Observations: the configuration file in the documentation has no `BlockHashPublishPort`,
the publisher then returns and the first announcement holds the lock for ever;
a reply of a node with both an error and a result is stored as a block, which makes it one
of the `Replies`;
`README` says that the height of a block is only for logging, while it decides on
announcements; a hash found in the little-endian form is compared reversed; with
equal chain IDs the size overflows to 0, the panic is recovered, and every
createauxblock fails until a block with another ID comes; a list size of 0
evicts every job at once.

### UserList and SwitcherAPI

State of `UserList`: the website's list per coin, the goroutine that imports it,
the lists that are served with the ID of each user, the update times as ages, and the
cached answers.  The merged list is keyed by the ID, like that of a coin: of two
users with the same ID in different coins it has the one who was added last
(`Put`).  State of `SwitcherAPI`: the
coin the website wants for each user, and since when; the requests in progress,
with the entries still to do; the goroutines that write later; the sleep of the
cron job and `lastRequestDate`.

- Times are ages that grow up to `Cap`, beyond every comparison, so that the
  clock of a finite model runs on.  `Latency` bounds a request.  A pull that
  fails puts off the next one by an interval, so `BudgetAssumption` asks for a `Cap`
  beyond the intervals that the faults of a world can lose.
- `CoinFollowsList` looks at a user whose wish is older than two intervals, two
  requests and the safety period, and only when neither a restart nor a failed
  pull was within an interval, a request and the safety period.  A wish that met
  an error of ZooKeeper itself is in `failed`: it is only logged.  The property
  needs an interval of at least the safety period and a request, as the defaults have (60 s and
  15 s).
- Observations: the delay applies to any user that is not in the list of the new
  coin, not only to one just created (comment at `HTTPAPI.go:482`); the answer is success before a
  delayed write; a request for several users stops at its first error; users
  listed after one with a higher ID are skipped for good; in case-insensitive mode
  names are lowered before the update times are looked up.

### ChainSwitcher

State: `currentChainName` and `updateTime`, which the three goroutines share
without a lock; per goroutine its step, what is left of its sleep, and the name
it has chosen or read; the last command in Kafka.  A Go string has two words,
written and read one after the other, so that `Words` may be torn between two
names.  `updateTime` is an age.  `failSafe` reads the clock before it switches
and stores that reading afterwards: `Stamp` sets the age to the time it took.

`IntervalAssumption` asks for a fail-safe interval that leaves the API an
update interval, two iterations of the update loop and one of `failSafe` itself.
With less, each fail-safe switch can set `updateTime` back far enough for the
next one to follow, and a working API never wins for good.

Whether a limited chain is at its limit is a choice of the world (`full`).  In the code a
failed query counts as at the limit, and one without recent shares as a hashrate of 0,
which is below it.

Not modelled: the command IDs, whose increment is not synchronised; the text of
the records; an empty `FailSafeChain`; a server that comes online before the
first update is sent the empty name, which the model includes.

## Runs

| Run | Configuration | Result |
|---|---|---|
| `session_ids` | 5 connections, 4 indices, 2 server IDs, no interval | passes |
| `session_ids_interval` | 3 connections, 4 indices, interval 2 | `UniqueIDs` violated |
| `zk_watch` | 2 paths, 2 sessions, 2 values, 3 channel objects | passes |
| `session_stops` | both copiers; the server and the client may each close once | passes |
| `session_switches` | upstream copier; 2 coin changes, 2 attempts per reconnection, the client may close | passes |
| `session_starts` | one known user with any requests, or three sessions of an unknown user; 2 attempts, 1 reconnection, 1 failure of ZooKeeper | passes |
| `aux_jobs` | 2 chains, 4 replies, 2 clients, a job list of 2, 1 restart | passes |
| `aux_submissions` | 2 jobs that share a block, 2 chains, 1 restart, 1 failure of the database | passes |
| `user_coins` | 2 users, 2 coins; up to 2 switches, 2 registrations, 1 fault, 2 queries | passes |
| `chain_switcher` | 2 chains, one limited; 1 event | passes |
| `session_wrong_coin` | 1 coin change and 1 loss of the server | `MiningCoinIsMined` violated |
| `session_stale` | 1 coin change, the client may close | `ReleasedIsUnregistered` violated |

**session_ids.**  One connection more than there are indices fills the pool; 4
indices with the pointer starting at 2 make it wrap; an even and an odd server
ID make an unmasked pointer visible in the ID.  Upgrades are not bounded.

**session_ids_interval.**  Ethereum allocates every 256th index.  The instance
scales 65536 indices with interval 256 to 4 with interval 2.  `ResumeSessionID`
(line 128) adds the interval without the mask.  When the highest saved index is
within one interval of the end, the next allocation tests a bit beyond the
mask, finds it clear and gives out an ID whose index belongs to a live session.

**zk_watch.**  The registry has no bounds but the sets of the configuration.
`StaleIsWoken` assumes that a `NodeWatcher` whose event has come gets to run,
which takes only a lock that every method releases.

**session_stops.**  Six goroutines of two generations, the coin watchers
included, and the stoppers.  One loss of the server allows one reconnection, so
`MaxReconnects = 2` is never the limit: a second reconnection is one that the
properties forbid.  `HealthyConnKept` and `StopJustified` are the reason for
`reconnectCounter`; without the comparison in `StillCurrent` both fail.

**session_switches.**  Two changes among three coins, one of which has no server,
with `GetW` and connection attempts that may fail.  The servers keep their
connections: with one more loss `CoinFollowed` is false, which is what
`session_wrong_coin` shows.  One copier is enough here, since the races of two
copiers are those of `session_stops`; the upstream one is the copier that
goes on after a reconnection.

`StopJustified` accepts three reasons for a stop: the client is gone; the session is
reconnecting, which it leaves towards a stop when no server was reached; or it is a BTCAgent's, and
its server is gone or its coin has changed.

`FollowsAtRest` is the safety side of the same promise: when nothing is left to do,
the connection is the one of the coin in ZooKeeper.  It covers the case of a watcher
of an earlier generation whose `GetW` replaces the channel of the present one
without closing it (`ZookeeperManager.go:145`): somebody might then wait for ever on
a channel that is not registered.  While the servers keep their connections that
does not happen.

**session_wrong_coin.**  A watcher reads the new coin, the server's connection
fails and a copier reconnects to the old coin; then the watcher writes
`miningCoin` (line 1410), gets the lock and gives up because of the counter.
The watcher of the new generation finds the new coin equal to `miningCoin`.
Everything is then at rest (`Settled`) and the session mines the old coin.  The loss
of a server has another consequence, seen in the same model.  The watcher of the
old generation and that of the new one may wake from the same change.  Both call
`GetW`, and the second call replaces the channel of the first; if the new
generation's call was the first, its watcher goes on to wait on a channel that no later
change closes.

**session_stale.**  The client goes and a copier sends a goroutine to `Stop`;
before it runs, the watcher reconnects the session.  `proxyStratum` of the new
generation passes its check, `Stop` releases the session, and
`RegisterStratumSession` puts it back.

**session_starts.**  The known user's client sends subscribe, authorize, login
and configure in any order, with the three kinds of agents, so that every branch
of `stratumHandleRequest` for Ethereum is taken; configure is for Bitcoin
only, and ignored there.  Three sessions of one unknown user compete for one
place: one creates the node, one finds it, one is refused, or two pass the test
at once.  Two attempts and one reconnection are what a late goroutine needs to
read another attempt's responses, and `conns` has room for all attempts.  The
default coin has no server, so that a registration may also end in a stop.
A server answers in either order, or with a malformed line first or second.
`PanicHasCause` excepts exactly two causes, a malformed line that is about to be
read and a goroutine that has outlived a time limit; with requests handled out of
order (`HandleUnordered`) there would be a third.

**aux_jobs.**  The second chain's IDs differ from the first's in the lowest bit,
in the next one, and not at all: a tree of two, of four, and none.  There are replies
with bits and with a target, with a height and without, and targets on both sides
of the limit of the sign bit.  Two clients are enough for two requests to
make the same job; a list of two evicts.  With 4 bits and base 4 all widths of a
target and of a slot occur.

**aux_submissions.**  The shared block is submitted twice, and either submission
may reach the chain and the database first.  One chain's table refuses a second
row, the other's does not.  Work stands directly on the root
of a job or below another branch.  The type invariant is not checked here but
proved (`TypesCorrect`).  `AcceptanceOverErrors` is as much
as the code guarantees.  The log line at `DbConnection.go:78` says that a response is
replaced "because auxblock submited successfully", but that an acceptance stays once it
is recorded is false: a block is accepted and recorded; its duplicate is refused
with a result of false and no error, or the response is lost; the INSERT fails,
`IsSubmitSuccess` is true, and the UPDATE replaces the acceptance.

**user_coins.**  Three kinds of worlds (`MCBudgets`): one user who switches twice
while the import, a restart or an error interferes; two users who switch in
one request; and two users listed for two coins, with an ID that both lists have, while the
lists are asked for.
With an interval of 2, a latency of 1 and a safety period of 1, `Cap` is 8 and the
horizon of `CoinFollowsList` is 7.

**chain_switcher.**  The API answers one list whose first coin is unknown and
whose second is limited, so that three worlds differ in what is wanted.  The
world may change any number of times before it settles; one event is a command
lost, an end of the process, or a server that comes online.

Deadlock is not checked in the session runs, where a stopped session has ended;
in `aux_jobs`, where the failed publisher stops everything; and in
`aux_submissions`, which has a bounded number of submissions.

### Fairness

`StratumSession!Fairness` says that as long as some goroutine of `Progress` can
run, one does.  `Progress` leaves out what the code does not force: the upstream
copier notices the loss of its server only when the client sends something, and
whether a connection attempt succeeds is open (both outcomes are bounded by
time limits, so that one of them happens).  Strong fairness for `GetW` says that
ZooKeeper does not fail a watcher for ever, which is an assumption about the
environment: the watcher tries again every few seconds.

`SessionStart!Spec`: the registration service runs; its waits are calls that end.
`AuxJobMaker!Fairness`: goroutines run, nodes answer, and Go's mutex does not
starve a waiter, which makes the fairness of steps that need the lock strong.
`ChainSwitcher!Spec`: each goroutine runs, and time passes.  A request to the API
has no time limit in the code (`http.DefaultClient`); that it ends is an
assumption about the network.  `SwitcherAPI` has no liveness property: what must
eventually happen has a deadline there, which makes it an invariant.

## Proofs

TLAPS checks all of these for every value of the constants.

`SessionIDManager_proofs`.  `Inv` joins `TypeOK`, `UniqueIDs`, `NoLeak` and
`ResumeFindsFree`: uniqueness of a new index rests on the bitset being exact,
exactness of the count on uniqueness, and an upgrade on the saved indices being
distinct.  Finite sets come in because the pool is searched only when the count
is at most the mask, so that a clear bit exists.  The step theorem holds as long
as the pointer stays in range (`InRange`): `SafeInRange` and, for the action
property that every ID handed out carries the server ID of its process,
`ServerIDInRange`, and for the refinement of `SessionIDPool`,
`ManagerImplementsPoolInRange`; in `ServerIDInRange` the pointer in range is what keeps the OR of server ID
and index from changing the server ID.  Without an interval
the pointer always is in range, which gives `TypesWithoutInterval`,
`UniqueWithoutInterval`, `NoLeakWithoutInterval`, `ResumeWithoutInterval`,
`ServerIDWithoutInterval` and the refinement `ManagerImplementsPool`.  With an
interval `session_ids_interval` shows that it does not.

`ZookeeperManager_proofs`.  `NoLostUpdate` is not inductive: it needs that a
registered session was handed the value its watcher keeps, that this value is
the node's as long as the watch is armed, and that there is one watch per
watcher.  `TypesCorrect`, `NoUpdateIsLost`, `ChannelsNeverPanic` and
`WatchesDoNotPileUp` follow from that invariant.

`StratumSession_proofs`.  The invariant has a part per safety property.
`StopOnce`: once a goroutine is through the check of `Stop` the session is
stopped for good, so no second one gets through, and `FreedOnce` follows.
`CounterTellsConn`: a copier whose counter is the current one copies the current
connection.  That is not inductive without `LockHeld`, which says that a running
session has the connection of its generation, nor without the strict comparison
while the lock is held: a copier takes the counter under the lock, so none has
the new one before the new connection is there.  `PanicIsFinal` keeps goroutines
from acting after the process has ended.  `HealthyKept` looks at the two places
where a reconnection begins (`ReconnectionStarts`).  These theorems hold for any
number of reconnections, attempts and events.

The same module proves `RunningRegistered`: a session leaves the manager's map
when a reconnection succeeds, and its generation has not got through
`proxyStratum` then, or when it is released, by the one goroutine that `StopOnce`
lets through.

`Typed` adds the coins (`CoinInv`), followed from the node through the channels and
the watchers to `miningCoin`; `SameCoin`, that until the first change everybody
sees the same coin, is what `StoppedForAReason` takes from it.  `StoppedForAReason` is
an action property, and its reason lies in the past: between the decision to
stop and `Stop` itself other goroutines run.  `Explained` says that while a
goroutine is on its way to `Stop` the reason is still there, because a stopper
is started only where the client is gone, by a reconnection that has given up, or,
for an agent, which has no reconnection, by the loss of the server or a coin
change.  `NilWasMet` covers the copiers that met a nil connection: while the
session runs, such a copier is of an earlier generation, and the comparison of
the counters turns it away.

The session uses the ZooKeeper manager's module as an instance, `ZK`.
`SessionImplementsRegistry` shows that whatever its goroutines do, they do to the
registry what `GetW`, `ReleaseW` and the `NodeWatcher` do, so that the invariant of
`ZookeeperManager_proofs` holds in the composition (`RegistryInSession`).  On it rests
`SettledFollows`, that a session at rest is on the server of its coin.  The chain of
argument is: the connection is the one of `miningCoin` (`ConnFits`); `miningCoin` is
what was handed out with the channel the current watcher waits on, or the watcher
has a newer value in hand (`KnownWhenNeeded`); and that channel is registered, so
its value is the node's, or it has been closed, and then the session is not at
rest (`ChannelsHeard`, `NoLostUpdate`).  `OnlyCurrent` says that goroutines of earlier
generations have no part in this.  All four need `ServerKept`: when a server closes
its connection, a reconnection from a copier begins a new generation while the
watcher of the old one is still between `GetW` and `switchCoinType`, and the
property is false, which is what `session_wrong_coin` shows.  While the servers keep
their connections only watchers reconnect, and one that replaces a channel has closed
or heard the one before.

`SessionStart_proofs`.  That a session proxies only for a server that accepted it
needs to know which responses a goroutine may still read.  `ReaderFits` ties a
goroutine that reads responses to the attempt that started it: it is the current
attempt, unless a time limit was reached, and its result is for the current
attempt only.  `Consistent` numbers the connections by reconnections and
attempts, so that a later attempt never has the number of an earlier one.
`RunningAccepted` and `PanicsForACause` follow; `QuotaIsConserved` adds that a
session holds a place exactly between its test and the end of its wait.

`ResumesAsBefore` is about the two requests that are saved for an upgrade.
`SavedFits` says, for each step of the handshake, which of a session's fields are
those that its saved requests make of a new session: after the first request the
kind of client and the protocol (`SubscribeFits`), after the second the name as
well (`AuthorizeFits`).  It is kept by every request in every order, an
`eth_submitLogin` that stands for both included.  What is restored is the kind of
client, the name, the version mask and the response that is expected, and the protocol and the JSON-RPC
version save for EthereumProxy.  `Typed` adds the types of names,
coins, connections and registration nodes (`Fields`, `NodesFit`).

`AuxPow_proofs`.  The library's induction theorems take an operator, which the
provers cannot instantiate.  Induction here is over a set of naturals with 0 and
the successor of each of its elements (`SetInduction`), which follows from
`NatLessThanWellFounded`; that a recursive function exists, from a solution on
every beginning of the naturals (`Recursion`).  So the recursive functions of
`AuxPow` can be reasoned about for every argument.

- `PathLeads`: the root of a tree of any height is reached from each leaf by the
  path that `MerklePathForLeaf` takes; `PathMask`: the bits of that path are the
  slot, so the mask is the slot.
- `RootOfExpanded`: a branch expanded by a path leads where it leads from the end
  of the path.  The mask is one number for both; the proof takes its bits
  apart (`ExpandedBits`) and needs that it has room for both.
- `ConflictForAll`: the size of a tree divides the modulus, so a slot is the sum
  of a part of the nonce and a part of the ID, and two IDs conflict for every nonce or
  for none.  The five retries of `assignChainSlots` with new nonces can never
  succeed.
- `BigToCompactMatches`: for any base and number of digits, with and without the
  bit of the sign.

All of this holds for `Width` = 32, `Base` = 256 and `Bytes` = 32, which TLC cannot
enumerate.

`AuxJobMaker_proofs`.  `AheadByOne` is not inductive: a block is stored before
its hash is on its way.  `CurrentIsCovered` says that such a block was announced, or is
in the hands of the publisher, or in those of the goroutine that is sending it to the
publisher, which holds the lock, so that no job is made meanwhile.  `IndexMatches` needs that the index has no root twice; otherwise
dropping the oldest root would leave one without a job.  `TypesCorrect` includes
that only one goroutine holds the lock over a channel send.  `WorkLeads` and
`TreeIsSmallest` need `SlotsAreCurrent`: slots that are kept from an earlier job
are those that `assignChainSlots` gives for the IDs of the blocks of now, because a
block with another ID drops them (`StoreWork`).  A job with such slots is right by
the lemmas above (`MakeJobVerifies`, `MakeJobSmallest`), and for its target
(`MakeJobBits`, `BitsFollowTarget`) by the fact that bits and target of every block
belong together (`BlockBits`).
`JobsAreSubmittable` joins this module to the next: every job that is made satisfies
`Submittable`, and any set of such jobs satisfies `JobAssumption` and `HashAssumption`
of `AuxSubmission`, also when they come from several runs of the process.  That
blocks of different chains have different hashes is how `BlockOf` models the replies of
the nodes.

`AuxSubmission_proofs`.  `ErrorsYield` rests on the two ways in which the rows of a
block change (`RowsChange`): an INSERT adds a row and takes none away, and an UPDATE
writes a response that is no error.  It needs nothing of the tables, so it holds whichever
of them refuse a second row.  `SubmittedLeads` is
`RootOfExpanded` for the branch of a job and the branch of the miner.

`SwitcherAPI_proofs`.  `CachesAreCurrent`: a list changes only when a user enters
it, or takes the place of another with the same ID, which clears the caches of its coin
and of the merged list (`AddUserInv`); an answer depends on the list and the last ID only
(`SameList`).

`SwitchTakesEffect` proves the deadline under `InOrder`: a request and the safety
period are no longer than the interval of the cron job.  The code does not compare the
two settings; the defaults are 15 s and 60 s.  Without `InOrder` the property is
false: with a safety period of 3, an interval of 2 and a latency of 1 TLC finds
a delayed write of an earlier wish that comes after the write of the later one.
The invariant follows a wish to the node.  A wish is `Settled` when the last pull
was more than an interval after it, so that no later pull takes it up again.
`Arrival` says that it is then in the node, or among what the cron job has still
to do, or in the hands of a goroutine that writes later, and that the time these have
left ends before the deadline (`Due`).  `CronOnTime` ties the last pull to the
sleep of the cron job, so that a wish is settled in time.  `Old` says that a
request with an earlier wish of the user began before the present one, and that
the writes it delays come within `Latency + SafetyPeriod` of it; under `InOrder`
none is left when the present wish is settled (`NoneOlder`).  `Budgeted` bounds how far
failed pulls can put off the next one, and is what `BudgetAssumption` is for: `Typed`
needs it to show that the date of the last pull stays below `Cap`.

### Assumptions

Assumptions on constants are in the modules, next to the constants, and TLC
evaluates them in every run.  The proofs use no more than these.  Apart from
finiteness, ranges, and special values being different from others they are:

- `JobAssumption`, `HashAssumption` (`AuxSubmission`): branches of jobs lead to
  their roots, and blocks of two chains have different hashes.  `JobsAreSubmittable`
  proves both of the jobs that `AuxJobMaker` makes.
- `OuterAssumption` (`AuxSubmission`): a mask has room for both branches.
- `ReplyAssumption` (`AuxJobMaker`): a node answers with bits or a target, which
  `config` demands, and with both only when they belong together.
- `BudgetAssumption` (`SwitcherAPI`): the cap of the ages is beyond every comparison.
- `RequestAssumption`, `StartAssumption` (`SessionStart`): requests have names where
  the protocol has them, and nodes hold coins.
- `IntervalAssumption` (`ChainSwitcher`): see above; no theorem uses it.

### Checked by TLC only

- The liveness properties (`StaleIsWoken`, those of `StratumSession` and
  `SessionStart`, `RequestsAnswered`, `TasksFollowBlocks`, `ChainSettles`): the
  prover does not reason about fairness and ENABLED.
- `TypeOK` of `ChainSwitcher`, whose other property is one of liveness.

## Not modelled

The `components` of `PROJECT.json` give the reason for each part.  Third-party
code under `vendor/`, configuration files, formatting and logging are left out
for good.  Of the modelled components the following is left out:

- `AssignServerIDFromZK`: a search through ZooKeeper at the start of a process.
- Two sessions of one sub-account over one ZooKeeper manager and one ID manager.
- The upgrade's own sequence (save, close ZooKeeper, exec) and its failures, of
  which the operating system decides.
- The bytes that copiers move, and with them the order of chunks of two copiers.
- The coinbase handlers of the switcher API: each waits for an acknowledgement
  in a node and may take that of another request; they keep no state.
- The index of names in case-insensitive mode, and reads of shared maps without a
  lock in `FindAuxJob` and `getUserUpdateTime`: what they return is undefined.

## Plan

What would come next, in this order:

1. Several sessions over one ID manager and one ZooKeeper manager: a freed ID
   taken again before its watch is released.
2. `AssignServerIDFromZK` with several switchers.
3. The coinbase handlers.
4. A register per sub-account as the abstract specification of the switcher API.
5. Proofs: the type invariant of `ChainSwitcher`; `AuxJobMaker` and `AuxSubmission`
   as one specification, of which `JobsAreSubmittable` is the step between the two.
