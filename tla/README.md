# polkadot-worker in TLA+

TLA+ modules that model the parts of polkadot-worker whose correctness rests on
what several goroutines, several nodes and time do to each other; TLC runs that
check them on small instances; and proofs, checked by TLAPS, of the main results
for instances of any size.

## 1. The system

polkadot-worker reads blocks, transactions and accounts from polkadot nodes over
websockets, has them decoded by a gRPC service (polkadothub-proxy), maps them to
a common format, stores them over HTTP and reports to indexer managers, which
give it tasks over a gRPC stream. `cmd/polkadot-live` is a second program with
only the account query behind an HTTP handler, and `cmd/data-migration` a third,
run by hand, that adds the numbers of extrinsics to rows already stored. Each has
its own connections, caches and decoders. `RespChannels` puts the queries of the
first two side by side on one pool, which allows more than either program does.

| component | source | state it keeps | operations |
|---|---|---|---|
| RPC connection layer | `api/api.go` | the unbuffered channel `Requests`; per node and incarnation of `run`: `responseMap`, `nextMessageID`, `done`; per process: `status`, `statusEvenOne`, `resetConnections` | `Send`, `Run`, `run`, `recv`, `timeoutChecker` |
| health check | `api/api.go`, both `main.go` | `unHealthyRequests`, its own response channel | `HealthCheck`, `handleWSHealthcheckResponse` |
| response channel pool | `indexer/pool.go` | a bounded stock of response channels | `Get`, `Put` |
| account queries | `indexer/account.go` | one response channel per query | `GetAccount`, `getAccountData`, `cleanupTimeoutedCh` |
| block queries | `indexer/getBlock.go` | one response channel per query | `blockAndTx`, `getLatestHeight`, `GetBlockHashes`, `getOthers`, `GetMetadata` |
| block hash cache | `indexer/getBlock.go`, `client.go` | an LRU cache of 3000 hashes | lookups and `Add` in `GetBlockHashes`, `getLatestHeight` |
| task stream client | `indexer/client.go` | the streams | `RegisterStream`, `Run`, `GetTransactions`, `GetLatestMark`, `GetAccountBalance`, `BlockAndTx` |
| gRPC connection pool | `proxy/conns.go` | a round-robin counter | `Add`, `GetNext...` |
| proxy client | `proxy/client.go` | none | one rate-limited gRPC call each |
| mappers | `mapper/` | none | protobuf to the common format: `TransactionsMapper`, `getEvent`, `BlockMapper`, `AccountBalanceMapper` |
| SCALE decoding | `api/scale/` | decoders by spec version | `GetMDecoder`, `SetMetadataDecoder`, `GetExtrinsic` |
| HTTP transport | `transport/http/` | none | `GetAccount` |
| data migration | `cmd/data-migration/` | the rows it updates; nothing of how far it came | `getTransaction`, one height after the other |

A query (a task of a stream, or an HTTP request) takes a response channel from
the pool, calls `Conn.Send` once or several times with it, and reads as many
answers. `Send` hands the request to whichever node's `run` is in its `select`;
`run` numbers, stores and writes it. The answer is put on the channel by `recv`
(the node's reply), by `timeoutChecker` (too late), by the drain at the end of
`run` (connection lost) or by `run` itself (the request cannot be encoded). An
answer says nothing about the query it is for.

### What is hard, and what makes each part correct

* **Connection layer.** Three goroutines and two error paths compete to answer
  one request; connections come and go, numbers start again at 0, requests are
  accepted by connections that are already dead, and three of the goroutines
  wait on channels with a lock held. Correct means: one answer per accepted
  request, the right one, always, and no goroutine ever stuck.
* **Response channels.** They are reused and closed. Correct means that no
  channel changes hands, or is closed, while an answer is on its way to it.
* **Block hash cache.** Shared by 40 or more workers, filled by nodes that are
  not in step. Correct means that what it gives does not depend on who filled it.
* **Health check.** Unanswered checks shift all later answers. Correct means: the
  process ends when nodes are silent, not when they are well, and old answers do
  not fill the channel.
* **Task stream.** Correct means: a task gets one final response, and a height is
  reported only when it is stored.
* **Building a block.** Seven answers in any order, some of them errors that are
  dropped, metadata that several queries look up and store at once, runtime
  upgrades, and a second opinion (the proxy's) of what the block contains. Correct
  means: each transaction under the number of its own extrinsic, and what was not
  understood left out, not made up.
* **Migration.** Not restartable by design, but restarted. Correct means: no row
  gets a number that is not its own, wherever a run stops, and a rerun can finish.

`PROJECT.json` lists the hazards one by one, at their lines.

## 2. Modules

| module | models | written from |
|---|---|---|
| `RpcService` | what callers of `Conn.Send` may rely on (abstract) | `api/api.go` |
| `RpcConn` | the connection layer, goroutine by goroutine | `api/api.go` |
| `RpcConnProofs` | theorems about `RpcConn` | |
| `RespChannels` | the channel pool and the queries that use it, over `RpcService`'s promise | `indexer/pool.go`, `account.go`, `getBlock.go`, `client.go` |
| `RespChannelsProofs` | theorems about `RespChannels` | |
| `BlockHashes` | the hash cache | `indexer/getBlock.go` |
| `BlockHashesProofs` | theorems about `BlockHashes` | |
| `TaskStream` | streams, goroutines, task handlers, `BlockAndTx` and the store | `indexer/client.go` |
| `TaskStreamProofs` | theorems about `TaskStream` | |
| `HealthCheck` | the health check in units of its tick | `api/api.go`, `main.go` |
| `HealthCheckProofs` | theorems about `HealthCheck` | |
| `EventMapper` | from the data and description of an event to amounts and parties (operators) | `mapper/event_mapper.go` |
| `EventMapperProofs` | theorem about `EventMapper` for events of any length | |
| `Pairing` | from the proxy's transactions to numbers of extrinsics (operators) | `mapper/transaction_mapper.go`, `indexer/getBlock.go` |
| `BlockBuild` | block and balance queries from answers to result; decoder storage; round robin over the proxies. Uses the two above | `indexer/getBlock.go`, `api/scale/scale.go`, `proxy/` |
| `BlockBuildProofs` | theorems about `BlockBuild` | |
| `Migration` | the data migration and its reruns. Uses `Pairing` | `cmd/data-migration/` |
| `MigrationProofs` | theorems about `Migration` | |
| `MC*` | instances for TLC | |

Operators called *mutant* in a module are plausible bugs of the operator below
them. The specification does not use them; they document what each property is
able to detect, and `PROJECT.json` ("mutants") pairs them with the properties.

### RpcConn

One program counter per goroutine: `run[n]` covers `run` and, in the states
`ended`, `dial` and `gone`, its parent `Run`; `recv[n]` and `checker[n]` follow
theirs. The lock `L` is not a variable: it is held exactly in `recv = "holding"`,
`checker = "holding"` and `run = "draining"` (`LockFree`). An action is what
happens between two points at which another goroutine can be noticed: a lock
taken, a channel operation, a network operation.

* `hand[n]` is the request `run` has taken from `Requests` and not yet stored or
  written, `wire[n]` what has been written and not answered, `reply[n]` the reply
  `recv` has read. Nodes answer in any order, late, unreadably or never. Replies
  with a number the connection never gave out are ignored by the code and left
  out.
* `Put` is the blocking send on a response channel: no room, no step. Only `recv`
  gives up, after 5 s (`RecvGivesUp`).
* Time is `aged[n]`: entries numbered below it are older than `connTimeout`.
  Numbers are given out in order of time, so this is all `timeoutChecker` sees.
* `call[r]` and `answers[r]` follow a request on the caller's side. Callers are
  the code of package `indexer`: one goroutine per channel, sends first, reads
  afterwards, at most `MaxInFlight` requests before it reads (7 in `getOthers`,
  against a capacity of 20).
* `DrainEnd` also ends `recv` and `timeoutChecker` of this incarnation: they may
  in fact live on for a moment, with the drained map, on which they do nothing.
* `statusEvenOne` is a variable. The map `status` is read by nothing but
  `HealthCheck` and is left out here. Data races on `resetConnections` are left
  out (see the hazards).

`RpcService` has a phase per request and a flag `open`; `ImplementsService` maps
`phase` to `call` and `answers`, and `open` to `statusEvenOne`. It is the contract
the other modules use: after the first success no `Send` fails, and each accepted
request is answered once.

### RespChannels

A query is a sequence of steps (`head`, `header`, `hashes`, `version` or `others`,
`metadata`, `data`), each with a number of requests still to send (`todo`), of
answers still to read (`due`) and a `verdict`. Answers are `ok`, `error`, or `empty`
(no result, which is what the code makes of a JSON-RPC error object). `out` is what
the connection layer owes. What an answer says is not modelled, who it was for is.
All differences between the reading loops are in `DueAfter`, `VerdictAfter` and
`Panics`: `GetBlockHashes` reads everything and then fails; `getOthers` forgets
errors and waits for an eighth answer when the seventh is one; single answers are
looked at one by one. Time is one clock per channel, since its last request, with
`StepTimeout` < `AnsweredBy` < `CleanupTimeout` (30 s, 40 or 70 s, 10 min in the
code): `GetAccount` gives up, `timeoutChecker` answers, `cleanupTimeoutedCh` gives up.

### BlockHashes

Hashes are heights, or `Null` for the inside of the JSON word `null`. A query is
its three lookups, one step each, then its answers in any order, each from any
node; `getLatestHeight` is `Head`, `Header`. A full cache loses any entry.

### TaskStream

`worker[g]` is where a goroutine of `Run` is, `at[t]` how far the handler of a task
has come, `call[t][h]` how far `BlockAndTx` for one height of a range. A call of
`Send` is recorded in `responses`, whether or not it gets through: the handlers only
log its error. Payloads are reduced to the type, whether they can be read, and the
heights; a range that starts above its end is an empty one. The range requester is
a library: it calls `BlockAndTx` for the heights of a range concurrently, and is
given up when the context ends (`RangeAbandoned`), in which case the calls in
progress may go on. Store calls fail with or without having had their effect.

A query may hang, and nothing is assumed of the connections that would exclude it.
`conn.Send` (`api.go:165`) is a send on an unbuffered channel: once some node has been
connected, and none is any more, it blocks without a timeout, and the context of the
task does not end it. `GetLatestMark` calls it in its own goroutine (`LatestHangs`), and
`BlockAndTx` in a goroutine of the range requester (`FetchHangs`, which also stands for
the wait of `getOthers` that `RespChannels` shows). A call that hangs for a while is a
slow `LatestHeight` or `Fetch`; one that hangs for good is where `Hangs` applies. If
connections always came back in the end, as `RespChannels` assumes, only the wait of
`getOthers` would be left.

### HealthCheck

Time passes in ticks of 10 s (`Pass`), and only while the check waits.
`asked` holds the requests nodes owe an answer for, with their age, `ch` the
answers not read. Connections come (`Connect`) and go: the loop of `run` ends
(`LoopEnds`), its drain answers what the connection owes, one request at a time
(`Drain`), and then `Run` takes it off line (`Lose`). Until then `HealthCheck` still
finds it on line, but nobody takes a request for it. `ending` is the connection
between the two; there is one at a time, because drains of different connections
commute. `silent` nodes, chosen at the start, never reply. A request may also be left
waiting while nodes are on line, because their `run` is blocked (the case that the comment at
`api.go:124` names); after `Patience` the process ends. `Settle` starts a time when
all is well, in which requests are taken and answered at once. Steps of the drain take no time: `BacklogBounded` is the reason, since
there is always room for what they send.

### EventMapper and Pairing

Both are operators only; recursion over a sequence is a function on its indices.
In `EventMapper` a datum is its position, its kind (`AccountId`, `AccountIndex`,
`Balance` or another) and whether its value is a number, a text or empty; a name of
the description is the case of the switch that it falls under. `status` is how the
parse ends: `ok`, `error` (the whole block is lost) or `panic` (`[]rune(val)[0]` of
an empty value). The signer that `handleError` adds is left out. The second half of
the module says without loops what the loops should come to (`MapsRight`). The two loops
are one function, `Gathered`, whose rounds are those of the first loop up to the end of
the description and then those of the second.

In `Pairing` an extrinsic's hash is its position in the block. The worker's own
decoder has the hash of signed extrinsics only, so unsigned ones, the timestamp of
every block among them, are found by their place: the k-th transaction of the proxy
is taken for the k-th extrinsic if the module agrees. `NoID` is a transaction whose
events were not given a number, `Zero` one that was not filled in at all.

### BlockBuild

A query is at one place at a time: `others` (reading the seven answers), `lookup`
and `fetch` (the metadata), `decode` (its own decoding), `proxy`. `base` is the block
whose state gives version and metadata; it is the grandparent, or the parent that
stands in for it or that the cache gives (see the findings), so an action that
begins a query chooses. `OthersAnswer` has one alternative for a dropped error, and one
per result that makes a difference: `null`, unreadable with nothing or with
everything of use read. With metadata of another runtime than the block's the
decoder may take a module for any other, or fail. `err`, `block` and `named` follow
the variables of `getOthers` literally: the order of answers decides what is left in
`err`. `Listing` is what the proxy answers, and the theorems assume of it what the
code does: all extrinsics, in order, some possibly again (`ListingAssumption`); if the
proxy leaves one out, places no longer agree, and the code has no defence. The
balance query is there because it takes its turn in the round robin.

### Migration

One process, from `From` to `To`, with a failure anywhere: of the database, before or
after the write had its effect, of a node, or a null answer. `Rerun` is the operator,
from the start or from where it stopped. A height has a row for each extrinsic or
none at all. The database returns rows in any order and `Sorted` is the sort by the
index of their first event. `Understood` says that metadata and version are those the
block was executed with; otherwise modules are read as anything.

## 3. Runs

Every property is violated by at least one mutant of the code's definitions.

| run | instance | shows |
|---|---|---|
| `conn_nodes` | 2 nodes, 2 requests of one caller, both in flight, capacity 1 | `AtMostOneAnswer`, `RightAnswer`, `NoEntryOutlivesRun`, `NeverRefusedLater` with connections that fail and are reset independently, even when a channel is too small and goroutines wait with `L` held |
| `conn_live` | 1 node, 3 requests of one caller (2 in flight, capacity 2), one not encodable | `NoRequestLost`, `AnswerersNeverBlock`; under fairness `EveryRequestAnswered` and `ImplementsService` |
| `channels` | one query of each kind, 3 channels, a pool of 1 | `NoCrossTalk`, `NoSendOnClosed`, `PooledIdle`, `OneOwner`, `CountsMatch` |
| `channels_fair` | an account and a block query | `QueriesEnd` |
| `hashes` | 2 queries again and again, 2 nodes, heights 0..2, a cache of 2 | `CacheRight`, `BlockAndParentRight`, `FailureReported` |
| `hashes_grandparent` | the same | **violated**: `GrandparentRight` |
| `hashes_unknown` | the same | **violated**: `UnknownBlockFails` |
| `tasks` | 2 tasks of any kind, 2 goroutines of one stream, ranges 1..2 and 1..1, block 2 without transactions | `ReportedIsStored`, `FinalResponses`, `LeftoverIsFinished`; under fairness `TasksAnswered` and `GoroutinesReturn` |
| `tasks_final` | the same | **violated**: `OneFinalResponse` |
| `health_live` | 2 nodes, timeouts of live | `BacklogBounded`, `OldTroubleOnly`; under fairness `SilenceEndsInExit`, `TroubleForgotten` |
| `blocks` | 2 block queries (heights 1 or 3, and 2), a balance query, 2 proxies, an upgrade executed first in block 3 | `DecoderOfVersion`, `TransactionsRight`, `EvenlyUsed`, `EventsRight` |
| `migration` | heights 2 to 5, an upgrade executed first in block 4, height 3 without rows, 5 failures | `RowsRight`, `FatalHasCause`; if the operator reruns it, `RerunCompletes` |

Why the bounds are enough. Two nodes are what it takes for a request to be at the
wrong one; two requests in flight for a reply to meet the wrong entry; three for
one to wait behind two; nodes reconnect without limit, so numbers are reused
within the instance. A pool of one makes a second `Put` close its channel, and
three queries make it be reused after every kind of end. Height 2 is the first
with a grandparent, and a cache of two entries evicts at the third. In `tasks` two
goroutines are what overlapping ranges, a stream with one goroutine held by a
hanging query, and one with all of them held, take; streams share nothing but the store, so one is enough, and
the theorems are for any number. In `health_live`
the waiting times are those of live (3 ticks, 3 ticks and one of `timeoutChecker`);
the thresholds 10 and 20 are 2 and 4 to keep the instance small. The safety properties
were also tried with the 6 ticks of the worker, where `Backlog = 7` is the least bound
that holds; the code's channel has 10. `TimesAssumption` is that bound for any times:
`Backlog >= ConnTimeout + 4 - Patience`, in ticks, and at least 1.

In `blocks` heights 1 and 3 are the first block, whose grandparent is its parent, and
one with an upgrade between base and parent; block 2 is empty. `Fields` is reduced to
the block and the version, whose order matters, since the other five only count.
`EventsRight` is tried with every event of up to two data and two names, in every case
of the switch, which covers a description that is too short, too long and as long as
the data, and a second recipient or amount. In `migration` five failures suffice to
stop a run at every place of a height and again in the rerun; a block with three
extrinsics has both an unsigned one out of place and a signed one.

With more callers than `MaxInFlight <= ChanCap` allows, the layer can lock up: a
caller waits in `Send` for `run`, `run` for the lock, its holder for room in that
caller's channel. So the limit is what `AnswerersNeverBlock` needs, and what 7 <= 20
in the code gives.

### Fairness

`RpcConn`: weak fairness of what `run` does once it has a request or is leaving,
of `recv` once it has a reply, of `timeoutChecker` and of the passing of time.
Goroutines are scheduled, tickers tick, and a write on a socket ends one way or the
other. Nothing is asked of nodes, of the network (dials may fail for ever), or of
callers. `RespChannels`: queries and cleanups run, time passes, and requests are
answered, which is `RpcService`'s promise, provided a connection comes back so
that `Send` returns. `TaskStream`: `Run` and the calls of `BlockAndTx` go on, but a
latest mark or a call may hang, a stream need never end and a range need never be given
up. No connection is assumed: `TasksAnswered` and `GoroutinesReturn` name what a hanging
query holds (`Hangs`, `HungUp`), and say that everything else goes on.
`Migration`: the program goes on,
and the operator runs it again when it has stopped; failures come to an end.
`HealthCheck`: the check runs and time passes, overdue requests are answered; a loop
that has ended drains. Strong fairness of `Check` and of `LoopEnds` for a connection that
was reset, because other connections that end and come back again and again
interrupt both, but only for as long as a drain takes; strong fairness of `Pass` says
that connections do not come and go for ever in one instant.

### Findings

* `GetBlockHashes` looks the grandparent up under the parent's height
  (`getBlock.go:279`). What it returns depends on what other queries have cached.
* A node that does not know a block answers `null`, and `ul` is returned and cached
  as the hash (`getBlock.go:310-316`), though the code means to fail with "block
  hash is empty".
* `GetLatestMark` sends two final responses for a payload it cannot read: there is no
  `return` after the first (`client.go:259`).

What `RespChannels` shows in passing: a block query whose seventh answer in
`getOthers` is an error waits for ever (`Stuck`), and its channel and worker with it. `TasksAnswered` says what follows: with
all goroutines of a stream held like this, or in `Send`, its tasks are never answered.

## 4. Proofs

`RpcConnProofs` proves, for any finite set of requests and any nodes, channels and
capacities (`ConnAssumption`):

| theorem | statement |
|---|---|
| `TypeCorrect` | `Spec => []TypeOK` |
| `SafetyInvariant` | `Spec => [](TypeOK /\ SafetyInv)` |
| `AtMostOnce`, `RightAnswerHolds`, `DrainComplete` | the invariants of the same name as in the runs |
| `NeverBlocked`, `NothingLost` | `AnswerersNeverBlock` and `NoRequestLost`, assuming `MaxInFlight <= ChanCap` |
| `OpenForGood` | `NeverRefusedLater` |
| `ServiceSafety` | `Spec => Service!SvcSafety`: initial states and steps map to those of `RpcService` |

The properties are not inductive. "Answered at most once" needs to know that an
entry of a map stands for a request without an answer (`OwnerInv`), that no two
entries, of any nodes, stand for the same request (`OwnerInv`), that a reply meets
only the entry it belongs to (`NumbersInv`: numbers below `nextMessageID`, unique,
and fresh for a request not yet stored), and that an incarnation leaves nothing
behind for the next, whose numbers start again (`HandsInv`). `ChanInv` and `CallInv` say
the same of what lies in the channels and of the callers' side. For
`AnswerersNeverBlock` the requests with an answer in a channel, and the one about
to be answered, are different members of `InFlight`, of which there are at most
`MaxInFlight`. `NoRequestLost` holds only under this assumption: otherwise
`RecvGivesUp` drops a request.

Each part of `SafetyInv` has its own preservation lemmas, per action where the
action touches it.

`TaskStreamProofs` proves, for any streams, goroutines, tasks and heights
(`StreamAssumption`):

| theorem | statement |
|---|---|
| `StreamTypes` | `Spec => []TypeOK` |
| `StreamInvariant` | `Spec => []StreamInv` |
| `ReportsTrue`, `HandledOnce`, `AnsweredOnce`, `NoOrphans` | `ReportedIsStored`, `OneHandler`, `FinalResponses`, `NoOrphanTransactions` |

"Reported only when stored" is about the store at the moment a range returns, so it
needs `CallInv`: a call that has stored its block or all of its height has left its
mark in the store, whatever other calls do; and that nothing is ever removed
(`StoreGrows`). "Answered once" needs the number of answers at each stage of a
handler (`AnswerInv`) and that no two goroutines are in the same one (`OneHandler`).

`BlockBuildProofs` proves, for any queries, blocks, versions, events and number of
proxies (the seven assumptions of `BlockBuild`):

| theorem | statement |
|---|---|
| `BuildTypes` | `Spec => []TypeOK` |
| `DecodersRight` | `Spec => []DecoderOfVersion` |
| `ProxiesEvenlyUsed` | `Spec => []EvenlyUsed` |
| `ReturnsRightTransactions` | `Spec => []TransactionsRight` |
| `EventsMappedRight` | `Spec => []EventsRight` |

`Inv` adds to the properties that nobody calls before all connections are there
(`Starting`), without which the counter could pass connections by; the round robin's
real invariant, that all connections before `next` have had one call more than the
rest (`Rounds`), of which `EvenlyUsed` is a consequence; and that a query begins without a
decoder (`IdleFresh`). `TransactionsRight` needs the same of queries that are not done
yet: what was read with a decoder is still what that decoder reads (`AllBuilt`), and
the lemma `PairedRight`, which is the argument about `Pairing` itself, for sequences of
any length. `EventsRight` follows from `EventsMapped`, that an event kept with a query is one
of `Events` as `getEvent` maps it, and from the next theorem.

`EventMapperProofs` proves `EventIsMappedRight`, `MapsRight(e, getEvent(e))` for every event
`e` with any number of data and names (`Events`). It is an induction over the rounds
of the two loops. The library's induction theorems take a predicate as a parameter,
which the provers here cannot instantiate, so `RoundByRound` states induction for a
set, from the least index outside of it (`WFMin`). By it `GatheredIs` shows that the recursive
function of the loops exists, and `ParsedSoFar` the invariant of the loops, `SoFar`: after
round i everything is gathered of the data up to i and of no others, in their order, or
there is a cause why the event cannot be mapped. `Adds` is what one round contributes,
proved for each case of the switch (`NamedAdds`, `UnnamedAdds`). That `Mappable` leaves out
no cause is part of the theorem, and so is that an empty value is never survived.

`RespChannelsProofs` proves, for any number of queries of each kind, channels and
room in the pool, and any times with `AnsweredBy < StepTimeout + CleanupTimeout`
(`TimeoutsAssumption`):

| theorem | statement |
|---|---|
| `TypeCorrect` | `Spec => []TypeOK` |
| `ChannelsHaveOneOwner`, `PoolIsIdle`, `ClosedMeansUnused` | `OneOwner`, `PooledIdle`, `NoSendOnClosed` |
| `CountsAgree`, `AnswersBelong` | `CountsMatch`, `NoCrossTalk` |

`IInv` follows a channel through its owners. In the pool, or never used, it is empty
and owed nothing; with a query, all that is in it or on its way was asked for in the
step the query is in, and is counted by `due`; left to a cleanup, it gets exactly one
more answer, and gets it before the cleanup gives up, which is what the assumption on
the times is for; closed, nothing is on its way (`ChanOK`, `QueryOK`). The step from one
owner to the next is where the counting matters: only because a query that ends well
has read as many answers as it sent requests is the channel it puts back idle.

`BlockHashesProofs` proves, for any queries, nodes, heights and size of the cache
(`HashesAssumption`):

| theorem | statement |
|---|---|
| `TypeCorrect`, `CacheIsRight` | `TypeOK`, `CacheRight` |
| `HashesAreRight`, `FailuresAreReported` | `BlockAndParentRight`, `FailureReported` |

`IInv` says of each hash of a query that it is right, or on its way, or lost to an error
that is remembered (`BlockKnown`, `ParentKnown`), which only helps if no query writes under
another's height (`CacheOK`) and an answer was asked for since the query began
(`PendingOK`). Of the grandparent it says nothing: there the code is wrong.

`HealthCheckProofs` proves, for any nodes, timeouts and thresholds that satisfy
`TimesAssumption`:

| theorem | statement |
|---|---|
| `TypeCorrect` | `Spec => []TypeOK` |
| `BacklogIsBounded` | `Spec => []BacklogBounded` |
| `NoTroubleOfItsOwn` | `Spec => OldTroubleOnly`, an action property |

The bound is an argument about time. At most one request is made per tick, so the ones
asked after a given one are no more than its age (`OnePerTick`), and none is made while
a check waits (`NoneMeanwhile`). Hence a check that has waited long finds few requests
unanswered, the oldest being at most `ConnTimeout + 1` old (`FewWhenLong`). A check that
ends by its timeout leaves room therefore, and one that ends by an answer has made
room itself (`Room`).

`OldTroubleOnly` counts what may still go wrong once all nodes are well: bad answers to be
read and a select that is out of time (`Due`), and requests that will be answered badly
because they are overdue or their connection is being reset (`Doomed`). Each failure that
`HealthCheck` counts, and its `os.Exit`, takes one from `Due`, and nothing adds to the
sum but a reset, or a request taken by a connection while it is being reset. That answers are read by later checks than they are for adds nothing
because a check that waits is always owed at least one answer, its own or an older one
(`FewWhenLong`); and that a loop ends only when it is reset is `EndingReset`. What a
step does to the sets that are counted is in `Shifted` (a sequence loses an element) and
the lemmas after it. `TroubleForgotten`, which TLC checks, adds that the count does return to zero.

`MigrationProofs` proves, for any range of heights, blocks, versions and number of
failures:

| theorem | statement |
|---|---|
| `TypeCorrect` | `Spec => []TypeOK` |
| `RowsStayRight` | `Spec => []RowsRight` |
| `FatalIsExplained` | `Spec => []FatalHasCause` |

`SortedRight` is the heart of it: whatever order rows come in, the k-th after sorting is
that of the k-th extrinsic, because as many are smaller than p as there are numbers
below p (`Smaller`, by a bijection). From there `IInv` says that the number found for a
row is its own or none (`FoundRight`), that all are found before the first is written
(`NumbersOK`), and that all are written before a height is reported (`Written`).

`LeftoverIsFinished` of `TaskStream` is the theorem `NoneLeftBehind`. It needs that every stream
is served by some goroutine (`ServedAssumption`; 40 in the code), and that one which has
returned left its stream removed or finished (`Departed`).

Only model-checked: all liveness properties, including that half of
`ImplementsService` (temporal reasoning under fairness and `ENABLED` are out of the
prover's reach). Every invariant of a passing run is a theorem.

## 5. Not modelled

The decoding of SCALE data itself (the imported scale.go library), addresses and
hashes under `api/scale` (bit-level data without state); the HTTP handler and the
start-up code beyond the connections it makes; the methods of the proxy client that
nothing calls; times, fees and the conversion of amounts in the mappers, which matter
here only in that they may fail; the wording of messages, logs and metrics; the
contents of answers beyond what is said above; the data race on `resetConnections`;
the length of the pauses between reconnects. A runtime version that cannot be read
(the node's answer is its own struct, or null) and a proxy that leaves extrinsics out
or changes their order are assumed not to occur.

## 6. Plan

Left to do: an abstract store of decoders (a function from versions to metadata, filled
once) that `BlockBuild` implements.
