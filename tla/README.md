# A TLA+ model of Drunix

Drunix is a fork of Hyperledger Fabric. Its ordering nodes cut every block of
the channel (the *fat block*) into smaller blocks, one per *org chain*, and
deliver those to peers; committing peers that share one identity elect the
active one with a lock in a key-value store; a lite peer only endorses. The
fork also changes batching and configuration handling of the consenter, the
ledger of the peer and its transient store. This directory models these parts,
checks them with TLC and proves the central ones with TLAPS.

## Parts of the system

| part | code | state | operations |
|---|---|---|---|
| file ledger | `common/ledger/blockledger/fileledger/impl.go` | fat blocks on disk, the bounded channel `sparseCh`, metadata entries | `Append`, `AppendOrgBlockIndex`, `AppendOrgMerkleInfo`, `SaveChannelHeadInfo`, savepoint |
| sparse-block processor | `common/sparseblocks/sparseblockgenerator.go` | `chHeader`, the caches, `channelHeaderContainer` | `processFatBlocks`, `syncOrderer`, `createOrgBlocks`, `storeBlockData` |
| orderer version check | `.../statedb/ordererstatedb/kvstorehandler.go` | versions of keys | read checks, batch of versions |
| delivery | `common/sparseblocks/sparseblockchain.go` | one iterator per stream | `Iterator`, `Height`, `waitForBlock`, `Next`, `Get` |
| org chains registrar | `common/sparseblocks/sparseblockdeliver.go` | maps of channels and chains | `GetChain`, `buildChannelTree` |
| committing peer lock | `internal/peer/node/distributed_lock.go` | key in the store, timers | `acquireDistributedLockAndServe` |
| sparse filter on the peer | `.../txmgmt/validation/batch_preparer_adapter.go` | - | `extractSparseFilter` |
| block cutter, consensus chain | `orderer/common/blockcutter`, `orderer/consensus/etcdraft/chain.go`, `orderer/common/multichannel/blockwriter.go` | pending messages, blocks in flight, raft log, ledger, snapshot | `Ordered`, `Submit`, `run`/`runBatch`, `propose`, `apply`, `catchUp`, configuration changes |
| transient store | `core/transientstore`, purge of `gossip/privdata`, heights of `statesqldb` | private write sets and an index in the key-value store, a batch queue, published heights | `Persist`, flush, `PurgeByTxids`, `PurgeBelowHeight` |
| ledger of the peer | `core/ledger/kvledger`, `pvtdatastorage`, `statesqldb` | private data store, block store, state and history databases | commit, recovery, reconciliation, snapshots, rollback |

How they interact. The consenter calls `Append`, which writes the block and
then sends it through a channel of fixed capacity to the goroutine of
`processFatBlocks`. For each fat block the goroutine makes the org blocks,
writes each to a cache and an index, writes the details needed to rebuild them,
publishes the new heads in a container shared with readers (and wakes them),
and at last saves the heads. A deliver stream takes blocks from the cache, or
has them rebuilt from index, details and the fat block. After a restart the
processor continues from the saved heads: what lies between them and the next
block it receives is worked through by `syncOrderer`. On a ledger that existed
before the processor, the chains begin at a *savepoint*: up to it org blocks
are the fat blocks themselves.

The blocks come from the consensus chain: a leader cuts batches (or each node
does, with follower batching), proposes blocks ahead of their commitment, and
every node writes what raft commits. A committing peer retrieves the private
data of a block from the transient store it shares with the other peers of its
organisation, commits to four stores in turn, publishes its height, and leaves
purging to the slowest peer. A reconciler and a snapshot manager work beside
the commits.

What is hard here: the order of the five writes per block against crashes and
failures; publishing before saving; readers that run concurrently, partly
without locks; a bounded channel; catching up; the switch from an old ledger;
unsigned arithmetic on heights; a lock that expires; leader changes with blocks
in flight; entries replayed after a restart; several peers purging one store;
four stores without a common transaction. `PROJECT.json` lists the
hazards line by line, with the properties that cover them.

## Modules

| module | models |
|---|---|
| `OrgRouting` | which chains a transaction goes to (`aggregateOrgEnvelope`) |
| `OrdererMVCC` | the read-conflict check of one fat block, and its batch |
| `SparseChain` | ledger, channel, processor, stores, cache, crashes and failed writes |
| `OrgChains` | the abstract specification: each chain is the fat chain up to where it was begun, then the projection of every later fat block, each once |
| `SparseChainInv` | the inductive invariant of `SparseChain` |
| `SparseChainProofs` | its proof, and what follows: the org chains are linked, name their configurations, and refine `OrgChains`; the version check loses no update |
| `SparseDeliver` | `SparseChain` composed with deliver streams, and how a peer reads the filter of a block |
| `SparseDeliverProofs` | what was delivered is what is saved, what a stream asks for is there |
| `DistributedLock` | active and passive committing peers |
| `DistributedLockProofs` | types, and the serving peer holds the lock |
| `BlockCutter` | pending messages of one node and when they are cut |
| `EtcdraftChain` | the consensus chain of several ordering nodes over an abstract raft |
| `EtcdraftChainProofs` | the committed blocks are one chain, every node writes it without a gap, blocks keep the limits of a batch, and outdated configuration updates stay out |
| `EtcdraftConfProofs` | a configuration is ordered once, and a change of the consenters is applied before the next block |
| `TransientStore` | batcher, shared store, committing peers and their purges |
| `TransientStoreProofs` | what is deleted is no longer needed |
| `KVLedger` | commit, recovery, reconciler, snapshots and rollback of one ledger |
| `KVLedgerProofs` | the stores can be repaired, private data never goes back, state, history and snapshots are what the blocks make of them |
| `Recursion` | induction and recursive functions, for the proof modules |
| `MC*` | small instances for TLC |

State and actions. In `SparseChain` the variable `pc` is where
`processFatBlocks` is: `boot` (before the loop), `loop` (waiting), `savepoint`
and `create` (in `createOrgBlocks`), `store`, `publish`, `save` (in
`storeBlockData`), `stopped` (it returned after a failed write) and `panic`.
Each write that survives a crash is an action of its own, so a crash or a
failure falls between any two of them; code between two such writes is one
action. `fat`, `headDB`, `index`, `merkle`, `savepoint` and `versions` survive
`Restart`, the rest is rebuilt. `cur < syncTo` means the block is worked
through by `syncOrderer`. In `SparseDeliver` a stream checks the height
(`CheckHeight`), then goes to sleep (`Park`) in a second step, because
`waitForBlock` does not hold the lock of the condition variable in between.

In `EtcdraftChain`, `chain[n]` is the Chain object of a node together with the
locals of `run`: what it applied, the blocks it proposed and holds in flight,
the pending configuration change. `Order`, `BatchOrder`, `SubmitBatches` and
`Receive` are the paths by which a request reaches a leader; `ApplySoft`,
`ApplyBlock` and `ApplyConfChange` are the cases of `apply`; `InstallSnapshot`
and `SuspectEviction` are the two ways to catch up. Raft is four actions by what
the code relies on: a new leader has every committed entry, only the latest
leader commits, a follower's log is a prefix of the leader's. A log entry that
holds a block also carries the configuration changes its proposer knew to be
committed (`known`): raft sends the commit index with the entries, and its `hup`
does not campaign while a change known to be committed is not applied, which is
the last guard of `Elect`. `Settings` selects a mode and the bounds that go with
it.

In `TransientStore`, every command of the shared store is a step. The code sends
several in a pipeline, which is not a transaction: commands of other clients
come between the `PipeHSet` and `PipeZAdd` of a flush and the `Del` and `ZRem` of
a purge. A running flush and a running purge are records of a set, as the
goroutines are. A fault is a call that fails with no effect, after a part of
its pipeline or after all of it. A retrieval
may miss anything, since it may go to a replica.

In `KVLedger`, `pc` is where the committing goroutine is. Each store is written
in a step of its own, and the rows of the state one by one, since
`statesqldb` writes them without a common transaction and the savepoint last.
`rec` is the reconciler, `snap` the snapshot in progress. A peer that stopped
starts again: `Open` computes what each database lacks, `RecoverState` and
`RecoverHistory` replay it.

Abstractions. A transaction is its type, the set of orgs it names, the
versions it read and the keys it writes and deletes. The data of a block is
named by the fat block it comes from and the indices taken from it; a hash is
the sequence of blocks it covers, so equal hashes mean equal chains. Signatures,
the merkle fields the code leaves empty, and failures to read or unmarshal are
left out. An org list that names an org twice counts as naming it once.
`OrgChainStore.Height` is one step. A stream is opened only after the genesis
block was appended, since the registrar knows a channel only then. The redis
lock is modelled by what redsync promises for one server. In the ledger a block
has one transaction, a value is the number of the block that wrote it, and so is
its version. The code has two numbers for a lean block: public and hashed rows
carry the fat block and the index in it (`validator_adapter.go:88-108`), private
rows the block of the peer's own chain. That a read of private data then finds
two versions that differ (`query_executor.go:213-221`) is not visible in the
model. `checkIfPvtWriteIsStale` compares such a pair too and falls back to the
hash of the value; it comes to the result of `Stale` while different writes of a
key have different values, since a fat block's number is never below that of
the block made from it. A snapshot requested for block 0 is one for the least
number the code accepts, and covered by a request for that number. An error of a
commit is a crash, since `gossip/state` panics on it. In the transient store all peers are on the channel before the first endorsement, and
a block is ordered only after the endorsements of its transactions returned.

Names ending a comment with "Faulty variant" are plausible mistakes, used to
confirm that the properties notice them. They are not part of the model.

## Checks

`tlc -config <cfg> <module>`; bounds are constants of the configuration.

| run | instance | checks |
|---|---|---|
| `sparse_chain` | 4 fat blocks of 3 kinds, channel of 2, 2 crashes, 1 failed write, new and upgraded ledger | `TypeOK`, `Retrievable`, `HashLinked`, `LastConfigIsConfig`, `IInv`, `SavedBlocksImmutable`, refinement of `OrgChains` |
| `sparse_chain_live` | 4 fat blocks with conflicts inside and across blocks and an org without a chain, channel of 1, 1 crash, new and upgraded ledger | `NoLostUpdate`, `CaughtUp` |
| `sparse_deliver` | upgraded ledgers of 2 and 3 fat blocks, 3 in all, 1 crash, one stream on either chain, version check off (the default) (200,000 states) | `DTypeOK`, `DeliveredIsSaved`, `KnownHeightIsPresent`, `SleeperIsServed` |
| `distributed_lock` | 2 peers, 3 failed calls, 2 stops | `TypeOK`, `HoldsWhileServing`, `Takeover` |
| `etcdraft_chain` | 2 nodes, 2 elections, 2 blocks in flight; eight settings of up to 3 transactions, with two configuration updates of which one changes the consenters and one goes out of date, 1 crash, 1 snapshot, both batching modes; states with `SnapshotsRead` only (2.0 million) | `TypeOK`, `OneChain`, `NoGap`, `ConfChangeFirst`, `OutdatedNotOrdered`, `BatchLimits` |
| `transient_store` | 2 peers, 3 endorsements of a transaction that commits in block 3, retention 1, queue of 1, 2 failing calls (344,000 states) | `TypeOK`, `PurgeIsBehind`, `DeletedWhenDone`, `EveryCallReturns` |
| `kv_ledger` | 4 blocks (vanilla and lean, a conflict, a delete, private data), 2 crashes, 1 rollback, requests for 2 snapshots (266,000 states) | `TypeOK`, `Recoverable`, `StateIsReplay`, `SnapshotIsState`, `HistoryIsComplete`, `PrivateNeverOlder`, `NextCommitted` |

Why the bounds suffice. With four blocks and a channel of two, an append waits
for room while a block is processed and two are queued; with two crashes the
second falls into the reprocessing that the first one caused; an upgraded
ledger of three blocks has a savepoint above 0 and below the last block. One
stream is enough for `SparseDeliver`: streams only read what the processor
writes and do not see each other. In the lock, three failures let one process
fail an extension twice and another one fail to acquire. In the consensus chain
two elections let leadership move away and come back while blocks are in
flight; a third node would add votes, which the abstract raft does not count.
The sizes of the messages fill, overflow and exceed a batch. The settings keep
crashes and snapshots to the cases where they meet a configuration change or an
oversized message. In the transient store two peers are enough for one to pass
the other between a check and a deletion, and block 3 is past the retention of
an endorsement at height 0. In the ledger two crashes let the second fall into
the recovery from the first, and the four blocks make the reconciler meet a
newer write of its key. Deadlock is not checked where a bound on blocks,
elections or crashes ends every behaviour; in the lock it is.

Runs that show a disagreement between the code and its comments or assertions:

| run | what happens |
|---|---|
| `sparse_deliver_assembled` | a block is delivered from the cache, evicted, and delivered again: the peer commits it at other heights (`AssembledIsSameBlock`) |
| `sparse_deliver_wait` | heads are published between the check and the wait: the stream sleeps although its block is there (`WaitEnds`) |
| `etcdraft_snapshot` | a node that restarted takes a snapshot while it reads entries again: it pairs the index applied before the restart with an earlier block. A node that installs it skips blocks and panics at the next one (`NoGap`) |
| `kv_ledger_lean` | a crash falls between private data store and block store, and the block is lean: it comes back on the path for vanilla blocks, which panics, at every restart (`LeanCommitted`) |
| `kv_ledger_reconcile` | the reconciler reads the missing list while the block is between two stores: the data ends in the private data store, is no longer listed as missing, and never reaches the state (`StoredIsReadable`) |

Other behaviour of the code that the modules contain and a reader should know
of, without a run of its own:

- the savepoint is taken from the height of the ledger, not from the block that
  is processed; with appends in between a fat block is taken over whole and cut
  as well (`QuietSwitch`, below);
- chains begun right after a configuration block carry the number of the next
  block as LAST_CONFIG; `LastConfigIsConfig` names this exception;
- on an empty org chain `Height() - 1` wraps, and a stream asks for a block that
  is nowhere;
- a transaction that names an org without a chain makes
  `storeOrgBlockSkeleton` dereference a nil head (the panic in
  `CreateOrgBlocks`);
- a failing `serve` leaves the lock to expire (`ServeEnds`), and a refresh
  interval equal to the expiry passes the check although the lock can then
  expire under a serving peer;
- `configInflight` stays set when a leader with an unproposed configuration
  block loses leadership, and as leader again the node takes no request;
- the leader panics when a request is cut into more blocks than its queue has
  room for (`ProposeOrPanic`); the properties hold through the restart. The
  goroutine that proposes may or may not have taken the first block out of the
  queue, so one block more may fit. Blocks of the request that were queued
  before the panic are lost with the process;
- `ProcessNormalMsg` has its filters commented out (`standardchannel.go:118`):
  at the first validation and when the configuration has moved on, a normal
  message is accepted whatever the configuration says. `Accepts` is true of every
  normal transaction; only configuration updates can be rejected (`Outdated`,
  those made against the first configuration). Maintenance mode, in which
  normal messages are refused, is not modelled;
- with batching at the followers a change of leader resets the byte counter of a
  queue that stays, so only the number of messages of a batch is bounded;
- write sets are indexed with the height of the slowest peer; when peers are
  further apart than the retention, that peer purges data it has not used yet.
  `DeletedWhenDone` states exactly what is kept;
- when peers pass each other between their checks, each leaves a purge to the
  other, and the write sets wait for a later purge by height;
- a crash after a snapshot is in place and before its request is deleted leaves
  the request behind.

The condition `SnapshotsRead`. After a restart the applied index is that of the
last block on disk, while raft hands over the entries since the last saved
snapshot again. `apply` skips them and still counts their bytes, and when the
limit is reached takes a snapshot with the applied index and the block just read
(`chain.go:1597`). This needs a snapshot that was due before the restart and is
not on disk: `gc` had not saved it when the process ended, saving it failed
(`takeSnapshot` logs the error, the count is reset all the same), the process
ended between a configuration block that lowers `SnapshotIntervalSize` and the
end of `apply`, or the blocks came from `SuspectEviction` and not from the log.
The model leaves open which entry is due, so `MaybeSnapshot` covers all of these.
`etcdraft_snapshot` shows what follows. `etcdraft_chain` and the theorems are
about behaviours in which no snapshot is ahead of the entries its node has read
(`SnapshotsRead`, a `CONSTRAINT` of the run, a premise of the theorems); in these
snapshots, restarts and catching up still meet in any order.

The assumption `QuietSwitch`. Several properties of `SparseChain` hold only if
no block is appended between the start of a process on a ledger without saved
heads and the moment its first heads are saved (one block excepted, the one a
processor at height 1 waits for). The code does not enforce this. Every run of
`SparseChain` and `SparseDeliver` and the theorems about them assume it; with `QuietSwitch = FALSE` TLC finds a fat block that is in an org chain
twice.

`NoLostUpdate` is stated up to the first crash or failed write. The batch of
versions is applied before the head is saved, so a fat block that is processed
again conflicts with its own writes: without the restriction TLC finds, with one
crash, or with two failed writes the first of which ends the process, two valid
transactions that overwrite the same version. A panic on a block that names a
chain without a head is not excluded: the versions of that block are applied
without its details being stored, but no later block is ever reached.

Fairness. `FairSpec` asks that the goroutine of `processFatBlocks` and the
send in `Append` are scheduled again when they can go on, which the Go runtime
provides; appending, crashing, evicting and failing are never forced. A stream
that can go on does so too. In the lock, time passes and a running process is
scheduled; processes are not forced to start again. Liveness of the processor
is stated up to the next restart or panic, and without failed writes, because a failed
write ends the goroutine for good. In `TransientStore` the batcher, the flushes
and the purges run and ordered blocks are committed; endorsements, ordering and
faults are never forced. In `KVLedger` a peer that stopped is started again, and
committer, reconciler and snapshot goroutine run; crashes, requests and
rollbacks are bounded and never forced. `EtcdraftChain` states no liveness: raft
promises none without assumptions on elections.

In `DistributedLock`, a serving process is late with an extension by at most
`MaxLag` ticks. No lock that expires is safe without such a bound; the proof
shows which bound is needed.

## Proofs

`tlapm <module>` for `Recursion`, `SparseChainProofs`, `SparseDeliverProofs`,
`EtcdraftChainProofs`, `EtcdraftConfProofs`, `DistributedLockProofs`,
`TransientStoreProofs` and `KVLedgerProofs`.

`Recursion` holds what the others need of induction. It is stated for sets and
functions (a set of numbers that has 0 and is closed under successor has all;
a recursive function exists for every start and step), so that the provers can
apply it: a property is given as the set of numbers that have it. The replay of
the ledger and the lists of indices of a fat block are recursive functions and
are reasoned about this way.

About `SparseChain`, for all chains, transactions, blocks, capacities and
numbers of crashes and failures, under `QuietSwitch` and the assumptions on the
constants: `TypeOK` (`TypeCorrectness`), `Retrievable` (`AlwaysRetrievable`) and
`SavedBlocksImmutable` (`SavedBlocksNeverChange`). They rest on `IInv`
(`InductiveInvariance`). `Retrievable` is not inductive: that a published block
can be rebuilt depends on where the processor is. `IInv` adds

- what the channel holds: the last appended blocks, in order (`QueueInv`);
- that between blocks the processor's header is the saved one, and that what it
  receives lies after it (`LoopInv`, `WorkInv`);
- that while a block is stored the new header exceeds the saved one by the
  blocks in `out` only (`StoreInv`), and what has been written so far
  (`WrittenInv`);
- that an index entry below a head points to details that later fat blocks do
  not overwrite (`Covered`).

The step that needs all of it is `PublishHeads`: the new heads are covered
because old blocks were and the new ones have just been written
(`NewHeadsCovered`). `SavedBlocksNeverChange` then follows since index entries
are written above the saved heads only, and details only for fat blocks above
the last one saved.

What the org chains contain, under the same assumptions: `HashLinked`
(`AlwaysHashLinked`), `LastConfigIsConfig` (`AlwaysLastConfig`) and the
refinement of `OrgChains` (`ProcessorImplementsOrgChains`), from `ContentInv`
(`ContentInvariance`), which says on top of `IInv`

- that the chain below a head is linked and ends with the hash the head carries,
  and that its configuration number is right, for the saved heads and for the
  published ones (`Linked`);
- that what the processor holds while it works on a block is the cut of that
  block from the header it began with (`Made`), and where a chain that is being
  begun starts (`Beginning`).

The refinement maps a chain to the blocks below its saved head. The one step
that changes it is `SaveChannelHeadInfo`; `Made` says which blocks it adds, and
`SavedBlocksImmutable` that it alters no other.

The orderer's version check: `NoLostUpdate` (`NoUpdateLost`), under the same
assumptions, for blocks of any content and any keys. `NoLostUpdate` speaks of
saved transactions and is not inductive. `VersionInv` (`VersionsInvariance`)
says of all transactions that are marked `VALID`, stored or still in memory,

- that what one wrote is the recorded version of the key, or a later one is, or
  a later marked transaction deleted the key (`RecordsKept`);
- that one which read a version from before a marked write comes after a marked
  deletion that follows the write (`StaleReadsExcused`);
- that details are stored only for saved blocks and for the one being stored
  (`StoredInOrder`), so that a block about to be checked is beyond all marks.

`RecordsKept` is given up where the process panics on a block it cannot route;
`Stuck` says that this block is then the next one for good. What the check of a
block returns (`CheckResult`: a valid transaction read what is recorded and no
key that an earlier valid one of the block wrote; the batch holds the last valid
write of each key) is shown by induction over its transactions. The assumption
`TxnsAssumption` includes that a transaction without a read-write set reads and
writes nothing, which is what the check takes it for.

About `SparseDeliver`, under the same assumptions and for any number of streams:
`DTypeOK` (`IteratorTypeCorrect`), `KnownHeightIsPresent`
(`KnownHeightAlwaysPresent`) and `DeliveredIsSaved` (`DeliveredAlwaysSaved`),
from `DInv` (`DeliverInvariance`). A block may be delivered before the head that
covers it is saved, and the process may then crash and cut the fat block again.
The argument is that the saved heads and the fat ledger alone decide what the
block will be: `Pledged` names the hash a number has or will have, everything
cached or stored beyond the saved heads is pledged (`AheadInv`), no step takes
a pledge back, and what was delivered was pledged at that time
(`DeliveredPledged`). `StreamsOK` ties what a stream knows of the height to the
visible heads.

About `DistributedLock`, for any number of peers and failures: `TypeOK`
(`TypeCorrect`), whatever the intervals, and `HoldsWhileServing` (`ServingPeerHoldsLock`), if the expiry exceeds refresh
interval, largest delta and lateness together. The code asks for less. The
invariant is that the key of a serving peer outlives its timer by more than
`MaxLag`; time takes the same from both.

About `TransientStore`, for any peers, calls, blocks, retention, queue size and
number of faults: `TypeOK` (`TypeCorrect`), `PurgeIsBehind` (`PurgeStaysBehind`)
and `DeletedWhenDone` (`NothingNeededIsDeleted`). A purge checks once that its
peer is the slowest and deletes later. `PurgeIsBehind` is what remains true in
between: heights only grow, so the block of the purge stays committed by all,
and the ids it holds are those of that block or were seen below its threshold.
With the types it is inductive, and the action property follows from it at the
one action that deletes.

About `KVLedger`, for any chain of blocks, requests and numbers of crashes and
rollbacks: `TypeOK` (`TypeCorrect`), `Recoverable` (`AlwaysRecoverable`) and
`PrivateNeverOlder` (`PrivateDataNeverGoesBack`). The invariant `IInv`
(`LedgerInvariance`) adds to the types

- the order of the heights of the four stores (`StoreOrder`), and that the
  flag `isPvtstoreAheadOfBlkstore` is true to the heights (`AheadIsAhead`);
- which heights and which pending rows go with each place of the committing
  goroutine and of the recovery (`Position`, `Prepared`);
- that rows the reconciler found not to be stale stay so while it holds the lock
  `oldBlockCommit` (`Reconciling`);
- that no row is newer than the block after the savepoint, and no private row
  newer than the hash of its key, unless that block is about to write the hash
  (`Versions`).

`Recoverable` alone is not inductive: that a store does not overtake another
depends on where the committer is. `PrivateNeverOlder` needs `Versions` and
`Reconciling`: a row the reconciler writes was compared with a hash that no
commit has changed since.

What the stores contain: `StateIsReplay` (`StateAlwaysReplay`),
`SnapshotIsState` (`SnapshotsAreStates`) and `HistoryIsComplete`
(`HistoryAlwaysComplete`), from `ContentInv` (`ContentInvariance`). Rows are
written one by one, so at most points the state is no replay of anything.
`RowCourse` says what each row is at each point: that of the replay up to the
savepoint, or already that of the block after it, the latter exactly where the
pending writes no longer list it. `FlagCourse` says the same of the validation
flags the rows depend on, `HistoryCourse` of the history and `SnapshotCourse` of
a snapshot, which is under way only while the committer waits.

About `EtcdraftChain`, for any nodes, transactions, batch sizes, elections,
crashes, snapshots and blocks in flight: `TypeOK` (`ChainTypeCorrect`), `NoGap`
(`ChainHasNoGap`), `OneChain` (`ChainIsOne`), `BatchLimits`
(`BatchesKeepLimits`), `OutdatedNotOrdered` (`OutdatedStayOut`) and, for one
change of the consenters, `ConfChangeFirst` (`OneConfChangeComesFirst`). All are
of the form `Spec /\ []SnapshotsRead => []P`: they speak of behaviours without a
snapshot beyond the entries its node has read. The code does not exclude the
others, and there `NoGap` fails (`etcdraft_snapshot`); `ChainHasNoGap` says that
such a snapshot is the only way to a gap. Of the constants they assume only types, and that `Nil` is
not a node, a block or a transaction. What is known of raft is in the actions `Elect`,
`Replicate` and `Commit`, not in an assumption.

`OneChain` speaks of committed blocks, but a block is fixed when a leader
creates it, from the last block the leader believes in. The invariant `IInv`
(`ChainInvariance`) follows a block from there:

- `TermInv`: a leader whose log lacks a committed entry was deposed, that is, an
  entry of a later term is committed. Its log can then never become a committed
  one again, so nothing need be said of its blocks;
- `LogInv`: every log that extends the committed entries is a chain;
- `LeaderInv`: what a serving leader has in flight extends its log, up to the
  block it creates the next one from; a node that does not serve has nothing in
  flight;
- `WriteInv`: a ledger holds the committed blocks in order, and no index, of
  the applied entry, in the metadata of a block or in a snapshot, is ahead of
  the blocks written.

The steps that carry the argument are the end of `justElected` (a new leader
takes its last block as the one to build on only when its whole log is applied),
a restart that finds an index in the metadata of its last block, and catching up
from a snapshot. `NoGap` follows from `WriteInv`. For `OneChain` the committed
blocks, filtered from the log, are matched with the latest block of each
beginning of the log (`Listed`), by induction.

`BatchLimits` needs an invariant of its own, `LimitInv` (`LimitsInvariance`),
over everything a message passes through: what is pending in a cutter is below
the count and, with batching at the leader, its byte counter is the size of the
pending messages (`CutterFits`); batches submitted or forwarded keep the count
(`Counted`); queued blocks and log entries keep both limits (`Fits`). With
batching at the followers nothing is said of bytes, as a lost leadership resets
the counter of a queue that stays. That revalidation only removes messages is
the lemma `KeepLess`.

`OutdatedNotOrdered` rests on `OutdatedInv` (`OutdatedInvariance`). It needs no
history variable: the hash of a block lists the data of the blocks before it, so
the block itself tells whether a configuration precedes it. A block is `Free`
when none does, its own data included, and `Clean` when none precedes an
outdated update in it.

- Every block in a log or in the queue of a leader is clean;
- a message with an outdated update, in a cutter, an outbox or on its way to
  another node, was accepted before any configuration (`Dated`), so a leader
  that has applied one validates it again and drops it;
- a configuration comes last in a request (`DatedBatches`), so within one
  request nothing is ordered after it;
- `Current`: between creating the block of the first configuration and applying
  it, a serving leader is not taking requests, and with batching at the leader
  its cutter holds nothing that is outdated. Without this, an update
  validated against the old configuration could follow the block in flight.

TLC checked this invariant over the settings of `etcdraft_chain` before it was
proved.

`ConfChangeFirst` says that between the block of a change of the consenters and
the next block the raft configuration change is committed. It is the promise of
`chain.go:704`: a new leader resumes an unfinished change and waits for it. Two
more invariants carry it.

`OnceInv` (`OnceInvariance`): a configuration is ordered at most once. It waits
in one place, not yet sent, in an outbox or on its way to another node, and it
waits nowhere once it is in a block of a log that may be committed or in one a
leader has in flight. So the block of a change is unique, and a change that a
node knows to be applied belongs to it.

`ConfInv` (`ConfInvariance`), over the changes of the consenters (`Changes` of a
history of blocks, `Confs` of the entries of a log):

- `LogFirst`: in every log that may be committed, all changes before a block are
  among those that came with it, which precede it in the log as configuration
  entries; and such an entry follows the block of its change;
- `Aware`: a node knows every change it has read, and through a snapshot, which
  carries the leader's current configuration, possibly later ones; a change in
  progress is one whose block is written and whose entry was not read;
- `Heading`: a leader has applied every change before the latest block of its
  log. This holds when it is elected, by the check of `hup` and `LogFirst`. A
  change of the latest block itself it resumes, and it serves only when that is
  applied. While it serves, a configuration in flight is the last block and
  closes `submitC` (`InFlight`, `Shut`).

`OneConfChangeComesFirst` states `ConfChangeFirst` for one change of the
consenters, the setting of the run, through any elections, crashes, snapshots
and catching up. For several changes it is not true of the code.
`getInFlightConfChange` returns `confChangeInProgress` when it is set, and only
`apply` of that change clears it (the hazard at `chain.go:1771`). A node that
wrote the block of a first change, then installed a snapshot that passes its
raft entry and ends with the block of a second change, still has the first one
in progress. Elected, it proposes the first again, sees it committed, and serves
requests while the second change was never proposed. With a second member of
`MemberTx` TLC shows this in thirty steps. `ConfChangeComesFirst` states
`ConfChangeFirst` for any number of changes in behaviours without `Overtakes`:
among several changes, no node installs a snapshot while one is in progress, nor
catches up with a configuration block while the one in progress is known to be
applied. Crashes, elections, and all other snapshots and catching up are
included. `Settled` is what makes one change special: when all changes are
applied, a stale one in progress does no harm.

TLC checked `ConfInv` for two nodes and two changes before it was proved.

Checked by TLC only: the liveness properties, which are outside what the prover
does. Every invariant and every action property of the passing runs is a theorem,
those of the consensus chain for behaviours with `SnapshotsRead`.

## Not modelled

- Consensus chain: halting and removal of the own node, abdication, rotation of
  certificates, `ValidateConsensusMetadata`, cluster communication, the files of
  the write-ahead log.
- Registrars: channel creation, the notification between the registrar and that
  of the org chains, `GetChain` of several streams (a race on a Go map, listed
  as a hazard).
- Private data: eligibility, fetching from remote peers, expiry and purges asked
  for by applications, deprioritised missing data, the purge of a lite peer.
- Ledger: creating one from a snapshot, listeners, building of queries and
  connections of the relational database, validation of endorsements.
- Gossip, block providers and gateway, inherited with small changes; generated
  and vendored code.

The repository holds the whole of Fabric with its vendored libraries, so the
modelled part is a small share of its lines.

## Plan

1. `EtcdraftChain`: removal of the own node and abdication, and with them several
   changes of the consenters in a run.
2. `KVLedger` composed with `TransientStore`: private data retrieved, committed
   and purged across a crash of the peer.
3. Registrars: that a new channel is eventually processed, and that a stream
   reads the store the processor fills.
