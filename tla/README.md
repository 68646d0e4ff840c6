# A TLA+ model of the Verium node

Verium is a fork of Bitcoin Core with a memory-hard proof of work, a block time
that depends on the difficulty, and a miner inside the node. These modules model
the part of it on which everything else rests: the index of known blocks, the
choice of the active chain, and the set of unspent coins, in memory and on disk;
and what works with it: the callbacks that tell of the chain, the indexes that
follow it, the download of blocks, the transaction pool, the miner and the key
pool of the wallet.
Paths below are relative to `src/src/` of the repository.

## The system and its parts

| part | source | here |
|---|---|---|
| block index, activation, operator commands | `validation.cpp`, `chain.h` | `Chainstate`, `OperatorHabits`, `ChainstateProofs`, `ChainBestProofs` |
| flush of the block index, crash, start | `validation.cpp`, `txdb.cpp` | `ChainstateDisk`, `ChainstateDiskProofs` |
| coins caches | `coins.cpp` | `UtxoSet`, `CoinsCache`, proofs in `CacheAndQueueProofs` |
| coin database, replay after a crash | `txdb.cpp`, `validation.cpp` | `AtomicFlush`, `CoinsFlush`, `CoinsFlushProofs` |
| pruning of block files | `validation.cpp` | in `Chainstate` and `ChainstateDisk` |
| scheduler, validation interface | `scheduler.cpp`, `validationinterface.cpp` | `SerialQueue`, `SchedulerClient`, proofs in `CacheAndQueueProofs` |
| indexes | `index/base.cpp` | `BaseIndex`, `BaseIndexProofs` |
| block download, compact blocks | `net_processing.cpp` | `BlockDownload`, `BlockDownloadProofs` |
| transaction pool | `txmempool.cpp`, `validation.cpp` | `Mempool` |
| built-in miner | `miner.cpp` | `Miner`, `MinerProofs` |
| wallet: key pool | `wallet/wallet.cpp` | `KeyPool`, proofs in `MinerProofs` |
| script and transaction rules | `script/`, `consensus/` | constants of `Chainstate` |
| everything else | | see "Not modelled" |

A block reaches the node through `ProcessNewBlock` or as a header first. It is
stored and linked to its ancestors (`AcceptBlock`, `ReceivedBlockTransactions`).
`ActivateBestChain` then moves the tip, block by block, to the candidate with the
most work. Each block is connected in a view above the coins cache
(`CoinsCache`), and the cache is written to the coin database now and then
(`CoinsFlush`), after the block index (`ChainstateDisk`). A block that was
connected leaves the transaction pool (`Mempool`), and a callback tells the
indexes of it (`SchedulerClient`, `BaseIndex`). Blocks come from peers
(`BlockDownload`) or from the miner (`Miner`), which mines to a key of the pool
(`KeyPool`). `PROJECT.json` lists
every part, every hazard found in it, and the source lines of each definition.

## Modules

### Chainstate

The constants are a finite tree of blocks with heights, work, and the address of
each `CBlockIndex` (the last tie breaker of the order); which blocks pass
`ContextualCheckBlock` (`Acceptable`) and `ConnectBlock` (`Connectable`); and which of the
operator's commands are issued. `BlockTrees` holds the trees of the runs.
`OperatorHabits` adds an operator who keeps to some of the commands, chosen at the
start, so that one run covers several such operators and a property may speak of one.
The habit `favour` is `preciousblock` for blocks other than the tip.

A flag of `nStatus` is the set of blocks that have it. `received` is `nTx > 0`
and `linked` is `nChainTx # 0`. `candidates`, `unlinked` and `failedBlocks` are
`setBlockIndexCandidates`, `m_blocks_unlinked` and `m_failed_blocks`.

`cs_main` guards all of this and is held for a whole action. `ActivateBestChain`
and `InvalidateBlock` are loops that release it, and `m_cs_chainstate` keeps them
apart, so one program counter serves both:

| `pc` | place in the code | `cs_main` |
|---|---|---|
| `idle` | no call under way | free |
| `loop` | top of the outer loop of `ActivateBestChain` | free |
| `find` | in the inner loop, before `FindMostWorkChain` | held |
| `step` | in `ActivateBestChainStep` | held |
| `exit` | before the final `FlushStateToDisk` | free |
| `walk` | top of the loop of `InvalidateBlock` | free |
| `mark` | a block was disconnected, not yet flagged | held |
| `down` | `AbortNode` was called | |

`owed` says that some thread has added a block or changed a flag and is about to
call `ActivateBestChain`. The walk of `FindMostWorkChain` is one action per
rejected candidate (`DropCandidate`), and connecting or disconnecting a block is
one action each.

Abstractions:

- Whether a block is valid is a constant. Of a block whose contents do not match its
  header (`BLOCK_MUTATED`) at most the header is left, and of one that fails
  `CheckBlock` in `ProcessNewBlock` nothing is. `pindexBestHeader` and
  `pindexBestInvalid` serve warnings and are left out.
- `m_blocks_unlinked` is a multimap that may hold a pair twice; here it is a set.
- A branch is connected 32 blocks at a time; the trees are shorter than that, and
  the batches would only return to the same loop.
- `Init` is the state after the genesis block was activated.
- The break of `InvalidateBlock` on a shutdown request is left out.
- One block per file. A flush inside `ConnectTip` or `DisconnectTip` happens
  before `m_chain.SetTip`, so pruning then counts from the height of the previous
  tip (`HeightAtFlush`).

### ChainstateDisk

Extends `Chainstate` with what is on disk: the index entries last written
(`stored`) and the best block of the coins (`coinsBest`). `FlushStateToDisk`
writes the index, unlinks pruned files and then flushes the coins, and the
process may end between them. `Restart` is `LoadBlockIndex` followed by
`LoadChainTip`: links, failure of children, candidates and `m_blocks_unlinked`
are not stored and are computed again. The addresses of index objects are taken
to be the same after a restart.

### UtxoSet, CoinsCache

`UtxoSet` is a map of coins with a view that is opened, changed and committed or
dropped. `CoinsCache` is the stack of `coins.cpp`: database, `CoinsTip`, and the
view of `ConnectTip` or `DisconnectTip`. Its entries carry `DIRTY` and `FRESH`.
Adding a coin that is not an overwrite requires that there is none, as the BIP30
check of `ConnectBlock` sees to.

### AtomicFlush, CoinsFlush

`AtomicFlush` is a database that moves from one block to another in one step.
`CoinsFlush` is `CCoinsViewDB::BatchWrite` with its batches and head blocks, a
crash after any of them, and `ReplayBlocks`, which can be interrupted too. A coin
is told by the height that created it. A batch is any subset of the entries that
are left. What a transaction, a block or a branch does to the coins is a sequence of
writes (`Writes`), of which the last one to an outpoint counts: the loops of
`RollforwardBlock` and `DisconnectBlock` overwrite whatever they find. Undo data of
the old format, without a height, is not modelled.

### SerialQueue, SchedulerClient

`SerialQueue` is the promise of `scheduler.h`: callbacks run one at a time in the
order in which they were added. `SchedulerClient` is
`SingleThreadedSchedulerClient` over the threads of a `CScheduler`. A step is one
critical section: a thread that has looked at the queue releases the lock before it
schedules a task, so several tasks may be scheduled for one callback and a task may
find nothing to do. `pc` is the place of a thread: `maybe` and `schedule` are the
two parts of `MaybeScheduleProcessQueue`, `process`, `call` and `done` those of
`ProcessQueue` up to the destructor of `RAIICallbacksRunning`. `Flusher` is the
thread of `Shutdown()` that calls `EmptyQueue`, once: it returns when the queue is
empty (`EmptyQueueReturns`), and what is added after that is dropped, as `init.cpp`
says. Tasks have no times; the tasks of
others in the scheduler do not touch this state.

### BaseIndex

The synchronisation thread of an index (`place`, `pindex`), the callbacks
`BlockConnected` and `ChainStateFlushed` (`handler`), a caller of
`BlockUntilSyncedToCurrentChain`, and the validation thread that moves the chain,
signals, and drains the queue. Callbacks go through `SerialQueue`, of which
`BaseIndex` uses the actions; that `SchedulerClient` implements it is the run
`scheduler` and a theorem. `Crash` and the orderly `Interrupt` and `Shutdown` end in
`Restart`, which reads `locator` and `flushed` from disk. A failed assertion in
`Rewind` is `RewindAsserts`, which ends the process. What an index writes for a
block is a member of the set `written`. Errors of files are left out.

### BlockDownload

The message thread, which serves one peer after the other and releases `cs_main`
around `ProcessNewBlock` (`handling`); the socket thread, which finalizes nodes; and
the miner or `submitblock`. `flight` holds `mapBlocksInFlight`, the queue of each
node, the partial blocks and the counters. The queue is a list in the code, of which
only the front is looked at, for the time of its request; times are not modelled, so
here it is a set. Each block asked for has a header, so the two counters of a node
(`nBlocksInFlight`, `nBlocksInFlightValidHeaders`) are one. Peers send what they
have, asked or not.
Time is a timeout that may pass; an honest peer answers before it does.
Punishment is a disconnection, from which whitelisted peers are exempt (`NoBan`).
`MinimumWork` is `nMinimumChainWork`, and `KeepBlocks` the distance beyond which a block
that nobody asked for is ignored. All peers are taken to serve witnesses, and nothing
is pruned. A compact block is complete, lacks transactions,
collides or is invalid. `Activate` prefers height among complete branches: the order
in which branches of one length arrive is the business of `Chainstate`.

### Mempool

All operations run under `cs_main` and `mempool.cs`, so each is one action; inside
it the pool passes through states with incomplete links, which the operators apply
in the order of the code. `mempool` has `mapTx` with links and totals, `mapNextTx`
and `mapDeltas`. A step of the chain moves the pool through `DisconnectTip`,
`ConnectTip` and `UpdateMempoolForReorg`, also when it fails on its way. A
transaction has size one, so a fee rate is a fee. `UpdateMempoolForReorg` enters
transactions with the chain limits, which `bypass_limits` does not lift; the
children that are linked afterwards may exceed the limits, so the limits are no
invariant. Left out are scripts and standardness, sequence locks, the rolling
minimum fee, the orphan pool.

### Miner

Miner threads with one action per unlocked read of shared state: the wait for the
chain, the tip, the search, `CheckWork` and the checks after a search.
`CreateNewBlock` reads the tip again under `cs_main`. `MinerStart` and `MinerStop` are
`GenerateVerium`: threads are interrupted and forgotten, not joined. A thread can be
interrupted in its sleep, in a round of the `ActivateBestChain` that it has called,
and after a search.

The chain moves as `ActivateBestChain` moves it, whoever has called it: the tip is set
block by block, down to the fork and up again, `cs_main` is held until the tip has more
work than before (`starting_tip`), an invalid block sends it to the next best branch,
which may be the old one, and `AbortNode` leaves the tip wherever it is and requests a
shutdown. The unlocked reads see each of these tips. A read in the midst of `SetTip`,
which is a data race, may also give a null pointer: before the search and in
`CheckWork` this ends in a crash, which `Restart` can be at any time, and after the
search it makes the thread leave its block, which it can do anyway. Whether there are peers
and the chain is in sync with them is a choice at each look. The scratch buffer and
the hash are left out.

### KeyPool

A key is its index. Each operation holds `cs_wallet`; `disk` is the wallet database.
A wallet may have pre-split keys. After a restart the code counts on from the
largest index it finds, so an index may come back with another key; here it does
not, since an index stands for its key.

## Runs

| run | instance | states | shows |
|---|---|---|---|
| `coins_cache` | 2 outpoints | 27920 | flags are sound, the stack implements `UtxoSet` |
| `coins_flush` | 6 blocks, 4 outpoints | 447 | replay recovers, `CoinsFlush` implements `AtomicFlush` |
| `reorg` | Broad | 45714 | arrivals in any order, invalid blocks, with and without pruning: what `CheckBlockIndex` asserts; every call ends, the best branch gets activated |
| `commands` | Tall | 197501 | `invalidateblock`; `preciousblock` down to the least id, also for the tip; `invalidateblock`, `reconsiderblock` and pruning together |
| `disk` | Tall | 294332 | crash anywhere, also in a pruning flush, then start |
| `demote` | Twin | | a statement that does not hold, see below |
| `scheduler` | 2 workers, 2 producers, 4 callbacks | 61300 | serial order, nothing forgotten, all run |
| `index` | Long, 2 moves, 1 crash or stop | 514620 | what an index claims, what it promises, and that it settles |
| `mining` | Odd, 2 threads | 281244 | templates that are searched again are consistent, while reorganisations set the tip block by block; old threads end |
| `keypool` | 2 holders, 6 keys | 163772 | one owner per key, the database has the pool |
| `download` | Tiny, an honest and another peer | 123532 | requests are counted once, only debtors stall, the node gets the chain |
| `mempool` | Long, 10 transactions | 7168 | what `CTxMemPool::check` asserts |

The properties of `reorg` and `commands` are mostly the assertions of
`CheckBlockIndex`, which the code evaluates only where it is called and only when
enabled; here they hold in every state in which `cs_main` is free. Each property of
`OperatorHabits` says under which habits it is claimed: under all,
that `m_blocks_unlinked` holds blocks with data; with pruning, that flags have a cause;
without commands and pruning, the rest. That the best branch becomes active
(`ArrivalsKeepBest`, `BestGetsActivated`, and `TipHasMostWork` in `disk`) is claimed
with pruning where each block adds the same work (`EvenWork`), as in the trees of the
runs; see the list below for others.
`CandidatesComplete` does not speak of the time during which `InvalidateBlock`
walks, since blocks that arrive meanwhile are added at its end. `UnlinkedExact`
leaves the tip to `CandidatesComplete`. `GoalNotStale` and the absence of
`AbortNode` are not claimed with pruning: a reorganisation deeper than `KeepBlocks`
may find its blocks gone.

`LosesOnePerCrash` and `PromiseKept` say how far the comments of `index/base.h` are
from the truth: the locator is committed before the block it names is written, so
each crash may cost one block. `RescansOwnTip` speaks of the second search in a
block, since the first one may be on a tip that `pindexPrev` missed. It does not speak
of a thread that looks while `cs_main` is held: a reorganisation may then show it the
very block it has read, which is not the one it builds on. When `cs_main` is free again
the tip is not the block it has read, so the next check ends the search. `Synced`
leaves out whitelisted peers that send undecodable compact blocks for ever: they are
not disconnected, and each such block sets `nDownloadingSince` anew.
`AllRun` ends with `EmptyQueue`.
`CanBeMined` is the part of `CTxMemPool::check` that replays the pool on the chain.

The type invariants are proved, except that of `Mempool`, which was checked once on
the instance of its run.

### Bounds

A tree of three to six blocks above the genesis block has two or three branches, so
that a branch fails in the middle, a block arrives before its parent, and a
reorganisation disconnects two blocks. `KeepBlocks` is 1 instead of 288,
`MinimumWork` 1 so that the genesis block has less,
`MinSequenceId` is -2 so that `preciousblock` saturates, and `MaxSequenceId` bounds
how often blocks are linked between two starts. In `reorg` and `commands` a node may stop with
`AbortNode`, so a state without a successor is allowed there; in `scheduler` nothing
is left to do at the end.

- `scheduler`: with two workers and two producers a task can be stale, a callback
  can be added between a look at the queue and the flag, and the last callback can
  be left to the thread that just finished. The proofs cover every number.
- `index`: `QueueLimit` 1 instead of 10, so that the validation thread waits; two
  moves are a reorganisation while the thread synchronises and one more while
  callbacks of the first wait; one crash or stop at any point. The composition of
  `BaseIndex` with `SchedulerClient` in place of `SerialQueue` was checked once
  (19.2 million states); the theorem makes it unnecessary.
- `mining`: two threads are an old and a new group, or one group of two. The tree has one
  block on the genesis block and beside it a branch whose first block has less work, and
  whose second has more and is invalid, so that a reorganisation goes down, up, and back.
- `keypool`: pools of one key, so that every reservation empties one; six indexes
  let each holder reserve, return and reserve again around a new pool.
- `download`: a window of one and one block per peer, so that a peer stalls another
  in a tree of four blocks; one branch fails its checks. A window of two with two
  blocks per peer was checked once without an honest peer (275107 states); the proofs
  cover every window and limit.
- `mempool`: chain limits of 4, a pool of 4 and a disconnect pool of 3 are all
  exceeded: the longest chain of transactions has five, and a block has three.

`Chainstate` and `ChainstateDisk` were also checked once on larger instances,
without a configuration of their own: `invalidateblock`, `preciousblock` and crashes
on Long, pruning on Broad and on Long with `b2` or `b3` invalid, `commands` and
`disk` (on Tall and on Fork) with larger sequence ids (71062 to 1656783 states, up
to 14 minutes); none of the properties of the runs is violated. Nor are those of
`commands` when `invalidateblock` and `favour` are one habit (1282733 states).

### Fairness

- `reorg`: the steps of a call under way, which never wait for anything but locks
  that are released, and the call itself when `owed`: `ProcessNewBlock` calls
  `ActivateBestChain` before it returns. Arrivals and commands are not fair, and
  `reorg` issues no commands: an operator who keeps invalidating blocks can keep
  `m_cs_chainstate` busy for ever.
- `scheduler`: every thread that can take a step takes one, and the producers add
  what they have. Callbacks return.
- `index`: the threads and the queue run, and signals are added. Moves of the chain,
  flushes, crashes and questions are not fair and are bounded, so the chain stands
  still in the end. The callers of `BlockUntilSyncedToCurrentChain` do not hold
  `cs_main`, as `index/base.h` requires.
- `mining`: threads run, `Shutdown()` ends, and `CreateNewBlock` does not fail for
  ever (strong fairness): a thread whose template fails each time returns to the
  top of its loop and never reaches the check for an interruption. Whoever holds `cs_main` in
  `ActivateBestChain` goes on, and a miner thread that has called it has the chain moved.
  Blocks are not fair, and a thread may wait for peers for ever unless it is interrupted.
- `download`: the message thread serves each peer in every round. Strong fairness,
  because a peer can only be served while no block is being processed. An honest
  peer connects, stays, and answers what it was asked; timeouts pass for the
  others.

## Where code and comment disagree

The run `demote` is expected to fail: `validation.cpp:2856` says that children of
the last disconnected block "need to be BLOCK_FAILED_CHILD instead"; the test
compares the wrong blocks and never succeeds (theorem `NeverDemotes`).

Further statements that do not hold, and the instance on which TLC refutes them; no
configuration is kept for these. Of the chain state:

- `TipIsBest` with `invalidate` and `reconsider` (Fork): `reconsiderblock` clears the
  flags of ancestors, which do not become candidates, against
  `rpc/blockchain.cpp:1556` ("reconsider them for activation").
- `CanStart` with `invalidate` and crashes (Twin): flagging a block at once is meant to
  avoid nodes "unable to start as they have no tip candidates"
  (`validation.cpp:2847`); a crash after the index write and before the coins flush
  leaves none.
- `FailedHasCause` with `invalidate` and `reconsider` (tree Broad): descendants on
  other branches keep `FAILED_CHILD` when their ancestor is cleared, against
  `validation.cpp:4600`.
- `LinkedExact` with `invalidate` and `reconsider` (Fork): a block received below a
  flagged parent that has no data is filed nowhere (`validation.cpp:3037`), against
  `validation.cpp:4588`.
- `CandidatesComplete` with `precious` (Fork): a new sequence id changes what is as
  good as the tip, and only the block itself is added, against
  `validation.cpp:4604`. It takes `preciousblock` for the tip, whose id may be raised
  when the last such call was at less work.
- `TipHasMostWork` with `precious`: such a call leaves a good block out of the
  candidates; when the branch that is activated next fails, and another one after it,
  no candidate is left, and the node stays on a chain with less work than that block
  (six blocks: `a1`, `b1` and `d1` on the genesis block, `b2` on `b1`, `d2` on `d1`,
  of which `b2` and `d1` fail). The trees of the runs are too small for this.
- `CandidatesComplete` with `prune`: the tip leaves the candidates when the old
  branch is pruned during a reorganisation to a branch that is longer than
  `KeepBlocks`, has no more work than the old tip, and then meets an invalid block
  (one block of work 4 against four light ones), against `validation.cpp:4606`.
- `LinkedExact` with `prune` (Long): a block that waits for its parent is pruned and
  so leaves `m_blocks_unlinked`; when the parent arrives the block still counts as
  received and is not linked, against `validation.cpp:4588`. It is linked when it is
  downloaded again.
- `UnlinkedHasData` with restarts and `prune` (Long): `LoadBlockIndex` files pruned
  blocks in `m_blocks_unlinked`, against `validation.cpp:4633`.
- `CandidatesComplete` with restarts and `prune` (Fork): a tip that was pruned and
  is received again gets a new sequence id while it is a candidate. This takes
  coins that are `KeepBlocks` behind the index when the node stops.
- `CandidatesSound` with `invalidate` and `prune` (Tall): while `InvalidateBlock`
  walks back, a pruned block near the new tip is received again and gets a new
  sequence id although it is a candidate.
- `CandidatesSound` and `KeepsKeys` with `prune` alone, on a tree where work
  is not height: a block of work 3 on the genesis block arrives before four light ones
  on another branch; at the third of these, the first block is as good as the tip, low
  enough to be pruned and a candidate, and gets a new sequence id when it is received
  again. In the trees of `reorg` a block as good as the tip is as high.
- `TipIsBest` with `prune` alone, on such a tree: the tip is a block of work 6 on the
  genesis block, another one of work 5 is beside it, and a branch of four light blocks
  reaches work 7 with the fourth, which is invalid. The old tip is pruned while the first
  three are connected; when the fourth fails, the tip stays on the third, of work 4: the
  block of work 5 left the candidates when a better tip was there.
- A header below a block that `AcceptBlock` found invalid is accepted: only
  `InvalidBlockFound` and `InvalidateBlock` add to `m_failed_blocks`, against
  `validation.h:436`.

Of the other parts:

- `RewindFromBest` (`index`): the synchronisation thread records its best block every
  30 seconds, and `Rewind` asserts at any reorganisation that it is the block the
  thread is at (`index/base.cpp:177`). A reorganisation during the synchronisation
  ends the process.
- A synchronised index has every block up to `m_best_block_index` ("the last block in
  the chain that the index is in sync with", `index/base.h:44`): not after a crash
  between the commit of the locator and the write of the block, and not after a stop
  before the first block, since `GetLocator` takes the tip for a null block
  (`chain.cpp:28`). `LosesOnePerCrash` and `PromiseKept` leave the second case out
  (`blind`).
- `PointersUnused` (`mining`): miner threads are not stopped at shutdown, so
  `g_connman` is reset before "the threads that potentially access these pointers
  have been stopped" (`init.cpp:210`).
- `SeenGone` for a wallet with pre-split keys (`keypool`): `MarkReserveKeysAsUsed`
  looks for an external key among the pre-split ones (`wallet/wallet.cpp:3907`), so
  the key stays in the pool, against `wallet/wallet.cpp:1251` ("remove those keys
  from the keypool").

Two more were met while reading: `NewKeyPool` is to "mark old keypool keys as used"
(`wallet/wallet.cpp:3412`) and does not reach keys that are reserved, which may be
returned to the new pool; and `ReserveDestination` "is currently only used inside of
CreateTransaction" (`wallet/wallet.h:263`), while the miner uses it too, never keeps
the key it mines to, and so returns it to the pool.

## Proofs

`CacheAndQueueProofs` has two parts that share nothing. The first proves, for every set of outpoints, coins and blocks, that
the specification of `CoinsCache` implies its type invariant, `FreshIsSound`,
`CleanMatchesBase` and the refinement `ImplementsUtxoSet`. The assumptions are
that `Spent` is not a coin and `Absent` not an entry.

None of the invariants is inductive alone: a flush uses `CleanMatchesBase` to
leave entries out and `FreshIsSound` to drop spent ones, and each of them is
kept by it only when the other holds. The inductive invariant `IInv` is their
conjunction for both caches, with the condition that a closed view is empty and
that view and cache agree on the best block. Lemmas about a single cache over an
arbitrary base say what fetching, adding, spending and merging do to the map it
stands for; they are used for both levels.

`ChainstateProofs` proves, for every tree, every choice of valid blocks,
all commands and pruning, that the types are kept, that no block of the active
chain is flagged and each was connected (`ActiveChainValid`), that
`m_failed_blocks` holds failed blocks only (`FailedBlocksFailed`), and that
`InvalidateBlock` never demotes a block. The assumptions are those of
`Chainstate` on its constants: ancestors form a tree, a block is one higher than its
parent, work grows along a branch, and a block that connects is acceptable.

`ActiveChainValid` is not inductive: the goal of `ActivateBestChain` is kept while
`cs_main` is free, so the path to it must stay free of flags as well. A flag goes
on a block by four ways. `AcceptBlockHeader` and `FindMostWorkChain` flag what
lies above a failed block; if that were on the path, so would be the failed block
itself (`WalkOffPath`, from the fact that ancestors are totally ordered).
`AcceptBlock` flags a block that is not acceptable, which no block of the path is,
since it was stored once. `ConnectTip` flags the next block, and then gives up the
goal. `InvalidateBlock` flags what it has disconnected, and no goal is kept while
it runs (`CallInv`).

The second part of `CacheAndQueueProofs` proves, for any sets of workers, producers and callbacks,
that the flag is set exactly while one thread has a callback (`RunningIsOne`), that
no callback is forgotten (`NoneForgotten`), and that the client implements
`SerialQueue` (`RunsSerially`). The assumptions are that producers are not runners,
the thread of `Shutdown()` is not a worker, and `Nothing` is not a callback.
`NoneForgotten` is inductive only with the types and `RunningIsOne`: `MaybeSchedule`
may return without a task because the flag is set, and then there must be a thread
whose destructor will look again. For the refinement, `CallHasJob` says that a
thread in a call has a callback; with `RunningIsOne` the callback that runs is then
determined, and taking and finishing one are the steps `Start` and `Finish`. All
other steps, the stale tasks among them, are stutters.

`ChainBestProofs` goes on from there, with commands that are none or
`invalidateblock` only: the tip is the best block (`TipIsBest`, `TipHasMostWork`),
the candidates are complete and sound (`CandidatesComplete`, `CandidatesSound`), a flag
has a cause (`FailedHasCause`).
Without any command, links and `m_blocks_unlinked` are exact (`LinkedExact`,
`UnlinkedExact`). With every command but pruning, the goal that is kept over a release
of `cs_main` can be connected and `AbortNode` is not called (`GoalUsable`).

The properties of `OperatorHabits` state this by habit, and are theorems about
`HabitSpec`: with `invalidateblock` and `preciousblock` for others than the tip, in any
mixture, the best branch ends active (`CommandsKeepBest`) and the candidates are
complete and sound (`CommandsKeepCandidates`); whatever is invalidated, reconsidered or
preferred, the goal stays good (`GoalStays`) and no step that hands out a sequence id
changes that of a block in the set (`CandidateKeysStable`, an action property); and
`CheckBlockIndex` and `ArrivalsKeepCandidates` hold as they are stated. The restrictions are needed: with `preciousblock` for the tip,
`reconsiderblock` or pruning there are trees on which some of these statements fail
(see the list above; the attempt to prove `CommandsKeepBest` for all of
`preciousblock` is how the case of the tip was found). The theorems are about the node
between two starts.

The inductive invariant `BInv` adds three parts to that of `ChainstateProofs`.
`LinkInv` relates links, data and `m_blocks_unlinked`: a block with all its
ancestors is linked unless a flag is in the way. `GoalInv` says that the goal is no
worse than the tip the round began with (`startTip`), and that while blocks are
disconnected the tip is no better than it. This is what makes `BestInv` inductive:
during a round the candidates need only hold what is as good as `startTip`, since
`PruneBlockIndexCandidates` removes by the tip of the moment; when the round ends
the tip has reached a block that is at least as good. Blocks that arrive while
`InvalidateBlock` walks are added at its end, so nothing is said then. The order of
the candidates is shown to be a strict total order, work to grow along a branch, and
an arrival to change the order only of blocks that were not linked. `preciousblock`
for a block other than the tip keeps `BInv`: no other pair of blocks changes order
with the tip, the block itself is added when it is no worse, and a call is due.

`GoalUsable` needs less (`DataInv`): without pruning a block that has been linked has
all its ancestors' data for good, and candidates, the goal and what `InvalidateBlock`
lists are linked or on the active chain. That no flag is put on the way to the goal is
`ValidInv` of `ChainstateProofs`. `CandidateKeysStable` follows from the same: an id is
handed out to a block that was received just now and to those that waited for it, and
none of these is a candidate, since it lacked an ancestor (`DataKeys`). Two parts of
`CheckBlockIndex` hold with pruning. `FindMostWorkChain` files again in
`m_blocks_unlinked` only what lies above the first pruned block on its way down, and that
has its data (`RefiledHaveData`); and a flag comes from an invalid block, whatever is
pruned (`FlagInv`).

`ChainstateDiskProofs` proves that the coin database stays behind the block index
(`CoinsBehindIndex`), for every tree, all commands and pruning, and a crash at any
moment; and, unless blocks are invalidated by hand, that `LoadChainTip` finds a
candidate (`CanStart`) and that the active chain is valid through restarts
(`ActiveChainValid`). With `invalidateblock` TLC refutes both on Twin, by one crash:
after the flag is written to the index and before the coins leave the block (see
above for `CanStart`). `DInv` says of the blocks that are known, received and
connected that those on disk are among those in memory, that whatever is missing on
disk is in `setDirtyBlockIndex` (`StepRecorded`: every action that adds one marks
it), and that nothing is dirty between the write of the index and that of the coins.
A restart may load an active chain with a flag, so `ValidInv` is replaced by the
weaker `MemInv`, which does not exclude it. For the last two, `SaneInv` adds that a
flag, in memory or on disk, is only on a block with an ancestor that does not
connect.

`CoinsFlushProofs` proves, for every tree, every assignment of transactions in which
an output is new where it is created (`OutputsAreNew`, BIP30), and batches of any
size and number, `DbMatchesBest`, `ReplayRecovers`, `ReplaySameHead` and the
refinement of `AtomicFlush` (`FlushIsAtomic`). The inductive invariant says that in
a transition each coin of the database is that of the old tip or that of the new one
(`Mixed`), and that outside of one the database is exactly the coins of its best
block. Rolling the old branch back and the new one forward overwrites every coin in
which the two differ. The lemmas follow a single outpoint: the last block of a
branch that touches it decides its coin (`LargestOf`), the undo record of the first
transaction that touches it gives the coin it had before the block, and an outpoint
that no block of the two branches touches has one coin at the old tip, the fork and
the new tip.

`BaseIndexProofs` proves `LosesOnePerCrash` and `PromiseKept` for every tree, length
of the queue, number of moves, crashes and stops; both leave out the case `blind`
described above. The assumptions are the tree and the form of callbacks. `MissInv`
counts the blocks that are missing below each block the index holds on to (its best
block, its place in the chain, its locator, the answer it gave): the locator is
committed before the block, so a crash may add one. `FollowInv` is about the line of
callbacks that have not been handled, from the active one over the queue to the
signals still to be added: the parent of a connected block is on the branch of the
one before, and the tip is on the branch of the last. So once one of them fits the
index the later ones do, and an index that is synchronised has the tip on its branch
or such a block ahead. `PromiseInv` says of a caller that waits that the index has
its tip, or the callbacks before its promise will bring it there. Both are stated
over positions in that line, and lemmas say what becomes of them when the first
callback is taken, one is put in, or the line grows.

`MinerProofs` proves `RescansOwnTip` for any number of threads and any tree, with
reorganisations that set the tip block by block. The tips on which `cs_main` is released
(`Settled`) have growing work, since a round ends with more than it began with or where
it began (`ChainInv`), and within a round the tip has no more work than the last of
them. So what a thread reads without the lock has no more work than what
`CreateNewBlock` reads under it, and that has less than any other tip that is settled on
later (`ReadInOrder`); if the first and the last reading agree while `cs_main` is free so
does the one between. After `AbortNode` this is not so, but a shutdown has been requested
and the check for it comes before that of the tip. It also proves `KeysExclusive`,
`PoolOnDisk` and `SeenGone` of `KeyPool`, for any number of holders, pool size and
pre-split keys. The assumptions are the tree, that work grows along a branch, that `None` is no block,
pre-split keys are within the indexes and `NoKey` is not one. Every operation there
is a function on the pools, and one lemma says of each what it makes of pools that
are `Sound`: records in the database for exactly the keys that are pooled or held,
of the right kind, none beyond the last index.

`BlockDownloadProofs` proves `InFlightAgrees`, `StallersOwe` and `CommonIsFull` for
every tree, any number of peers, of which any may be honest, whitelisted or
preferred, and every window and limit. The assumptions are that ancestors of a block
are finitely many and have each height up to it once, and that `None` is neither a
block nor a peer. Three facts make `IInv` inductive. The accounts of what is in flight
(`Sound`) have to agree as a whole: `MarkBlockAsReceived` takes the peer from the map,
the place in the queue from the peer, and decides by the counter whether it was the
last one; that the counter is the size of the queue is therefore needed for
`nPeersWithValidatedDownloads`, and that the map and the queue have the same blocks for
the counter. A peer is taken to stall only for a block of the walk that is in flight
from it, and every step that takes the last block from a queue also takes the mark
away. `CommonIsFull` needs that the active chain has all its data (`IndexInv`), since
the first guess is a block of it, and that data is never lost; from there the walk only
moves to blocks with `HaveTxsDownloaded`. `IndexInv` also says that the data ends at
some height, so that the blocks better than the tip have a highest one. That no peer
has more than `MaxInTransit` blocks rests on `First`: the `n` lowest blocks of a branch
are at most `n` (`FirstFacts`).

Induction over the naturals and over branches, where a proof needs it, is by the
smallest counterexample (`SmallestInSet`), which follows from the well-foundedness
of the order of the naturals, or of inclusion on finite sets. `BaseIndexProofs`
counts without cardinalities for the same reason: that at most `n` blocks are missing
below a block says that a function on `1..n` covers them (`Lacks`), and one lemma at
the end (`LacksCount`) turns this into the number that `LosesOnePerCrash` states.

Only model-checked: liveness (`CallsEnd`, `BestGetsActivated`, `AllRun`, `Settles`,
`OldThreadsEnd`, `Synced`), which is out of reach of TLAPS; `ArrivalsKeepBest` with
pruning, and `TipHasMostWork` with pruning and crashes; and `Mempool`, whose walks over the links are
recursive.

## Not modelled

- Proof of work, block time, reward (`pow.cpp`): the block time is a floating point
  formula and the target a 256-bit number, which TLC can not evaluate as the code
  does. `Chainstate` takes work as a constant that grows along a branch.
- Script and transaction rules: whether a block is acceptable, and whether it
  connects, are constants.
- The bootstrap downloader (`downloader.cpp`): one straight line of network and file
  operations. `applyBootstrap` removes the old directories before it renames the new
  ones and has no recovery, so there is nothing that a crash would have to keep.
- The check queue: in this version only tests create a `CCheckQueueControl`.
- The orphan pool, misbehaviour scores, relay of transactions and eviction of
  outbound peers (`net_processing.cpp`); connections, addresses, bans (`net.cpp`,
  `addrman.cpp`, `banman.cpp`). In `BlockDownload` their effect is that nodes come
  and go.
- Of the wallet: transaction states, coin selection, encryption.
- A crash in the coin flush after block files were unlinked (`validation.cpp:2174`),
  which takes `CoinsFlush` and `ChainstateDisk` in one model; `ChainstateDisk` alone
  is already among the largest instances.
- Reindexing, `RewindBlockIndex` and `CVerifyDB`.
- Of the miner: two callers of `GenerateVerium` that race on its static
  `minerThreads`, and `invalidateblock`, which releases `cs_main` on tips with less and
  less work: a tip that leaves and comes back that way between two looks would let a
  thread go on with a block on another tip.
- Qt, RPC formatting, network time, tor control, the http server, fee estimates,
  bloom filters and merkle trees, cryptography, LevelDB, secp256k1 and univalue:
  presentation, byte-level code and libraries.
