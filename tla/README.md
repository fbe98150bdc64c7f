# 996.Blockchain in TLA+

A verification project for the 996.Blockchain node: TLA+ modules translated from
the Go source, TLC configurations that check them on small instances, and proofs
for TLAPS. Paths below are relative to the repository (`src/`). `PROJECT.json`
holds the machine-readable side: components, runs, mutants, the map from
definitions to source lines, findings, hazards and theorems.

## 1. The system

A node keeps a tree of blocks, mines on the longest branch, collects evidence
(digests that users want on the chain), serves queries and exchanges blocks and
evidence with peers.

| Part | State | Operations | Works with | Hard behaviour | What makes it correct |
|---|---|---|---|---|---|
| block tree (`core/blockchain`) | `*block` objects with backward/fordward references, list of branches with two caches each, `longestBranch`, `lastHeight`, `oldestBlock` | `AddBlocks`, the loop with `maintain` (prune, flush, evict), `Init`, the `GetSync*` reads | db, scheduler, net, qcache, under `branchLock` | forks, refused and redelivered blocks, a kill inside `maintain`, unsigned heights, pointers that outlive the cache | one chain in the store; longest chain rule; caches agree with the pointers; evidence once per chain |
| block store (`db`) | badger keys: headers, heights, hashes, evidence, scores, latest height | `PutGenesis`, `PutBlock`, reads | chain, qcache, core | the height is checked outside the transaction; a block is read in several views | append-only chain; reads are whole; indexes follow from the blocks |
| scheduler (`core/scheduler.go`) | block of the round, current job | `schedule`, `getEvidence`, `genBlock` | chain, pool, net, parallel mining | head and evidence read at different times; interruption | no stale round; own blocks accepted; goes on for ever |
| parallel mining | four channels per job | `mine`, `pow`, `terminate` | scheduler | goroutines of old jobs live on, header changed in place | nonce fits header; goroutines end |
| evidence pool | sorted list, channel of raw evidence | `addEvidence`, `addRawEvidence`, `calculateRaw`, `nextEvidence` | core, net, scheduler | full channels and list, equal weights | ascending order; clients return |
| query cache | copy of the unstored blocks, refreshed by time | `refresh`, queries | chain, db | two sources read at different times | answers are one chain |
| core protocol (`core/net.go`) | answers and block requests by peer, `remainNums`, `inited`, broadcast filter | two-step synchronisation, broadcasts, timeouts | chain, pool, p2p | late and missing answers, wrap of `remainNums`, diverged heads | a node catches up; the initial synchronisation ends; broadcasts die out |
| core facade (`core/core.go`) | none of its own | uploads, queries, start and stop | all of `core` | order of stop | - |
| p2p node, connection manager | `connectTask`, black list, table of connections | dial, accept, add, remove | negotiator, peer provider, tcp | both sides dial; removal by ID in another goroutine; callbacks set late | no more than `maxPeersNum`; IDs are proved; no half-open entry |
| handshake (`negotiator.go`) | the attempt | request, response, refusals, 5 s timeout | node, wire | an answer racing the timeout, a socket closed under an answer | attempts end |
| peer discovery (`p2p/peer`) | seeds, table of peer states, hashes of open pings | ping, pong, neighbours, expiry | udp, node | lost, doubled, late and reordered datagrams | seeds stay, silent peers go, only live peers are handed out |
| sockets (`utils/tcp.go`, `udp.go`, `p2p/conn.go`, `tcp_utils.go`) | buffer, `recvQ`, split function | recv, send, split, close | node, negotiator | pieces of any size; split function set while recv runs; full queue | delivered in order and unchanged |
| serialisation (`serialize`) | cached bytes of what is mined | Marshal, Unmarshal, nonce in place | all messages, db | each structure written and read by two functions; carries | what is written is read back; the hashed bytes are the message's |
| difficulty (`difficulty.go`) | the last `ReferenceBlocks` gaps | `CalculateTarget`, `nextBlockTarget` | chain | two truncations, bounds of the ratio | follows the rate of blocks, within the limit |
| merkle root | none | `ComputeRoot` | db, chain | array overwritten while it is read, odd levels | root of the tree |
| crypto, rpc, cmd, `utils/lm.go` | none, or the `working` flag | conversions, I/O, start and stop | - | stop | unit tests |

## 2. Modules

| Module | Models |
|---|---|
| `Ledger` | the abstract promise of the store: a sequence that starts with the genesis block and is extended only by a child of its last block |
| `Chain` | `chain.go`, `branch.go`, `block.go`, the store as a sequence, and the scheduler as far as it feeds the chain |
| `ChainProofs` | about `Chain`: types, the stored chain, the refinement of `Ledger`, the longest chain rule, the miner; then the pointers: the block cache is a tree, every branch a path of it, evidence once, no fatal end; last `ChainSync` and `QCache`: promises to peers and answers to clients |
| `ChainSync` | `GetSyncHash` and `GetSyncBlocks` as a peer calls them, on top of `Chain` |
| `QCache` | `qcache.go` on top of `Chain` |
| `Store`, `Merkle` | `badger.go`, `schema.go` key by key, and the root over the evidence; `Store` implements `Ledger` |
| `EvPool` | `ev_pool.go`, with the callers in `core.go` and `net.go` |
| `Mining` | `scheduler.go` and `parallel_mine.go` on top of `EvPool`, the chain seen through the scheduler's calls |
| `Difficulty` | `difficulty.go` and `nextBlockTarget` along one branch |
| `Sync` | `net.go` between several nodes, the chain of each as its branch heads |
| `Peers` | `provider.go`, `table.go`, `pstate.go` of one node over UDP |
| `P2P` | `node.go`, `negotiator.go`, `conn_manager.go` and the closing of `tcp.go` between several nodes |
| `Layout`, `Messages`, `Wire` | how fields become bytes; the fields and constructors of every message; framing, receiving and mining in place |
| `StoreProofs`, `MiningProofs`, `PeersProofs`, `P2PProofs`, `SyncProofs`, `DifficultyProofs` | theorems about the module each is named after; `StoreProofs` also about `Merkle`, `MiningProofs` about `EvPool` |
| `PowerOfTwo` | `1 << n` as a recursive function, for `Difficulty` and `Merkle` |
| `Iteration` | lemmas for proofs by induction: sets of numbers closed under successor, functions defined step by step, powers of two, products and quotients |
| `MCReads` | `ChainSync` and `QCache` together on one tree, for TLC |
| `MC...` | instances for TLC |

### Chain

A `*block` is an element of `heap`, named by its hash and a copy number: a block
delivered twice can become two objects. `fordward` is a Go map keyed by hash, so
storing an entry with the same hash replaces the older one. `branches` is the list;
a branch is its head, its block cache and its evidence cache. Operations under
`branchLock` are cut into steps where a kill leaves a different database, and `pc`
names the operation that holds the lock:

| Code | Actions |
|---|---|
| `addBlocks` | `AddRemote` or `Mined`/`MinedInVain` take the lock and find or create the branch; `AddNext` verifies and adds one block; `AddDone` runs `notifyCheck` (peers only) and releases |
| `maintain` | `MaintainBegin`, `PruneStep` (one branch), `RemoveStep` (one turn of `branch.remove`), `FlushStep` (one turn of the flush: `PutBlock`, mark, evict, move on) |
| `schedule` | `StartRound`, `Interrupted`, `Mined`, `MinedInVain` |
| `Init` | `Init` (`initGenesis`), `Restart` (a kill at any step, then `initFromDB`) |

`proc` says why a process ended: `target` (`nextBlockTarget` misses references),
`store` (`PutBlock` refuses a height), `nilblock` (a nil reference is followed).
Header checks of `verifyBlock` (target, proof of work, merkle root, signatures)
are properties of a hash: `Invalid` blocks are refused, `Ahead` blocks may be
refused once and accepted later. `pendingBlocks` has one reader, so a batch is
chosen when the loop takes it. Height subtraction is modulo `Wrap`, which stands
for 2^64. The evidence of a block is a set: the same evidence twice inside one
block is not represented.

### ChainSync and QCache

Both let every step of `Chain` happen between their own. `promise` is the last
`SyncResponse`, `answer` the blocks that followed it. `CacheWalk` lists every block whose
height `GetSyncBlocks` reads: those it serves and, as entry 0, the one at the height of
the base, where it stops. A nil reference at any of them ends the process. `sortedBlocks` is the copy
of the unstored blocks; queries are operators on it and on `db`, so that an
invariant over them speaks of a query at any moment between two refreshes.

### Store and Merkle

`kv` maps keys to values, with the prefixes of `schema.go`. A transaction is one
step that writes all its keys; badger itself is external. `CheckHeight` is the part
of `PutBlock` before its transaction and `PutBlock` the transaction; `Query` begins a
query and each `Read` is one view of it. `Stop` ends the process anywhere. The mapping
to `Ledger` reads the hashes by height. Hashing two nodes is pairing them,
`TreeRoot` is the tree that `ComputeRoot` should build: its left part is the largest complete
tree that leaves a leaf to its right.

### EvPool and Mining

`raws` and `toBroadcast` are channels, `evds` the list, `uploaders` the clients
that wait in `addEvidence`. In `Mining` a job is a record with its channels, its
collector and its workers; jobs stay in `jobs` after their round. A nonce is
represented by the version of the header it was found for, so that a nonce of
another job, or one found for a header that was changed in place afterwards, is
told from the right one. Two workers may report, and the collector may time out or
be stopped, in any order.

### Sync

A node is its branch heads, the head of its longest branch, `lastHeight` (the height at
the last `notifyCheck` that changed it, behind when blocks were found here), the queue in
front of the chain's loop (`ChainLoop` takes a batch), and the fields of `net`. The nodes
were just started from a store, so `lastHeight` is at first the height of the first block
that `initFromDB` loaded, the genesis block in chains this short. `Tick` is the
ticker of the loop with everything it does: send requests, look at the answers, ask
for blocks. `Receive` is one turn of the loop on a packet, including answers and
relays; `Mine` is a block found here and broadcast. `TimeoutBlocks` gives up a
request, also while its answer is still under way, and a tick may come before the answers
to the last one; `Early` says how many of each (`<<ticks, timeouts>>`). `Lose` is a packet
dropped at a full queue. A link is a queue in each direction. `remainNums` is
modulo `Wrap`, for 2^32.

### Peers

Every time is kept as an age. `Task` is the ticker that pings and asks for neighbours,
`refresh` the one that removes, `handleRecv` one datagram at this node, `Respond` one
at a remote node, `Approach` a remote node that pings first, `Switch` a remote node
that starts or stops. All pings of one task have the same hash, as their contents are
the same; a pong names that hash.

### P2P

An attempt is a socket with a goroutine at each end (`proc`). `setupConn` dials (or fails to),
`recvConn`, `recvHandshake`, `handshakeTo` and `Refused` are the steps of the negotiator,
`addConn` the table, `loop` the manager's goroutine that removes by ID, `Write` the send
goroutine, `RemoteClosed` the receive goroutine that sees the end, `Timeout` the
5 seconds, `Breaks` a broken connection. Closing runs the callback only when it is set
already, and loses what the send goroutine has not written.

### Layout, Messages, Wire

A structure is a list of fields (number, bytes with a length, list, nested
structure), once as the Marshal function writes it and once as the Unmarshal function
reads it. Digits have base `Base`, which stands for 256. `NextNonce` overwrites four
digits of the cached bytes. `Hand` gives a message over whole (datagram, database
value), `Send` puts a packet on a stream, `Read` is one turn of `recv` with any number of
bytes, `SetSplitFunc` may come before or after it, `Take` is the reader of `recvQ`: a refused
packet ends the handshake, and later on is skipped while the connection is being stopped.

### Difficulty

`Add(gap)` is a block found `gap` seconds after the one before; the target is the one
of the next block. A target is the bit length and the first `PrefixBits` bits of a
difficulty.

## 3. Runs

| Run | Instance | Shows |
|---|---|---|
| `forks` | 12 blocks, three branches, two blocks mined here, one that repeats evidence already stored, batches of 1-2, `FairSpec` | `StaysUp`, `LongestChainRule`, `CacheIsPath`, `EvidenceOnce`, `MinerNotStale`, `SettledIsStored` |
| `faults` | 11 blocks, two invalid, one early, one batch with a gap, blocks delivered twice, one evidence twice on a chain and one on two branches, one restart | `TypeOK`, `DbLinked`, `RefinesLedger` |
| `reads` | 11 blocks, a fork that overtakes, one restart; a peer that asks for three hashes, or a query cache | `ServedAsPromised`, `AnswersAreChain`, `LatestNotBack`, `ScoreCountsBlocks` |
| `pool` | four pieces of evidence, two equal, list and channels of three | `PoolSorted`, `UploadsReturn` |
| `mining` | two jobs of one worker or one of two, one evidence, a head that moves | `NonceFitsHeader`, `OwnBlockAccepted`, `JobsEnd`, `SchedulerGoesOn` |
| `sync` | a node between two peers, behind or ahead of them, one of which finds a block; six blocks; one lost packet; one tick or one timeout that is early | `NeverMiscounted`, `CatchesUp`, `InitEnds`, `FloodEnds` |
| `agreement` | two nodes that both find blocks; one lost packet | violation, see below |
| `peers` | a seed and an ordinary peer; packets up to two units old, two under way; one loss, copy or change of a node | `SeedKept`, `FreshlyAlive`, `SilentLeave` |
| `p2p` | two full nodes and a light one whose address may have moved; two attempts, room for one connection, one slow answer or broken connection | `WithinLimit`, `Authentic`, `RemovalMeant`, `AttemptsEnd`, `HalfOpenEnds` |
| `store` | seven blocks on two branches that share evidence, up to five pieces in a block, two accounts | `ReadsWhole`, `IndexesAgree`, `StoreIsLedger` |
| `wire` | every message with empty, short and long fields; a handshake and two sealed messages on a stream in pieces of 1 to 12 bytes; a queue of one | `HashesTheMessage`, `RoundTrip`, `InOrder`, `NothingHeldBack` |
| `difficulty` | prefix of 4 bits, look-back of 3 blocks, all gaps up to three intervals | `WithinLimit`, `FollowsRate` |

Bounds. `Alpha` and `RefBlocks` are 1 to 3 instead of 8 and 20 (the code needs
only their order of use), and the trees are longer than `Alpha + RefBlocks`, so
blocks are pruned, stored and evicted while forks are open. `MaxCopies = 2` allows a
redelivered block; `MaxBranches` is larger than the number of forks. One restart
is enough to have a reloaded tree meet everything that follows. In `pool` more
evidence than places fills every queue. `mining` allows two workers in all: two of one
job, so that one reports while the other is late, or two jobs, because a job meets only
the one before it through the header they share. `sync` has answers of more than one
chunk (`Chunk = 2`), a queue of one batch so that `AddBlocks` waits, and one loss and
one early tick or timeout, which put an old answer in front of a new request. In
`peers` packets live longer than `Discard`, so that old ones are really discarded. In
`p2p` two attempts are two nodes dialing each other, or one dialing twice. In `wire`
nonces pass a carry and the end of their four digits, lengths need two digits and
packets end inside a piece. In `difficulty` the limit has more bits than a prefix, so
both truncations lose bits; blocks harder than `MinDiff` are not followed further.

`CHECK_DEADLOCK FALSE` is set where a bounded instance runs out of blocks, jobs,
attempts, faults or messages, or the process has ended.

Mutants. For each property of a passing run `PROJECT.json` names a plausible slip
in a modelled definition, and TLC finds it with that property.

Finding. `agreement`: `net.go:32` says that nodes reach agreement through the longest
chain rule. `handleSyncRequest` answers only when the head it is asked about is on its
own longest branch (`net.go:338` returns without an answer otherwise). A node that
missed one broadcast and found a block of its own is never answered by a higher peer,
and stays on its lower branch for ever. `CatchesUp` is stated with this exception.

### Known deviations

The models follow the code also where a comment or document promises more. These
places were found with TLC or while modelling, and no passing property claims
otherwise:

- `chain.go:346` subtracts unsigned heights, so a branch higher than the longest one
  is pruned, against `chain.go:18`. It needs two blocks mined here while a peer's
  branch grows.
- `chain.go:415` appends a branch before its first block is verified. Pruning that
  branch and the one it lies in follows a nil reference (`block.go:89` against the
  comment at `block.go:82`). Such a branch ends inside another one, so the same block
  can also be added to both: the second object replaces the first in `fordward`, pruning
  then cuts the path of a branch that lives, and that branch no longer knows the evidence
  below the cut. `StaysUp`, `CacheIsPath` and `EvidenceOnce` are checked and proved
  without such forks.
- `chain.go:449` measures the age of a fork on the first branch that holds its parent.
  An old fork gets in, wins, and `PutBlock` refuses its height, which is fatal.
  `StaysUp` is checked with forks within `Alpha`.
- `chain.go:290`: after a restart a fork below the head is one reference short, and
  `nextBlockTarget` ends the process (`branch.go:107`). `StaysUp` is checked without
  restarts, and proved with restarts after which no fork begins below the head that was
  loaded.
- `qcache.go:173` counts a block twice when it was stored after the refresh, against
  `doc/technical.md:363`. `ScoreCountsBlocks` holds at a refresh.
- `qcache.go:71`: an empty copy has begin and end 0, so a query for height 0 looks into
  it and is out of range; `rpc/block.go:137` lets a range begin at 0. `getBlockViaHeight`
  answers "panic" there; the properties are about heights that have blocks.
- `provider.go:199`: all pings of a tick have one hash, and the first pong deletes it:
  pongs of the other peers are ignored in that round, against `doc/technical.md:74`.
- `conn_manager.go:124`: a socket closed before the callback is set leaves an entry in
  the table for ever. `HalfOpenEnds` excepts it.
- `negotiator.go:112`: a refusing response is queued and the socket closed at once, so
  that it is mostly lost and the dialer waits for its timeout.
- `net.go:398`: the blocks of a request that was given up may arrive for the next request
  to the same peer and are counted against its number. When ticks or timeouts alone are
  early the number never wraps (`NoMiscount`). When a run has both it can: TLC finds a
  behaviour with several early ticks in which the blocks of a request that was given up
  are more than a newer request to the same peer still waits for. It takes a peer that is
  slower than the ticker (5 seconds) and, once, than the timeout (80 seconds);
  `NeverMiscounted` is checked and proved without it.
- `tcp.go:206`: bytes read before `SetSplitFunc` stay in the buffer until more bytes
  come. `NothingHeldBack` excepts them.
- `tcp.go:218`: packets that find `recvQ` full are dropped; `InOrder` counts them.

## 4. Fairness

- `Chain`: weak fairness for the steps of the goroutine that holds `branchLock`
  (Go runs every runnable goroutine). Strong fairness for `MaintainBegin`: the
  chain's loop selects between the ticker and `pendingBlocks`, Go's `select`
  chooses among ready cases at random, so a ticker that is ready again and again
  is taken. Nothing is assumed about peers or the miner.
- `EvPool`: weak fairness for the pool's goroutine and the network's loop; strong
  fairness for a client that waits on the full channel, as senders of a Go channel
  are served first come, first served.
- `Mining`: weak fairness for the scheduler and for the jobs. A worker that searches
  ends, because its range of nonces does.
- `Sync`: weak fairness for the chain's loop, the ticker and the delivery on each link;
  strong fairness for the timeout of a request, whose ticker competes in a `select`
  with packets. Losses are bounded, and nobody has to find a block.
- `Peers`: weak fairness for the two tickers, time, and the handling of datagrams.
- `P2P`: weak fairness for the goroutines and loops together. Nobody has to dial.

## 5. Proofs

Every theorem holds for every value of the constants that satisfies the named
assumptions: any tree of blocks, any batches, any number of nodes, attempts, jobs,
packets, and all bounds. A run checks the same definition on a small instance.

| Module | Theorems |
|---|---|
| `ChainProofs` | `TypeCorrect` (`TypeOK`), `StoredChain` (`DbLinked`), `LedgerRefinement` (`RefinesLedger`), `LongestChain` (`LongestChainRule`), `MinerFollows` (`MinerNotStale`) |
| | `TreeInvariant`, `EvidenceOnceOnly` (`EvidenceOnce`), `RunsOn` (`StaysUp`), `CachesArePaths` (`CacheIsPath`) |
| | `KeepsPromises` (`ServedAsPromised`), `OneChainAnswered` (`AnswersAreChain`), `LatestOnlyRises` (`LatestNotBack`), `ScoresAreBlocks` (`ScoreCountsBlocks`) |
| `StoreProofs` | `StoreRefinesLedger` (`StoreIsLedger`), `AccountIndexes` (`IndexesAgree`), `QueriesReadWhole` (`ReadsWhole`), `MerkleRootOfTree` |
| `MiningProofs` | `NonceFits` (`NonceFitsHeader`), `OwnAccepted` (`OwnBlockAccepted`), `StaysSorted` (`PoolSorted`) |
| `PeersProofs` | `TypeCorrect`, `SeedsKept` (`SeedKept`), `OnlyFreshlyAlive` (`FreshlyAlive`) |
| `P2PProofs` | `TypeCorrect`, `NeverTooMany` (`WithinLimit`), `PeersAuthentic` (`Authentic`), `RemovesOnlyClosed` (`RemovalMeant`) |
| `SyncProofs` | `Types`, `NoMiscount` (`NeverMiscounted`) |
| `DifficultyProofs` | `TargetsWithinLimit` (`WithinLimit`), `RateIsFollowed` (`FollowsRate`) |

### Assumptions on constants

- `Chain`: `TreeAssumption` (hashes form a tree with depths), `BatchAssumption`
  (batches are not empty and do not hold the genesis block), `BoundAssumption`, and
  for the tree of pointers `LimitAssumption`: heights fit in the word (`Depth[h] < Wrap`), and the
  cache is long enough for a fork of age `Alpha` and the blocks its target is computed
  from (`Alpha + RefBlocks <= SyncMax + 1`; in the code 8 + 20 and 128). Nothing is
  assumed about validity, order or repetition of what peers deliver.
- `Store`: the tree as above; `Symbols`, the prefixes of the keys are told from hashes and
  accounts as the code's key lengths tell them.
- `Peers`: `Discard` and `PingInterval` are shorter than `Expired`, as in `provider.go`.
- `Difficulty`: positive parameters, and `MinDiff >= 2^(PrefixBits-1)`: no block is followed
  whose difficulty has less bits than a prefix. In the code that is a hash below 2^24 of
  2^256, which nobody finds; below it the ratio of two truncated numbers is not bounded.
- `Sync`: the tree as above, a symmetric relation of peers, positive bounds.
- `Mining`, `EvPool`, `P2P`: types and positive bounds only.

### The stored chain (`ChainProofs`, first part)

`DbLinked` is not inductive. `maintain` stores the object its pointer is at; that
this is the child of the last stored block depends on how the pointer got there.
`Inv` adds `Links` (a backward reference leads to the parent's hash and a height
lower by one, a forward reference to a child), `StoredInDb` (an object marked
stored is in the database at its height), `Anchored` for `oldestBlock` and for the
flush pointer (the object is stored, or is the child of the database's last
block), and `DbDepth` (the height of a stored block is its depth). `FlushStep`
then appends a child, and `Restart` re-establishes `Inv` from the database alone.
`LongestChain` needs in addition `NotAhead`: `lastHeight` never exceeds the height
of the longest branch, so a branch not higher than `lastHeight` is not higher than
the longest one. `MinerFollows` has `[][~Refusal]_vars` as a hypothesis: a batch that
is given up at a refused block skips `notifyCheck` (section 6).

### The tree of pointers (`ChainProofs`, second part)

`Tree` is inductive on top of `Inv`: references come in pairs (`Mutual`), children of
a block have different hashes (`Keyed`), only `oldestBlock` has nothing behind it
(`Grounded`), the cache of every branch is the path from its head to `oldestBlock`
(`Paths`), its evidence is that of the path and none is on it twice (`EvdsKnown`), branches
end in different leaves (`Tips`), and what is known of the pointer of `remove` and of
the flush (`Removing`, `Flushing`). `Apart` adds that no evidence is in two stored blocks
and none in a stored and an unstored one. Evicting needs that the evicted block is the
last of every branch; pruning, that the loop of `remove` stops at the first block that
another branch needs; a restart builds a `Tree` of one branch from the database.

Hypothesis: `[][~DeadFork]_vars`, no fork is left without its first block
(`chain.go:415` in the known deviations: without it `Tree` is false of the code). Kills and
restarts are allowed. `EvidenceOnceOnly` follows: the chain below a head is a path
of the cache and the part of the database below it, which `Apart` holds apart.

`RunsOn` and `CachesArePaths` need how deep the cache is: `Sound` says that every branch
has `RefBlocks` blocks above `oldestBlock` or the cache reaches to the genesis block
(`Deep`), that what is in the database is marked on every branch (`Flushed`) and, until a
restart, below `Alpha` from the longest head, and that in a flush every branch is within
`Alpha` (`Close`). Their hypothesis `Undisturbed` also leaves out forks older than `Alpha`
at their first block (`LateFork`) and, after a restart, forks below the end of the database
(`StoredFork`); each is one of the known deviations that end the process in the code.
Before a restart the database ends below `Alpha`, so that `StoredFork` asks nothing there;
`initFromDB` takes the last stored block for the head and loads `RefBlocks` below it, so that
only a fork above that head has its reference blocks (`RestartSound`). Kills and restarts
themselves may come at any step.

### Promises and answers (`ChainProofs`, third part)

`Promised` is a fact about hashes: the depth of the promised block is that of the block
asked about plus the announced number. It is established by `GetSyncHash` from the
pointers (`TrailDepth`) or the database, and nothing can change it. When the blocks are
asked for, `Tree` gives that the cache of the longest branch is a path, so the walk meets
exactly the blocks in between (`TrailOnPath`), and `DbLinked` gives the same for the database.
`Copied` says that the copy of the query cache has no gap and that the block below it was
in the database when it was made; the database only grows, so this stays true.
`LatestOnlyRises` needs `Below`: neither the copy nor the database is ahead of the longest
branch, which never gets lower without a restart (`NotLower`). All three have
`[][~DeadFork]_vars` as a hypothesis and allow restarts. `ScoresAreBlocks` has `Undisturbed`,
because it needs that stored blocks are marked on the longest branch (`Flushed`).

### The other modules

- `StoreProofs`. `BlockWrites` and `WrittenKeys` say what a transaction writes, key by
  key; `Holds` says what a database with `n` blocks looks like, and `Grows` that `PutBlock`
  makes one with `n + 1`. `Pending` is what the check outside the transaction still
  guarantees when it runs. `AccountIndexes` is stated for states in which no evidence is
  in two stored blocks (`StoredOnce`): that is what `Apart` gives for the chain that calls
  the store. `QueriesReadWhole` has an invariant on what a query has read at each of its
  views, and rests on `RootIsTree`: the root over a list of evidence is that of the tree,
  and only the empty list has the empty root.
- The merkle root, in `StoreProofs`. `MerkleRootOfTree` is an induction over the passes: after
  `l` of them the array holds the roots of the complete trees of `2^l` leafs and one of
  what is left (`IsLevel`). In a pass, a place is overwritten only after it was read.
- The pool, in `MiningProofs`. `getIndex` is a binary search, a function of the number of its turns;
  `NarrowStep` is one turn, `PlaceFound` the induction, `InsertSorted` the whole insert
  with its cut at the limit.
- `MiningProofs`. `Awaited` says that whatever the job that is waited for, its collector
  or one of its workers can still deliver was found for the present header (`Fits`),
  `NewToChain` that the evidence of a block that still builds on the head is not on the
  chain.
- `PeersProofs`. `Answered` says that the sender of a pong under way has spoken within the
  pong's age, `Spoken` that the peer of an active entry has spoken at most `Discard` before
  the entry was renewed, `Named` the same of the peers named in an answer.
- `P2PProofs`. `Entries` ties an entry of the table to the end of a socket that was added
  here under that identity, `Proved` says what the handshake found out about the other end,
  `Fresh` that only an added connection has a callback, `Waiting` and `Listed` that a pending
  removal and an open connection with a callback have their entry.

### The exchange of blocks (`SyncProofs`)

`NeverMiscounted` says that `remainNums`, which is unsigned, never passes zero. That depends
on what is on the two links between a node and a peer: an answer that is late is counted
for the wrong request, and a request is answered in several packets. `Exchange` is
inductive. `Typed` gives the types (`Types` is a theorem of its own). `Asked`: while blocks are
awaited, no answer for hashes is kept, welcome, or, unless a tick was early, under way.
`Counted` says for every peer what is under way. When blocks are awaited, `Measured`: there is
one request, or there are packets whose blocks lie in order, do not overlap and fit in
what remains. When none are, nothing of that kind is under way (`Quiet`), or a request was
given up early and all that belongs to it arrives before the next answer for hashes
(`Ordered`). `Kept` and `Untouched` say what an action leaves of a link, and `ChunksAreRuns`
that `handleBlocksRequest` cuts the blocks without overlap. A lost packet takes nothing from this.

Hypotheses of `NoMiscount`. `NotBothEarly`: in one run ticks may be early or timeouts, any
number of times, but not both (section 3, known deviations: with both TLC finds a wrap).
`CountsFit`: chains are lower than half of the range of the counter, 2^31 in the code.

### The difficulty (`DifficultyProofs`)

`BitLenDef` and `BitLenUnique` say that `BitLen` is the number of digits. What a target keeps
of a difficulty is `Floor`: `TargetGivesFloor` and `TargetOfFloor` tie it to the two
conversions, `FloorMonotone` and `FloorBounds` say that it keeps the order and loses less than
one unit of the prefix. `ScaledBounds` and `ScaledMoves` do the same for the ratio; the
products and quotients come from `DivBounds` and `TimesMonotone` of `Iteration`, as the solver
knows little of products of variables. `TargetsWithinLimit` is inductive together with the
types of the window, `RateIsFollowed` follows from what one `Add` does (`AddFollowsRate`). Of the
sum of the gaps only its type is used, so the theorem holds for any total.

### How induction is done

The induction theorems of the library take an operator, which the installed provers do
not instantiate. `Iteration` proves induction for a set of numbers instead
(`SetInduction`): the statement becomes a set comprehension, an object the provers take.
`Ancestors`, a recursive function over hashes, is shown to be the least set closed under
`Parent` (`AncestorsOf`).

### Only model-checked

- The liveness properties (`SettledIsStored`, `UploadsReturn`, `JobsEnd`,
  `SchedulerGoesOn`, `CatchesUp`, `InitEnds`, `FloodEnds`, `SilentLeave`, `AttemptsEnd`,
  `HalfOpenEnds`): fairness is out of the prover's reach.
- `Wire` (`HashesTheMessage`, `RoundTrip`, `InOrder`, `NothingHeldBack`): structures are nested,
  `Layout` needs recursive operators, which the prover cannot take.

## 6. Limits

- `MinerNotStale` is checked with valid blocks. When the second block of a batch
  is refused, `addBlocks` returns before `notifyCheck` and the miner is not told;
  the code promises nothing for that case.
- In `Mining` the chain is a counter and the evidence on it; the real tree is in
  `Chain`. `LatestBlockHash` and `NextBlockTarget` are separate calls in the code,
  the target of a block whose head moved in between is not modelled. Evidence taken out
  of the pool for a round that is interrupted is dropped (`scheduler.go:112`), as in the
  code; no property is about it.
- In `Sync` every block is valid, no batch with a gap comes to be added in the bounds of
  the runs, and evidence broadcasts are left to `EvPool`. The data race on
  `broadcastFilter` (`net.go:132`) has no model, nor has the hour after which its entries
  expire (`net.go:109`): a flood that takes so long is not covered by `FloodEnds`.
- `AttemptsEnd` is about the goroutines of the handshake and the socket; that `conn.loop`
  (`conn.go:42`) ends is not part of `P2P`.
- `Layout` writes the port of an address in the 4 bytes of its type; the table in
  `discover.go:35` gives 8.
- `Store` has one query in flight; queries do not see each other.
- `qcache.go` has queries by hash that read the copy alone; they are left out.
- `Difficulty` is exact where the code uses floating point numbers of 53 bits.
- In `P2P` and `Wire` keys, signatures and sessions are terms: a response verifies
  only with the key of its maker, a sealed packet opens only unchanged.
- `Peers` leaves out `coolingPeers`, which nothing fills, and how many peers are asked
  for. `Wire` is one direction of a connection.
- `SortAndComputeRoot` is used by the command line client only.

## 7. Not modelled

- `crypto`: wrappers of cryptographic libraries without state.
- `rpc`, `cmd`: parse a request or a command line, call once, format the answer.
- `utils/lm.go` and the order of start and stop in `core.go`, `node.go` and `net.go`:
  the models run until they are killed. Places where a stop can wait for ever are
  among the hazards.
- The queues of `protocol.go` are the links of `Sync`.
- `gcLoop` of the store changes no key.

## 8. What is left

1. `Wire`: `Layout` without recursive operators, so that something can be proved about it.
2. `Sync`: a bound on the blocks of requests that were given up, to say how far the counter
   can be off when ticks and timeouts are both early.
3. The liveness properties, for a prover with fairness.
