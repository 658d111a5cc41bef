# Verification of the MassNet miner

TLA+ modules that model the miner, TLC configurations that check them on small
instances, and TLAPS proofs of what matters for every instance.  Paths below are
relative to the repository; `PROJECT.json` maps every definition to its lines.

## 1. Inventory

The miner fills disks with proofs of capacity (plots), looks up proofs for the
challenges of the chain, and makes blocks.

| part | code | state | operations |
|------|------|-------|------------|
| SpaceKeeper v1 | `poc/engine/spacekeeper/capacity` | the work spaces in maps by state, the list in use, the plotter's queue, its channel, the popped item, `stateLock`, the service state, `quit` | OnStart, OnStop, Configure*, PlotWS, MineWS, StopWS, RemoveWS, DeleteWS (and Multi forms), GetProof(s); the goroutines spacePlotter and monitor |
| MassDB v1 | `poc/engine/massdb/massdb.v1` | two map files with a checkpoint each, `plotting`, `stopPlotCh` | CreateDB, OpenDB, Plot, StopPlot, Delete, Close, Progress, GetProof; the goroutine executePlot |
| ProofRW | `poc/engine/engine.go` | a channel, a mutex, a context | Write, Read, Close |
| SpaceKeeper v2, MassDB chiapos | `poc/engine.v2/spacekeeper`, `.../massdb` | as v1, over finished Chia plots | as v1; Plot, StopPlot and Delete of the database do nothing |
| PoC miner v1, v2 | `poc/engine*/pocminer/miner` | the mined height, the block template in work, quit channels | generateBlocks, solveBlock, getBestProof, submitBlock |
| Superior | `fractal/superior.go` | the task cache (task to channel), subscribers, the latest task; for the remote one a connection and its collectors | AddTask, RemoveTask, SubmitCollectorMsg, Subscribe, reborn |
| Collector, pool | `fractal/collector.go`, `pool.go` | the current task, a superior, the pool's members | handle task, submit qualities, proofs, signatures; allow, remove |
| Connection | `fractal/connection`, `reader.go`, `writer.go` | read and write loops, heartbeat, stop | Send, Receive, Stop |
| Wallet | `poc/wallet/keystore` | key stores with their address managers, locked or not, a database | create, import, export, unlock, lock, delete |
| Wallet database | `poc/wallet/db` | buckets over LevelDB or RocksDB, transactions | Begin, Put, Delete, Commit, Rollback |
| Server, API, CLI | `server`, `mass.go`, `api`, `cmd` | which services run | start and stop orders, requests |

How they interact.  The API configures the space keeper and calls
ActOnWorkSpace; the space keeper owns a MassDB for each space and calls its
Plot and StopPlot from the plotter's goroutine, the monitor's and the caller's.
The miner asks for proofs, in version 2 by a task it gives to the superior; local
and remote collectors answer through the superior's channel of that task.

What is hard here:

* concurrency: `stateLock`, the queue's mutex and the plotter's blocking channel;
  a monitor for each space; a service that may be restarted while goroutines of
  the last run live; locks held over blocking sends (space keeper, superior, ProofRW);
* requests that read, then act: a handler of the API makes several calls into services
  that others stop meanwhile;
* failure: a plot is cut by a stop, a failing write or a crash, and is resumed from
  a checkpoint; Configure fails half way; connections are lost and a relay connects again;
  the process ends between two database updates of the wallet;
* numbers: windows cut to the memory that is free, their parity, buffers that end
  inside a record pair; keys with leading zeros; heights subtracted as unsigned numbers.

For each part, what makes it correct:

* SpaceKeeper v1 and v2: the maps by state partition the spaces; a space is Plotting
  exactly while one plotter works on it; only complete plots serve proofs; after OnStop
  nothing is plotted; OnStop returns; who asks is answered, completely;
* Configure: the capacity that was asked for, also when asked again, after a failure and
  after a crash;
* MassDB: below a checkpoint that survives a crash the files hold what the plot
  computes; checkpoints only grow; HashMapA goes only after a durable, complete
  HashMapB; a plot ends; a finished plot has a verifying proof for every value that
  has one; a database is found again as it was made;
* miner: no height twice; the earliest and best block; never before its time; a stale
  round is given up; stop returns;
* cluster: everyone is asked, the answers used are the right ones, nothing is closed
  twice; messages in order; a lost connection is noticed on both ends and made again;
* wallet: one passphrase, memory and database agree, locked means no private key, no
  generated key is lost; the database is a tree of buckets;
* server, API: a stop stops everything, every request and the process end; answers put
  together from several reads do not contradict themselves.

## 2. Modules

| module | models | used by |
|--------|--------|---------|
| SpaceKeeper, SpaceKeeperProofs | the v1 keeper: calls, plotter, monitors | KeeperCalls, KeeperLive |
| Configure | the v1 keeper: which spaces are made and used | Handlers |
| Spaces | listing spaces and their ids, both keepers and the API | Handlers |
| ProofStream | GetProofsReader and ProofRW of v1 | Handlers |
| MassDBPlot, MassDBPlotProofs | executePlot over its two files | PlotCrash |
| MapFile | headers, positions, CreateDB, OpenDB, Progress, Delete | Handlers |
| ChiaKeeper, ChiaKeeperProofs | the v2 keeper, its worker pool and both streams | Chia |
| Miner, Node, NodeProofs | both miners; process, handlers and services around them | Node |
| Dispatch, DispatchProofs | LocalSuperior, LocalCollector, v2 solveBlock | DispatchCollectors, DispatchLive |
| Conn, ConnProofs | one connection with readers and writers | ConnLive |
| Relay, ConnProofs | remote superior, collector pool, lost connections | RelayLive |
| Codec | the protocol's messages | Handlers |
| Keystore, KeystoreProofs | the wallet | Wallet |
| KeyRows, HDKeys, Mnemonic | its rows, keys and sentences | Handlers |
| WalletTree | what the database promises | WalletDB |
| WalletDB, KeystoreProofs | both drivers over a flat key space | WalletStore |
| Ledger, Amounts | the API's answers on blocks, transactions, amounts | Handlers |
| HandlersProofs | theorems about Configure, ProofStream and Ledger | |
| Bindings | the client's lists of bindings | Handlers |
| Bytes | numbers as digits | the conversions |

MC modules hold the instances.  Composition: Node EXTENDS Miner and stands for the whole
process, with the keeper and the wallet as the services the handlers see (their insides
are SpaceKeeper and Keystore); Relay takes over from Conn what a connection promises;
WalletDB refines WalletTree; MCHandlers puts together what runs in one request.

### SpaceKeeper.tla

State: `svc`, `quit`, `starts` (the service and its goroutine generations); `index`,
`all`, `state`, `list`, `using`, `created` (workSpaceIndex, ws.state, workSpaceList,
ws.using); `queue`, `rest`, `popped`, `chan` (plotterQueue as a bag of items, what
Delete is about to put back, poppedItem, newQueuedWorkSpaceCh); `pc`, `cur`, `mon`
(each plotter, its item, its monitors); `db`, `stopCh`, `done`, `onDisk` (each MassDB as the
keeper sees it: idle, `plotting` set and its stopPlotCh not made yet, running, or with its result sent and
`plotting` still set); `cut` (plots that were interrupted and may be resumed at an odd checkpoint); `closing`
and `lost` (the spaces whose StopPlot by a monitor is between its look at `plotting` and its close, and the plotters whose
monitor's StopPlot came before the plot had its stopPlotCh); `call` (what each client is doing); `panic`.

Actions: OnStart, OnStop and its return after wg.Wait; Configure and its failure
after some spaces; PlotWS, MineWS, StopWS, RemoveWS, DeleteWS by any client, each
split where the code blocks or leaves a lock (the send into the channel, the
queue's emptying and refilling in Delete, StopPlot's look, close and wait); the plotter step by
step (start, quit check, pop, Step 1 to 3 of plotSpace, select, exit), MassDB's Plot in its two steps
(the compare-and-swap; making stopPlotCh and starting executePlot) and the
monitors, whose StopPlot may come before, between and after them; the end and the tail of executePlot.

The priority queue (prque) is external: a bag from which the item of highest priority
is popped.  BaseService is external: OnStart and OnStop are called once in turn.
Memory races inside prque and on its size are left out, as is the panic of a WaitGroup that is used again
before an earlier Wait has returned.  Configure is one step: it takes no `stateLock`, but the handlers refuse it while the
service runs, and the plotter and the calls that would meet it need a running one; its new spaces are
unindexed and Registered (Configure.tla has the others).

### MassDBPlot.tla

State: `data`, `ck` (the two files as they are read), `synced`, `syncCk` (what a
crash of the machine leaves), `mem` (hm.checkpoint), `hasA`, `fileA`; executePlot's
`pc`, `map`, `start`, `end`, the cache (`slots`, `count`), `stop`, `runs`.

Actions: Plot, StopPlot; ReadCheckpoint, Window (makeAvailableMemory with any amount
of free memory, calcWindowSize), Scan, WriteBlock (blocks of any size), WriteAborts
(stop or a failed write), Sync, Checkpoint, CheckpointSync, MapDone, LastSync,
Cleanup, Return; Crash, with any subset of the unsynced slots and checkpoints kept,
followed by OpenDB.

What a window computes is data: P and FB are constants, RecordA and ProofB say what
the loops leave in a slot, and the byte-wise reading through bufio.Reader is modelled
by what it returns (ReadByte), short reads included.  A record's bytes are the digits of its
value (Encode, Decode).

### Dispatch.tla

How the v2 miner has its work done by collectors on the same machine: `LocalSuperior`,
`LocalCollector`, and `solveBlock` with `getBestProof` as the superior's client.

State: solveBlock's `round`, `mpc`, `best`, `proof`, `sig` and the miner's `quit`;
the superior's `cached`, `closed` (taskCache and the channels that RemoveTask closed),
`answers` (each task's channel), `latest` (latestTask), `holder` (the handler that waits
for room inside taskCacheLock), `posts` (the sends Broadcast gave to the pool),
`subscribed`; each collector's `cpc`, `own` (latestTask as its Subscribe read it),
`inbox` (requestCh), `current` (whom qualitiesCanceller cancels), `cancelled`; `job` and
`slot` of every request handler; `panic`.

Actions: the miner step by step (AddQuality, SetLatest, Broadcast; ReceiveQualities,
QuitCollect, StaleCollect, Finalize; EndQuality; AddProof, SendProof, ReceiveProof or
ProofTimeout; the deferred DropProof, DropQuality; Assemble; the same for the signature;
OnStop, GenerateBlocksEnds); the collectors (Register, ReadLatest, SendOwn, Process,
ProcessorEnds, WaitStop); a pool goroutine's RunPost; the handlers (TrySlot, TrySlotsEnds,
and submitCollectorMsg as SubmitUnknown, Submit, SubmitBlocks, SubmitResumes, Abandon).

Abstraction.  Clocks are open: a ticker, a timeout or a slot that has come is a step that
may be taken at any moment.  A task's uuid is its round and kind.  A report carries its
slot and a score (`Score`; 0 is below the target), and `Bound` says whose plots pass
PassBinding.  GetQualities, GetProof and SignHash succeed or fail when the handler starts.
Left out: the 100 entries of taskCache (`TasksInUse` shows that at most one is in use), the
pool's limit of 128 goroutines, and the preference a waiting writer has in the RWMutex.
`Early` collectors have subscribed before the first round.

### Conn.tla

An end of a connection has the routines receive, send, keepalive and aliveness around a
socket, a MessageSender that feeds the two send channels and a MessageReceiver that drains
the receive channel.  State per end: the script of its user, both channels, what send and
receive hold, the timers, `parent` (its context), where waitStop is; the wire of each
direction and whether the path is cut.  Actions: Forward, Poll, Select, Write, WriteFails,
Read, ReadFails, TooLarge, Ctrl, Deliver, Receive, ReaderEnds, Tick (a ping), the timeouts, Cancel,
ParentDone, Cut, WaitStop, Stopped; CallStop is the part of those that meet an error and spawn waitStop.  The network is external: it keeps the
order, a closed socket is read to its end, a cut is told to no one.

### Relay.tla

PersistentRemoteSuperior and RemoteSuperior on a relay; CollectorPool and RemoteCollector on
the pool's side.  State: each connection slot, the tasks on their way; the relay's current and
old connection, its processor, `stopping` and `stopped`, where waitStop and reborn are, its
local collectors; the pool's members and the superior's broadcasts, each a goroutine of its own.
A connection is lost at any moment, also while reborn is between its assignments or the pool is making
its collector.

### Keystore.tla, KeyRows.tla, HDKeys.tla, Mnemonic.tla

Keystore: the database (`disk`), the managers (`mem`), `unlocked`, the public passphrase, the
GenerateNewPublicKey under way (the only call that leaves `kmc.mu` in between), an exported
file.  Actions: open, restart, NewKeystore, ImportKeystore, ExportKeystore, DeleteKeystore,
Unlock, Lock, ChangePubPassphrase, ChangePrivPassphrase, GenerateNewPublicKey in its two
steps, SignHash, each also with the failure of its database update.  A box is the passphrase
that opens it and a key that was cleared opens nothing, so that a cleared key that is used
later shows.  KeyRows: what is put under which row and in which bytes.  HDKeys: Child, Neuter,
String, NewKeyFromString over a small group, with keys as byte sequences of varying length,
because Child leaves out leading zeros.  Mnemonic: words and checksum with fewer bits but the
same proportions (4 bytes and one bit are three words).

### WalletTree.tla, WalletDB.tla

WalletTree is the promise of `db.go`: a tree of buckets and one write transaction that nobody
sees until it commits.  WalletDB has the flat keys of the drivers, character by character where
prefixes decide (`<depth>_<names>_<key>`, `b_<depth>_<names>`), their prefix iterations for
clearing, deleting and listing, and transactions (`tx` is the set of the open one's store: one or
none).  deleteBucket is the code's recursion as a function of the levels left: the names are listed,
each sub bucket that is still there is deleted, then the pairs and the index entry go; leveldb puts the
pairs into a batch that is written at the end, rocksdb deletes them at once, and both read the
transaction as far as it has come.  Nesting stops at eight levels, because the depth in front of a flat key is one
character up to nine (the wallet nests three deep).  `IsTree` is WalletTree with the buckets and
pairs that the flat store holds; `ListsExact` says that the iterations list the bucket they are
asked for and nothing else.

### ChiaKeeper.tla

Index, state maps, list, the plotter's queue; the plotter step by step, with its look at the queue (which
takes no lock), its look at quit, its pop and its select apart; ActOnWorkSpace(s) of
clients, StopWS and RemoveWS with the Delete that takes item by item out of the queue and puts the rest back; queries with a worker pool and, for the reader forms, the writer, the goroutine that
closes the stream with the context and the caller who reads.  A Chia plot is complete when it is
found, so the branches for registered and plotting spaces cannot be reached and are left out.
A pop from an empty queue panics and ends the process (`Alive`).  The worker pool is a library; that it refuses
a job (`SubmitFails`) is modelled from how the keeper treats its error.

### Miner.tla, Node.tla

Miner: generateBlocks, solveBlock, the search slot by slot (v1) or through reports (v2), the stale
monitor, signing, waiting for the block's time, submission, minedHeight, the channel to the sync
manager.  Node: main's start order for each mode (core, m1, m2), the interrupt, the handlers
ConfigureCapacity, PlotCapacitySpaces, MineCapacitySpaces, StopCapacitySpaces and QuitClient,
lock and unlock, as sequences of calls into services.  A mode has stand-ins for the services it
lacks, and handlers do not look at the mode.  The stale monitor's look at the best node (CheckTip) and its
registration for the next one (Watch) are two steps.  The keeper's OnStop is not instant: it returns, or never
does (`hung`: SpaceKeeper shows when); v2's miner may stay in RemoveTask for ever (Hangs: Dispatch shows when).
A second Stop of a service waits for the first one.  Chain, clock and sync manager are external.

### Configure.tla, Spaces.tla, ProofStream.tla, MapFile.tla

Configure: generateInitialIndex over files with old names, duplicates and foreign keys;
ConfigureByBitLength, BySize and ByPath with the greedy choice of sizes, the generation of spaces
one by one, failure and crash in between, and what plotting takes of the disk meanwhile.  A request the handler
turns away (the keeper runs or is being configured, no room, too small) is a call that fails and is remembered
in `refused`.  A directory that is named twice is filled, shown and counted twice.  The plotter's queue is
not part of it (SpaceKeeper has it), so the flags execPlot and execMine are not either.  Files may have any
bit length EnsureBitLength admits (24 to 40, even); a size is met with spaces of 24, 26 and 28 only.  Spaces:
flags, listing, ids and the order inside a directory.  ProofStream: workers, the writes under a
mutex, Close by the end or by the context, the reader.  MapFile: the header's bytes, the position of
a record, what CreateDB, OpenDB, Progress and Delete make of the files on the disk, also after a
crash anywhere in CreateDB.

### Ledger.tla, Amounts.tla, Codec.tla, Bindings.tla

Ledger: one handler of GetBlock, GetTransaction status, GetCoinbase or the pool, read by read, beside a
chain that grows and reorganises.  Every block has a coinbase of its own with its own maturity; in the run only the
first one is spent, because a reorganisation would take the spenders of a later one with it, which is
the chain's business.  GetCoinbase counts one confirmation less than the others and has an error for
the first block, which has no predecessor.  Amounts of inputs, outputs and fees are left out: what is shown is a sum of what was read.  Amounts, Codec: conversions and their inverses.  Bindings: which
plots a client lists from directories and which from a running miner: a v1 file whose name disagrees with the
wallet's ordinal or with its header is listed offline and skipped by the keeper.

The conversions (Amounts, Mnemonic, HDKeys, KeyRows, Codec, MapFile) go down to digits because their properties are about
leading zeros, padding and lengths; nothing else depends on that detail.

## 3. Runs

| run | question | parts of its composed properties |
|-----|----------|----------|
| KeeperCalls | two clients on two spaces, one start, all interleavings | IndexConsistent, PlottingOwned, OnlyPlottedServes, PoppedIsPlotting |
| KeeperLive | OnStop returns and plotting ends, over a second start beside plotters of the first, with resumed plots that only a stop ends; the invariant of the proofs | KeeperInv: section 5 |
| PlotCrash | three plots with stops, scarce memory, failing writes and crashes | PlotComplete: ProofsComplete, CheckpointComplete |
| DispatchCollectors | two collectors, one subscribing and both stopping within a round, channels that fill | NoPanic, AnswersMatch, EveryoneAsked |
| DispatchLive | two rounds, channels of one place that fill | BothStop: MinerStops, CollectorStops |
| ConnLive | one fault anywhere on a connection | Ordered: each priority without gaps, a priority message overtaken by one ordinary message at most. DeliversOrEnds: messages arrive while it stands, waitStop returns, both ends go down |
| RelayLive | a connection lost at any moment, a full pool, a stop at any moment | BoundsKept: collectors in the pool and running, one processor and one reborn of a relay at a time. Recovers: the relay connects again, a stopped one rests, dead collectors leave. Converges: collectors come to the latest task |
| Wallet | two keystores under every sequence of calls and ends of the process | StoreAgrees: memory is what a restart loads, keys by their numbers |
| WalletStore | both drivers refine the tree | Implements: IsTree, ListsExact |
| Chia | calls, plotter, stop, pool of one, streams | AllServed: query, writer, queued plot and OnStop come to their end |
| Node | each mode from start to exit with two handlers | WorkEnds: stale rounds, broadcasts, requests, the process |
| Handlers | what one request does, over all small inputs | CapacityKept, LedgerAnswers, StreamSound, RoundTrips, FilesSound, SpacesListed; the first three are defined in Configure, Ledger and ProofStream, the others in MCHandlers |

All twelve pass.

The liveness properties name what they except, each time a state in which the code really stays for ever
(section 6), and TLC reports a violation when the exception is left out:

| property | excepted |
|----------|----------|
| StopReturns | a panic; `ChanFull`, a request that waits for ever for room in the channel and keeps stateLock; `StopLost`, an endless plot whose monitor's StopPlot came too early |
| PlottingEnds | a panic; `ChanFull`; `Endless`, a plot resumed at an odd checkpoint that nobody stops |
| PlotEnds | a resumed plot |
| RoundEnds, MinerStops | `Jammed`, the miner waits for ever for the lock of a handler that waits for room |
| DeliversOrEnds | `Stuck`, receive waits for ever for room in recvCh |
| Reconnects, Converges | `Undone`, reborn's stores came after the waitStop of the processor it started |
| DeadRemoved, Converges | `PlaceLost`, a collector that stopped before it was added |
| Converges | `stale`, two sends to a collector that overtook each other |
| QueuedMines | a call or a stop comes in between; `Missed`, the plotter saw the queue empty while Delete had it |
| all of AllServed | the panic of a pop from the emptied queue |
| StaleGivesUp | `late`, a node that came between the monitor's look and its registration |
| Exits, Replies | QuitClient (`shutdown`); `Hung`, the keeper in OnStop or v2's miner in RemoveTask |

### Bounds

Keeper: two spaces and two clients make every pair of calls meet on one space and on two; two
starts are what it takes for a plotter of one start to meet the next; `MaxCalls` bounds the calls
of a behaviour; a channel of one place stands for 1024 so that it fills.  KeeperCalls begins with two spaces, one of
them half plotted (`CutFound`).  In KeeperLive a Configure is one of the two calls, so that ChanFull does not come
up there; with a space found at the start, one start and two calls (49,808 states) all three exceptions of
StopReturns and PlottingEnds come up, the properties hold, and fail without any one of them.
PlotCrash: eight values (bit length 3) and windows of three to ten slots give two or more windows for
each map and an odd rest; three runs are a plot, a resumption and a resumption of that.
Dispatch: one collector is subscribed from the start and one comes in between, so that every overlap
of a Subscribe with a broadcast happens; two rounds are what it takes for a late answer or broadcast to
meet the next round; `TaskCap` is 1 for the real 10, so that one collector with three slots fills it.
ConnLive: capacities of 1 make every send block; three messages are one of high priority and two that
it may meet; one fault of any kind, because every fault ends the connection.
RelayLive: two connections (an old and a new one), one place in the pool, so that the new one needs the
old one's, two tasks and one loss, of either connection and at any moment.
Wallet: two accounts tell "the first of the map" from all; three passphrases are a private one, a public
one and a new one; two addresses reach the limit.  Accounts and passphrases are symmetric.
WalletStore: a name that begins with the other and one that is refused, a key with the separator, buckets
three deep, four entries; sub buckets, a sibling and a pair fit in, so that a deletion has something to leave.
Chia: a plot that lies in both directories, one worker for two plots, a stream with more results than
plots; two calls or one query.
Node: two heights, a clock of four slots (one without a quality, one that only reaches its target), three
best nodes; the processes of `MCStarts`, among them two overlapping requests.
Handlers: three calls of Configure* on two directories and seven keys; five blocks and two transactions,
heights below 16 so that differences wrap; conversions over small bases and lengths with all inputs.

CHECK_DEADLOCK is off where the bounds, or a service that is stopped for good, end the behaviour.

### Fairness

Weak fairness of every goroutine's next step: the Go scheduler runs what can run.  A timer fires
(the miner's timeouts, the keepalive of a cut path: TimeoutWhenCut), the clock ticks, a dial succeeds in the
end.  Strong fairness only for Submit of the v2 pool, whose condition variable hands free workers
to those who wait in turn.  No fairness of clients, of start and stop, of crashes, cuts and cancellations,
of the chain.  A first plot ends by itself, its work being bounded, and any plot ends that sees its stopPlotCh closed,
which executePlot looks at in every loop (weak fairness of `PlotMustEnd` in SpaceKeeper); a plot that was
resumed may go on for ever (MassDBPlot shows why), and then only StopWS or the monitor ends it.  Some handler with a step takes one and some pool goroutine
(less than the scheduler gives each of them).

## 4. Refinement

`WalletDB!IsTree` is WalletTree's specification under the mapping from flat keys to buckets and pairs
(INSTANCE WalletTree WITH committed, working).  It is what the keystore relies on: KeyRows takes a bucket
for a function and Keystore an Update for one step.  It is checked for both drivers and proved (section 5); the
places where it could fail are names that are prefixes, keys that hold the separator, and iterations that delete
while they run.

## 5. Proofs

SpaceKeeperProofs: from the assumptions on the constants alone (any finite or infinite
set of spaces and clients, any channel size, any number of starts), `TypeOK`, `KeeperInv`,
`IndexConsistent`, `PlottingOwned`, `StoppedIsQuiet`, `OnlyPlottedServes`.  None of the four
is inductive alone; `KeeperInv` adds who owns a running plot (`RunOwned`), that a plotter
passes the quit check only before `quit` closes and `quit` opens only when every counted
plotter is gone (`QuitOrdered`), and how progress and state move together
(`ProgressOrdered`).  With one start (`MaxStarts = 1`), also `PoppedIsPlotting`: that poppedItem is the item of the
plotting space, which PlotWS, MineWS and StopWS rely on, is right until the first restart.

MassDBPlotProofs: `CheckpointSound`, `SourceKept` and `CheckpointGrows` for every bit
length, hash functions, record size, memory and any number of stops and crashes.
`PlotInv` is the strengthening: where the window lies (`WindowPlaced`), that both the
written and the durable part are right below the checkpoint and below the window
(`BelowCheckpoint`, `BelowWindow`), that HashMapA does not change any more once HashMapB
is begun (`StableA`: a proof in B is right relative to A), and what has happened when
HashMapA goes (`KeptA`).  The lemmas Records, RecordsAtMost, RecordsAtLeast and
WindowFits carry the arithmetic of windows and caches.

DispatchProofs: `TypeOK`, `NoPanic`, `TasksInUse`, `AnswersMatch` and `EveryoneAsked`, for any
set of collectors, capacities, slots, scores and rounds.  `DispatchInv` strengthens them in
three parts that are kept one by one: the tasks (`ClosedPast`: a closed channel is of a task
that solveBlock is past; `HolderWaits`: who waits for room holds the lock, so that its task
cannot be removed; `LocalsSet`: what solveBlock knows where it is), the routes
(`RequestsDirected`: a proof or signature request of this round, its handler and its answers
are the best collector's alone, which makes up for the CollectorID that is not looked at) and
the meeting of Subscribe and broadcast (`SubscribersMeet`: latestTask is set before the
broadcast reads the subscribers, and a collector registers before it reads latestTask, so one
of the two sees the other; they may both, and then the collector is asked twice).

The first plot of a database (`PlotComplete`) has an invariant of its own, `FirstInv`: as long as no plot
was resumed, the windows of HashMapA begin and end at even slots (`EvenWindows`), so no checkpoint on the way
(`start + 1`) is a complete one and the last slot is written and synced like the others before one is
(`LastSlot`).  With it a finished plot has all records of HashMapA, and the proofs follow: each Read returns the
pair of records it should (ReadsInPlace, ReadsRecords), the largest candidate of a z is a candidate (MaxIn),
and two records that are not zero belong to values that are each other's complement (RecordSet, SlotsOfPair).
The theorem asks for `WholePairs`: the reader's buffer does not end inside a pair, or holds the whole of
HashMapA.  Where it does end inside one the property fails, see section 6.  `RecordAssumption` (a record has
bytes enough for a value) is an assumption on constants because the sum over its bytes cannot be computed by the
prover; TLC evaluates it.

KeystoreProofs: `OnePassphrase`, `StoreAgrees`, `KeysMatchLock` and `TypeOK`, for any accounts, passphrases,
branches and limit of addresses.  `WalletInv` adds that a process that does not run manages nothing
(`QuietWhenClosed`) and what a GenerateNewPublicKey between its two steps relies on: its key is in the
database, and derived the way the wallet is locked, unless the keystore was deleted or the lock changed since
(`PendingStored`).  `NilAssumption`: the nil value is no account, passphrase, pending call or file.

The same module has the wallet's database: `StoreImplements`, that both drivers implement WalletTree and list
exactly, for any set of characters, any finite set of names, any keys, values and number of entries.  The argument:

1. Flat keys are injective (KeysDiffer).  Where the first separator of a string is can be read off (CutUnique), so a
   joined path gives back its depth and its names one by one (JoinUnique), what is left is the key; an index entry begins with
   `b`, a pair with its depth.
2. An iteration meets its own bucket only.  A flat key begins with the prefix of Clear or GetByPrefix if and only if it is a pair of
   that bucket whose key begins so (InnerPrefix), with the prefix of BucketNames if and only if it is the index
   entry of a sub bucket (IndexBelow, BelowPrefix): names without a separator are enough for this, and keys may hold any.
3. `StoreInv`: every entry of a store is the index entry of a bucket with its name, or a pair of a bucket that
   exists, and a bucket is in buckets that exist.  Without the last part a new bucket could find pairs of an
   earlier one.
4. deleteBucket with h levels left removes exactly the entries of the buckets under its own (Deleted), by least
   counterexample on h and, in the loop over the names, on the rounds.  `Removes` says what a deletion on its way has removed, in the
   store or in the batch, and `StillClosed` that what is left in between has no bucket without its parent.
5. Each write is then one call of the tree or leaves it as it is (`Step`), each transaction step the tree's.

The loops (joinBucketPath, deleteBucket over names and over levels) are recursive functions; JoinRounds, SubsRounds and
Levels show that they exist.  `WalletDBAssumption`: names and keys are strings, the depths and tags are characters,
there are finitely many names, nesting is one to eight.

NodeProofs: `OncePerHeight`, `EarliestBest`, `StopAllStops` and type correctness, for any spaces, qualities,
clock, chain, configurations and requests.  `NodeInv` has a part for the miner and one for the handlers.  The
miner's says that between two rounds there is nothing of a round (`RoundOver`), that a stopped service has no
goroutine but one that will find its quit closed (`StoppedIsGone`), that every accepted block's height is noted
except the last one's while it waits for newBlockCh (`HeightsNoted`), that v1 has been through every slot
before the one it is at (`SearchedBelow`) and that v2 has one best report from its first on (`ReportsKept`).  The
handlers' says what it means that a request is alone (`AloneIsAlone`) and how far a StopCapacitySpaces that
is alone has come (`StopProgress`).

HandlersProofs has three parts, one for each component whose state a request of the API works on.

Stream: `StreamSound` of `StreamSpec`, for any finite set of spaces.  `StreamInv`: a proof is
with the workers, in the channel or read unless a space was refused (`NoneLost`); what the channel holds and what
is still to come fit into it together, which is why a Write under the mutex never blocks (`RoomForAll`);
the stream is closed by the writer at its end or by the context, and what the writer has done by then
(`ClosedRightly`).

Ledger: `LedgerAnswers` of `LedgerSpec`, for any finite set of transactions with any inputs, any maturities, any chain
that grows and is reorganised, and any question.  `LedgerInv`: each block names the one below it (`Linked`), a transaction is
in one block and its inputs are in blocks not above it (`InOneBlock`, `InputsBelow`), the pool has the inputs of what it holds
(`PoolClosed`); and what a handler that has read half of its answer knows, as long as the chain has only grown since it began:
its block is still where it was found (`Upright`), the next hash is the one above or was not there (`NextTold`), the
answers given so far and those to come are the block's transactions, coinbase included, with a status neither
behind the confirmations told nor ahead of the chain
(`TxsTold`); the pool read first and the orphans read second are apart (`PoolTold`).  `LedgerAssumption`: an input is an
output of a transaction, and heights do not wrap (`MaxBlocks < 2^Width`; that 2^Width is a number is
assumed because the prover knows nothing of powers).

Configure: `ConfigureTypeOK` and `SizeMet`, `IndexIsDisk`, `DirsShowAll` of `ConfigureSpec`, for any directories,
files found, keys and requests, over any failures, crashes and restarts.  `ConfigureInv`: new keys have no files yet
(`KeysFirst`), what the keeper knows in each state of the service (`ProcessState`), the list and what a call has got lie in
the directories it may use (`InDirs`), how far a call is (`CallShape`, `Progress`), that the spaces it got and the plan it has together
stay within the sizes asked and fall short of each by less than a smallest plot, by directory (`Amounts`), and that the index, once the plan is
carried out, meets the request from existing spaces (`Refillable`).  `CapacityIsKept` adds `Repeatable` and
so proves `CapacityKept`, without a hypothesis: a request that was met is met again with nothing made, and is not
turned away from an idle keeper for want of room.  Its invariant `RepeatInv` says where a space is found at every start
(`Homes`: the first of the configured directories that has it), that the index has what is at home in its
directories (`IndexAtHome`) and that the homes meet every request met so far (`MetAgain`).  The core is that the greedy choice
is monotone enough: with 64, 16 and 3 as sizes, spaces that suffice for a size (`Enough`) let Fill take all but less than 3 of it
(`Takes`) although a larger space found later is taken before smaller ones.  That a request by directories is not turned away
for want of room (`Turned`) rests on `RoomInv`: the plots are where the index will find them (`PlottedHome`, `IndexWhole`), and what a
call asks and what was met fit the disk (`CallFits`, `MetFits`); IsCapacityAvailable counts the plots of a directory
with its free room, so that plotting what was met takes nothing from what the next check finds.  `Repeatable` speaks of files that are
`Settled` (outside the configured directories no space is there twice); without that it fails, see
section 6; the run's files satisfy it, with a space that has one copy inside and one outside.

The sums and folds of the community modules are recursive functions over sets and intervals that the prover does not unfold.
Lemmas of this module say that these functions exist (AddsExists, FoldExists: by least counterexample on
a set of bad sizes) and what they give for a union, an added element and an equal set; all of `Total`, `Fill`, `Plan` and
`PlanSize` goes through them.

ChiaKeeperProofs: `ViewsAgree` and `Complete`, for any finite set of plots, any directories, priorities,
workers, clients and queries.  `KeeperInv`: state maps and flags are one book, the list is what is used, the
directory views are what loading the directories gives.  Each query has an invariant: a plot that was asked for
is in one place, to be read, being read, received, stored or given up (`Gathering`); a result is still to be
written, in the channel or taken, once, and none is lost unless the stream was cancelled (`Passing`); nobody writes
to a closed stream (`Closing`).  The loops over directories are recursive functions on an interval: LoopExists shows
that they exist, by least counterexample, and PathIsSorted and InUseSorted what they compute.

ConnProofs: `Ordered`, for any ends in pairs, scripts, capacities, pings and faults.  `ConnInv` sees a direction
as a line of seven places from the user who reads back to the two channels of the user who sends.  Everything on
the line is a message of the script (`Genuine`), each priority is in the order of its numbers (`Rising`), a priority
message has at most one later ordinary message before it (`Once`), and none where send is at its inner select, after it
has looked at the priority channel (`Clear`).  What was read has no gap, nor has what is past the sender while its
context lives (`Gapless`); while the direction is up the line holds all that was sent and not read (`Whole`).
`Handing` says where the routines hold a message.  `ConnAssumption`: ends are each other's peers, and the messages of a
script are numbered, which tells them apart.
The same module has `BoundsKept` of Relay, for any number of connections, collectors, tasks and losses, those
of connections that are being set up included.  `RelayInv`: listenRoutine, which alone adds, has a place free for
the collector it makes (`PlaceFree`), and a collector that runs is in the pool or is that one (`Counted`), so that the
bound on the map is one on what runs; what `stopping` and `stopped` say of reborn (`StopFlags`); and where a waitStop
can be between its load and its swap (`Waiting`): the user's comes after the context is done, and then reborn
gives up before it dials, the processor's own is over before reborn dials.

All invariants were checked with TLC before they were proved.

Only model-checked:

* liveness (fairness is beyond the prover);
* `RoundTrips`, `FilesSound` and `SpacesListed` of Handlers: conversions by powers, bitwise operations and
  folds over digits, which need induction over the data;
* `MassDBPlot!TypeOK` (that a sum of bytes is a number is a fold of that kind).

## 6. Where code and intention part

Met while modelling.  The runs keep to what holds; these are the places where a property had to say
less than one would like, or a bound keeps out what is described here.

* `space_plotter.go:96`: wg.Add(1) inside the goroutine.  OnStop may return before it, and the plotter
  goes on under the next start's `quit`, beside the next plotter ("no more than one plotting workSpace",
  `capacity.go:276`): two spaces may be Plotting, and PoppedIsPlotting holds for one start.
* `capacity.go:418`: DeleteWS leaves the index first; MassDB.Delete refuses while `plotting` is still set
  after the plot's result; the files stay.
* `capacity.go:270,309`: a send to a full channel under `stateLock`, which the plotter needs before it
  receives.  StopReturns and PlottingEnds except it (`ChanFull`).
* `massdb.v1.go:82`: StopPlot looks at `plotting`, which Plot sets later than the keeper sets the state Plotting: a stop
  in between is lost.  If the plot then is an endless one (next item), OnStop never returns (`StopLost`).  Between the
  compare-and-swap and `massdb.v1.go:71` StopPlot closes what the plot before has left: an open channel, and the stop is
  lost too, or a nil or closed one, which panics, as it does when two close the same.
* `plot.go:173`: the checkpoint `startPoint + 1` is odd; the even windows of a resumed prePlotWork leave one
  slot, for which the window is empty, and the loop never ends: PlotEnds is about first plots, and in SpaceKeeper only a
stop ends a resumed one.  (Its cache
  of one record is written all the same and zeroes the last slot of HashMapA, which is why CheckpointSound
  excepts that slot.)
* `plot.go:226`: the count of bufRdA.Read is ignored; for record sizes of 5 bytes (bit lengths 34 to 40)
  pairs shift at each end of the 64 MiB buffer.  PlotCrash has a buffer of whole pairs.
* `massdb.v1.go:66`: Plot with HashMapA gone leaves `plotting` set.  `hashmap.go:23`: the comment on MapType
  gives 0 and 1, the constants begin at 1.
* `superior.go:204`: `ch <- resp` under taskCacheLock.  When the channel is full as the miner leaves its
  select, RemoveTask waits for the lock and the handler for room.  RoundEnds and MinerStops except it (`Jammed`).
* `superior.go:97`: Broadcast gives each send to a goroutine of its own, so two tasks may arrive in the wrong
  order; Converges excepts these runs (`stale`).
* `superior.go:280-284`: reborn starts the processor and then resets `stopping` and `stopped`; when the new
  connection is lost in between, waitStop finds them set, or is undone, and nobody reconnects (`Undone`).
* `conn.go:222`: the send to recvCh does not look at the context; waitStop waits until the reader takes it.
* `pool.go:166`: a remote collector runs before addCollector: when its connection ends in between,
  removeCollector finds nothing, and the dead collector then keeps its place.  DeadRemoved excepts it (`PlaceLost`).
* `skchia/space_plotter.go:167-189`: the plotter reads Empty() without the queue's mutex.  While Delete has every item
  out it finds the queue empty and waits for a channel nobody sends to, with the plots put back behind it
  (`Missed`); when Delete takes the last item between Empty() and PopItem(), the pop panics.  AllServed excepts both.
* `pocminer/miner/miner.go:277-281` (v2): a node that comes between BestBlockNode and BlockWaiter is not seen by the
  round's monitor until the next one comes; StaleGivesUp excepts it.
* `pool.go`: waitStop of the pool waits for a goroutine that is in Accept.
* `addrmgr.go:173`: safelyCheckPassword zeroes masterKeyPriv also in an unlocked manager, where checkPassword
  does not derive it again: after an Export an Unlock of the unlocked wallet fails with the right
  passphrase, until it is locked.
* `manager.go:1210`: an error of destroy in DeleteKeystore is dropped (the outer, nil `err` is returned).  `manager.go:295`: after
  ErrInvalidChild the same index is tried again.
* `engine.v2/engine.go:440`: QualityRW.Write sends with the mutex held that Close needs; callers read on.
* `api/client.go:61`, `pocminer/miner/miner.go:204`: after QuitClient nobody takes accepted blocks from the
  channel; with a full channel the miner's OnStop does not return.  Exits and Replies except `shutdown`, and
  `Hung`: a stop that waits for a keeper or a v2 miner that does not come back (above).
* `api/spaces.v1.go:333`: in mode m2 StopCapacitySpaces stops v2's miner, and no request starts it again.
* `pocminer/miner/strategy.go:287` (v2): allowAhead is the constant 5 and is added as a Duration: 5 ns.
* `capacity.go:520`: spaces about to be generated do not count against the disk.  `strategy.go:229`: a
  rename to the new name may replace another file of the same space.  `api/util.go:246`: sizes in MiB wrap
  in 64 bits.
* `strategy.go:117`: of two copies of a space the index keeps the one it meets first.  With copies in two directories
  that are both outside the configured ones, ConfigureByPath of the one directory indexes the copy there, and the
  same space no longer counts in the other, where it was counted before: a request that was met may make a new space.
  Repeatable excepts this (`Settled`).
* `api/util.go:246`: ConfigureCapacity asks for the whole size in the free room of the first directory, also if plots of that size
  are there already: a size that was met may be turned away once it is plotted.  Repeatable excepts sizes.
* `capacity.go:1093`: WorkSpaceInfosByDirs answers a directory as often as a request named it, and neither the handler nor
  prepareDirs removes repetitions: its capacity is shown twice.  DirsShowAll adds sizes up only where none is repeated.
* `api/transactions.go:696`: confirmations underflow when the best height was read before a transaction's
  block.  `api/transactions.go:303`: GetCoinbase of the first block always fails, because its previous block is
  fetched.  `api/transactions.go:53`: its confirmations are one less than a verbose answer's.
  `api/blocks.v1.go:49,105`: errors of the block's parts are dropped.
* `engine.v2/spacekeeper/skchia/space_plotter.go:27`: priorities are float32, so two plots may share one;
  ViewsAgree says that a directory's view descends, not that it does so strictly.
* The v2 keeper loads plots of any name with the suffix, the offline list only those of the regular form.

## 7. Not modelled

* Generated code (`api/proto`), the word lists (data), chiapos itself, curve, hashes, ciphers, LevelDB and
  RocksDB, the chain, the sync manager: external, as the code uses them.
* ConfigureByPubKey and ResetDBDirs of the v1 keeper: nothing calls them.
* Opening the block database and the prompts of `server/prepare.go`; parsing of the configuration and of
  the command line; the gateway; getters that return one value (client status, best block).
* ChangeRemark and VerifySig of the wallet; the pool's waitStop; errors of the disk in Sync and
  UpdateCheckpoint, which the code ignores.
* Memory races inside prque and on its size.
* Two GenerateNewPublicKey calls that overlap (`manager.go:1373` lets them; Keystore has one at a time beside every other
  call), and two open transactions of RocksDB (`rocksdb.go:206` does not wait for the first one; WalletDB has one, as LevelDB does).
* The plotter's queue in Configure, and the amounts in answers about transactions.

## 8. Plan

Done: the parts of section 2 and the proofs of section 5.  Next, if the code moves: the conversions that are only
model-checked, by recursive functions over digits with the least-counterexample argument of KeystoreProofs.
