# A verification of Juria blockchain in TLA+

Juria is a consortium blockchain in Go: a fixed list of validators orders blocks with HotStuff,
executes the transactions of each block concurrently, and keeps the resulting key-value state under a
Merkle tree. This directory models the parts of it where steps of several actors meet, checks them with
TLC on small instances, and proves the most important properties with TLAPS for every instance.

`PROJECT.json` lists components, runs, mutants, findings, hazards and theorems, and maps every definition
to the lines it models.

## The system

| Part | State | Operations | Interacts with |
|---|---|---|---|
| HotStuff core (`hotstuff/`) | `bVote`, `bLock`, `bExec`, `qcHigh`, `bLeaf`, the proposal being voted | propose, receive proposal, vote, certificate; update (lock, commit) | driver |
| Validator, pacemaker, driver (`consensus/`) | uncommitted blocks, one proposal at a time | beat, handle proposal, fetch ancestors, vote, new view, commit, prune | core, rotator, pool, storage, network |
| Rotator (`consensus/rotator.go`) | leader, pending flag, timeout count, two timers | leader timeout, view timeout, new certificate | core (through an emitter) |
| Genesis (`consensus/genesis.go`) | block 0, votes, certificate | propose, vote, certify, fetch, commit | network, storage |
| Execution (`execution/`) | trackers, merge index | execute, wait for the turn, merge or re-execute | chaincodes, storage |
| Storage (`storage/`, `merkle/`) | blocks, commits, transactions, state, tree, height | four-part commit, verified query | driver, API |
| Transaction pool (`txpool/`) | known transactions, queue | add, sync, pop, set pending, put back, remove | driver, network, storage |
| Peers (`p2p/`) | status, stream, reconnect timers, requests | dial, accept, disconnect, request, respond | everything above |

What makes it hard: blocks, votes and certificates arrive in any order and from competing leaders;
the pacemaker and the vote and new-view loops share the state of the core; proposals wait for ancestors
while the node goes on; validators change leaders by timers nobody synchronises; a commit is four separate
database transactions and the node may die between any two; transactions of one block run concurrently;
the pool is used by three kinds of threads; and channels drop events when they are full.

What it should do: commit one history on all nodes; keep going when leaders fail; give the same state at
the same height on all nodes; restart from what is on disk; lose no transaction; stay connected.

## The modules

One module per component; `...Proofs` holds the theorems of a component and of the ones it is composed
of; `MC...` holds definitions for TLC.

| Module | Code | What it is |
|---|---|---|
| `Hotstuff` | `hotstuff/*.go` and its callers | The core of every validator. Any block may be handed to any node at any time, so its results hold for every network and rotation. |
| `HotstuffSteps` | `hotstuff/*.go`, `consensus/{pacemaker,validator}.go` | One node's core, one access to the shared state at a time, for the three goroutines that use it. Shows when the single steps of `Hotstuff` are what the code does. |
| `Views` | `consensus/rotator.go` | What leader rotation promises: who may lead next. |
| `Rotator` | `consensus/rotator.go` | Timers, timeout counts and the pending flag. Implements `Views`. |
| `Consensus` | `consensus/{pacemaker,validator,hs_driver,state,consensus}.go` | `Hotstuff` and `Views` composed, with messages, fetched ancestors, the block store and its pruning, and restarts. Implements `Hotstuff`. |
| `Genesis` | `consensus/genesis.go` | Agreement on block 0, goroutine by goroutine, with fetches, panics and restarts. |
| `Chaincode` | `execution/tx_executer.go`, `execution/state_tracker.go` | A transaction: a deterministic program that reads keys one by one and then sets some or fails. |
| `SerialExec` | the comment on `execute()` | The promise: transactions take effect one after the other. |
| `BlkExecutor` | `execution/blk_executer.go` | Concurrent execution. Implements `SerialExec`. |
| `JuriaCoin` | `chaincodes/juriacoin/` | The native chaincode: what its methods read and set. |
| `CodeRegistry` | `execution/{code_registry,native_driver,tx_executer}.go` | Deployment, the look-up of a chaincode, and the call of `JuriaCoin`. |
| `CoinBlock` | `execution/`, `chaincodes/juriacoin/` | `BlkExecutor` on a block of deployments and calls of `JuriaCoin`: any block, any accounts. |
| `Ledger` | `storage/storage.go`, `storage/chain_store.go`, `hsDriver.Commit` | The writes of a commit with the keys each one sets, crashes between them, restart, look-ups. |
| `StateTree` | `merkle/`, `storage/{state,merkle}_store.go` | Leaf numbers, the incremental Merkle update, verified queries. |
| `Storage` | `storage/storage.go` | `Ledger` and `StateTree` composed: values and tree change with one of the writes of a commit, crashes and queries come in between. |
| `TxPool` | `txpool/{txpool,txstore}.go` and its callers | The pool step by step, between gossip, sync, proposing, voting and committing. |
| `Peers` | `p2p/{host,peer}.go` | The connection of two hosts: dialling, accepting, refusing, reconnecting. |
| `Requests` | `p2p/{msg_service,peer}.go`, `node/node.go` | `Peers` extended by requests, responses and other traffic over the streams, and by a server that is still being set up. |

### How state and actions correspond to the code

A variable has the name of the field it models, as a function from nodes where every node has one.
An action is what the code does under one lock, or between two points where another goroutine can come
in. Where the code holds `mtxUpdate` for a whole handler, the handler is one action. Where it takes and
releases locks, it is several: a transaction of a block is looked up in the storage and then in the pool
(`SyncHasTx`, `SyncGetTx`); a worker subscribes, looks at the merge index and then waits (`Subscribe`,
`CheckMergeIdx`, `ReceiveEvent`); a query reads value, leaf and tree (`ReadValue`, `ReadIndex`,
`VerifyState`). An emitter's channel is a sequence that drops events when it is full. Definitions whose
comment says *mutant* are plausible faults of the definition that follows them; no specification uses them.

Abstractions:

- A block is its height, proposer and a stamp; a certificate is the block it certifies. Signatures and
  encodings are left out. Every node follows the code; there are no malicious ones.
- `Hotstuff` treats `OnPropose`, `OnReceiveVote` and `OnReceiveNewView` as one step each. The last two do
  not take `mtxUpdate`, so they run beside a proposal that holds it; `HotstuffSteps` has their real steps.
  There, the blocks and certificates of others come from anywhere as long as they are valid, and the holder
  of `mtxUpdate` is one thread (the pacemaker or the handler of a proposal). `Overlap` says that two threads
  are between reading and writing `qcHigh` or `bLeaf`, or that a proposal starts while the votes for the
  last one are taken.
- A restart (`Restart`, `RestartNode`) takes the node back to the last committed block and certificate
  between two handlers. A crash in the middle of a commit is the subject of `Ledger`, which also shows
  what certificate the node then finds.
- `MajorityCount` is at least 2: a single validator is excluded.
- In `Consensus` a message may stay undelivered and overtake others. Duplicates add nothing: a repeated
  vote is ignored by the code, and the core is told of known blocks anyway.
- `Rotator` keeps of the rest only the certificates: a validator gets one when it and a majority take it
  for the leader, and the others learn of it in any order or never.
- `BlkExecutor` assumes that the channel of a waiter can hold one event per other worker
  (`Buffer + 1 >= Limit`). Both are 20 by default; the flag `--execution-concurrentLimit` allows more.
- The state of `Ledger` is the sequence of transaction sets whose changes were written; `Storage` adds the
  values and the tree, which change in the same database transaction. A database transaction of badger is
  atomic and durable.
- A transaction of `Storage` sets keys to its own number, so that two runs of it and two orders of a map
  can be told apart.
- `StateTree` keeps a hash as what it is a hash of. The update is computed and written in one step:
  nobody but the committing thread changes what it is computed from.
- `TxPool` leaves the order of the heap open. A committed block that is received again counts as a fork,
  which allows more than the code does.
- In `Genesis`, `proposalLoop`, `newViewLoop` and `run` take their steps apart: the comparison of a
  certificate with `b0` (`OnReceiveNewView`), the look at `done` (`AcceptQC`), the closing of `done`
  (`Close`), the commit (`Commit`) and the return of `b0` (`Return`). A proposal may replace `b0` between any
  two of them, since the select of `proposalLoop` may still pick one when `done` is closed. A second `close`
  panics: the node is `dead` until it restarts. What `voteLoop` does after `done` is left out, as nobody looks
  at it. The leader's own vote need not be the first one: the map of votes is open before `propose` has put it
  there. Genesis proposals reach a node in the order in which they were sent, or not at all: they have one
  sender, a peer's stream is read by one `Peer.listen`, which ends before the peer gets its next
  stream, and the channels behind it are in order. Other messages overtake each other. `CommitBlock1` stands
  for everything that follows the start of consensus.
- `Peers` does not tell more than `MaxTimers` pending reconnects apart. `Requests` numbers fewer than 2^32
  requests, so the counter does not wrap. Its goroutines and streams are interchangeable, and the next one
  to be used is chosen by a fixed order.
- In `Requests` a server that is set up may answer with an error of the handler; one that is not drops the
  request or refuses it.
- The destination of a `JuriaCoin` call is any bytes: an account, or the key under which the code keeps the
  minter or the total. The minter's address, which is then read as a balance, decodes to some number, or makes
  the call fail if it is too short.
- In `CodeRegistry` the state of the registry is one key. A driver that does not know a code makes the
  transaction fail.

## The runs

Passing runs:

| Run | Instance | States | Shows |
|---|---|---|---|
| `MCHotstuff` | 2 validators, height 4, 7 blocks, repeated proposals, restarts | 228 thousand | `AgreeWhileTolerated`: one history as long as few nodes signed backwards or restarted; `DoubleVoteIsOwnProposal`: contradicting signatures involve an own proposal; `OwnProposalKeepsLock`, `JustifyIsAncestor`: a leader's proposal keeps its lock and its certificate is on its branch |
| `MCHotstuffSteps` | 3 voters, 4 blocks | 515 thousand | `VotesOfOneBlock`: whatever interleaves, the votes of a certificate are of one block; `SoundUnlessOverlapped`, `LowerOnlyOverlapped`: until two calls overlap the handlers behave as single steps |
| `MCRotator` | 4 validators | 129 thousand | `PendingIsTimed`, `QuietAfterFaults`, `PendingEnds`; refinement of `Views` |
| `MCConsensus` | 2 validators, height 5, one view change, one restart | 619 thousand | refinement of `Hotstuff`; `DroppedUnmissed`, `HeadsHeld`: pruning drops nothing that is needed; `CommittedBranch` |
| `MCBlkExecutor` | 5 transactions, 3 workers, 2 of them slow | 413 thousand | refinement of `SerialExec`; `AllMerge`: no lost wake-up; `SupplyIsTotal`: the balances grow with the total, but for what transfers to oneself or to a key of the code create or lose |
| `MCStorage` | all chains of 3 blocks over 3 transactions, 4 keys, branching 2, 1 crash | 714 thousand | `Restartable`, `Servable`: after a crash the node finds its last block, and every committed one with its results; `AppliedOnce`, `ReplayUnlessTorn`, `StateOfApplied`, `ComparesRootOfHeight`: what the state is; `IndexByFirstWrite`, `TreeIsRecomputed`, `QueriesVerify`: the tree is that of the state |
| `MCTxPool` | 2 transactions, height 2 | 3.0 million | `NothingMissing`, `NoOrphan`, `KeptUntilStored` |
| `MCGenesis` | 4 validators, the leader restarts once, up to two nodes fetch | 295 thousand | `AgreedUnlessLate`: one genesis block; `PanicsFetched`: certificates sent again do no harm; `AllStart`: every validator starts |
| `MCRequests` | 2 hosts, 3 streams, 1 failure; 2 callers, 2 requests | 812 thousand | `ReconnectPending`, `NoHalfOpen`, `Reconnects`: the hosts find together again; `AnswerIsMine`, `AnswerIsKept`: requests over whatever stream there is |

Runs in which TLC refutes what a document of the repository says:

| Run | Property | What happens |
|---|---|---|
| `MCConsensus_fork` | `SameHistory` | `pacemaker.propose` signs the leader's own block without `CanVote` and without moving `bVote`. Over several view changes a validator signs two blocks of one height, both are certified, and two nodes commit different branches. |
| `MCHotstuffSteps_qc` | `QCIsMajority` | `OnReceiveVote` counts the votes and takes them in separate steps. A proposal that starts in between leaves it with fewer, of the new block, and it makes a certificate of those. |
| `MCLedger_crash` | `StateIsReplay` | A crash between the write of the transactions and the write of their changes: after the restart the transactions count as executed, and their changes are lost. |

Further configurations, to be run by hand. The first two are the parts of composed runs on larger
instances and pass; TLC finds a counterexample in each of the others:

| Configuration | Module | Shows |
|---|---|---|
| `MCLedger.cfg` | `Ledger` | the invariants of `Ledger` with two crashes |
| `MCPeers.cfg` | `Peers` | the connection with 4 streams and 2 failures |
| `MCHotstuffSteps_branch.cfg` | `MCHotstuffSteps` | `JustifyOnBranch`: a proposal built between the two assignments of `UpdateQCHigh` carries a certificate off its branch |
| `MCRotator_timed.cfg` | `Rotator` | `ViewIsTimed`: after the rotation went quiet, a certificate of the kept leader restarts the leader timer only |
| `MCRotator_progress.cfg` | `Rotator` | `Progress`: all validators use up their leader timeouts while they disagree on the leader; no timer runs any more and no certificate is made |
| `MCBlkExecutor_timeout.cfg` | `MCBlkExecutor` | `SameStateOnAllNodes`: the execution timeout is wall-clock time of one node, so a slow transaction fails on some nodes only |
| `MCGenesis_late.cfg` | `MCGenesis` | `GenesisAgreed`: a certificate of a former block of the leader is out, or a node that fetched the block takes an older proposal before it commits |
| `MCGenesis_votes.cfg` | `MCGenesis` | `AllVoted`: the certificate holds a majority, while a comment says all validators |

### Bounds

- `MCHotstuff`: a commit needs three certified blocks in a row and a fourth that carries the last
  certificate. `Small` cuts behaviours when more nodes than `Tolerated` are unsteady, after which
  `AgreeWhileTolerated` says nothing; with two validators and quorums of two, one may be.
- `MCHotstuffSteps`: four blocks are genesis, a proposal, its successor and one of another node, enough for
  every overlap. Three voters have quorums of three; `MCHotstuffSteps_qc` has four voters, for whom a
  quorum leaves one out.
- `MCConsensus` has a channel of one certificate, so that full channels happen, and bounds the blocks and
  the undelivered messages (`Small`). Beyond six blocks it follows one course (`Detour`): a leader proposes
  two blocks and restarts, the other node takes them, leads and commits a branch of its own. Its commit drops the
  first of the two and keeps the second, which is the case that `DroppedUnmissed` is about.
  `MCConsensus_fork` follows one schedule of leaders (`Guide`) to keep
  the search short; each of its steps is a step of `Consensus`.
- `MCRotator`: with four validators one may be faulty, and the timeout count reaches its limit after two.
- `MCBlkExecutor`: a deployment, a mint, a transfer to oneself, one to the key of the total and a change of the
  minter, each dependent on the ones before; the first two are slow and may time out and read on; balances wrap at 4.
- `MCStorage`: three transactions that may repeat in any of three blocks; they set one or two keys each,
  one of them shared, and take the tree from one leaf to four. One crash interrupts a commit, which is then
  repeated; `MCLedger.cfg` has two.
- `MCTxPool`: two transactions, blocks of one, two heights: forks, repeated transactions and a commit
  during the sync of a proposal all occur.
- `MCGenesis`: `OnTime` cuts behaviours when a late certificate is out, after which `AgreedUnlessLate` says
  nothing, and fixes the follower that a certificate does without. `Small` lets two nodes fetch, or one if the
  leader has restarted. Restarts of followers are left to the proofs.
- `MCRequests`: three streams are as many as can be in use at once; `MCPeers.cfg` has one more. Channels
  of one message overflow with one other message.

Deadlock is not checked where a bound ends the behaviours.

### Fairness

- `Rotator`: a running timer fires unless it is reset; a leader with the votes makes its certificate; a
  certificate reaches the others. `MCRotator_progress.cfg` grants all this and still finds a stop.
  `PendingEnds` needs the timers.
- `BlkExecutor`: a goroutine that can go on does.
- `Genesis`: the broadcast loops go round, every goroutine that can go on does, and a node that is not done
  and keeps trying to fetch succeeds at some time (strong fairness of `FetchEnds`): requests fail by timeouts and
  ended streams, which do not hit every one.
- `Peers`: timers fire, dials end, streams reach their handler, listeners see the end. `Reconnects` **assumes**
  that dials do not collide forever. The interval before the next dial has a random part, but the code does not
  seed `math/rand`, so that with the Go version of `go.mod` all hosts draw the same numbers; what keeps two
  hosts apart is when they started and how long their dials take.
  `Requests` adds no fairness: its properties are safety properties, and a call ends by its timeout.

## The proofs

| Theorem | States |
|---|---|
| `HotstuffProofs!Inductive` | `IInv` always holds |
| `HotstuffProofs!TypeCorrect`, `NoConflictingVotes`, `ProposalKeepsLock`, `CertificateOnBranch`, `OneBranch` | the invariants of `Hotstuff` |
| `HotstuffProofs!Agreement` | `AgreeWhileTolerated` |
| `HotstuffProofs!ConsInvariant`, `ConsImplementsHotstuff`, `ConsAgreement` | refinement of `Hotstuff` by `Consensus`, and with it `AgreeWhileTolerated` for the whole package |
| `HotstuffProofs!StoreHoldsHeads`, `NothingMissed` | `HeadsHeld`, `DroppedUnmissed`: pruning drops nothing that is needed |
| `HotstuffStepsProofs!CertifiesOneBlock`, `SoundApart`, `RisesApart` | `VotesOfOneBlock`, `SoundUnlessOverlapped`, `LowerOnlyOverlapped` |
| `RotatorProofs!PendingTimed`, `QuietOnlyAfterFaults`, `RotatorImplementsViews` | the timers leave no gap; refinement of `Views` |
| `GenesisProofs!GenesisInvariant`, `SameGenesis`, `OnlyFetchersPanic` | `AgreedUnlessLate`, `PanicsFetched` |
| `BlkExecutorProofs!ExecInvariant`, `ConcurrentIsSerial` | refinement of `SerialExec` |
| `BlkExecutorProofs!CoinIsDeterministic`, `SupplyFollowsTotal` | `JuriaCoin` is a chaincode as `Chaincode` assumes it; `SupplyIsTotal` |
| `StorageProofs!LedgerInvariant`, `RestartsFromDisk`, `NoDoubleApply`, `ServesCommitted`, `ReplayUntilTorn` | crash safety of the commit |
| `StorageProofs!StorageImplementsLedger`, `RootOfHeight`, `StateFollowsBlocks` | refinement of `Ledger` by `Storage`; `ComparesRootOfHeight`, `StateOfApplied` |
| `StorageProofs!TreeInvariant`, `IndexFollowsBlocks`, `TreeIsOfState`, `NoQueryFails` | `IndexByFirstWrite`, `TreeIsRecomputed`, `QueriesVerify`: the Merkle tree |
| `TxPoolProofs!PoolInvariant`, `PoolTypes`, `CommitFindsTxs`, `NothingOrphaned`, `LeavesWhenStored` | the pool |
| `RequestsProofs!PeersInvariant`, `AlwaysReconnecting`, `NothingHalfOpen` | the connection of two hosts |
| `RequestsProofs!RequestsImplementPeers`, `RequestsInvariant`, `OwnAnswer`, `NoAnswerForgotten` | refinement of `Peers` by `Requests`; `AnswerIsMine`, `AnswerIsKept` |

Every invariant and action property that a passing run checks is proved, for all values of the constants
within the named assumptions. The inductive invariants hold in TLC on the instances of the runs, too (all but
`SupplyInv`, which TLC cannot evaluate).

**Agreement.** Assumed: a finite set of nodes and a quorum of more than half. `SameHistory` is not
inductive; `IInv` adds three parts. `TreeInv`: the blocks form a tree and a block's certificate is for an
ancestor. `ReplicaInv`: a node's certificate is above its lock, its leaf extends the certified block, and
what it executed last heads a three-chain. `SignInv`: what the signatures of a node that did not restart
say about each other: if it signs `w` after `x`, it was shown a certificate as high as the lock that `x`
brought, or `w` has a certified ancestor that high (`KeepsLock`). The argument: let `b` head a three-chain,
and take the lowest certified block above `b`'s height that does not descend from `b`. `Tolerated` says
that the nodes that signed backwards or restarted (`Unsteady`) are fewer than the nodes two quorums share,
so its quorum meets that of the three-chain's last block in a node that did neither (`SteadySigner`), whose
two signatures are ordered by height. `KeepsLock` gives a certificate at least as high as `b`, which by
minimality is on `b`'s branch and below the block in question. So there is no such block, and two committed
blocks of one height are equal. That the theorem needs `Tolerated` is no weakness of the proof:
`MCConsensus_fork` shows what happens without it. A restart counts for as long as the run lasts, because
`bVote` and `bLock` are not stored and the node may sign again what it has signed before.

**Consensus.** The refinement of `Hotstuff` is the identity on the core's variables; what has to be shown is
that every block the package hands to the core is one that the core's action allows, with the parent and
the certified block that `Update` needs. `ConsInv` says so: messages and stores hold proposed blocks only
(`NetTypeOK`), a node is not locked below what it committed, and it holds all ancestors of the blocks in its
memory except some that are below both `bExec` and `qcHigh` (`HoldsBranches`), where the comparison with a
missing block comes out as it would with the block. Pruning keeps this because it drops only blocks below
the one committed last, and committed ones, which the storage has. Agreement of the package is then that of the core.

**Genesis.** Assumed: a finite set of at least two nodes. A block is `Certified` when its certificate is under
way or somebody acted on it; a node has `Decided` when it compared a certificate with its block, or is about to
close `done`, or has. `GenesisInv` has four parts: types; `OrderInv`, that the proposals a node has not seen are
not older than its block, unless it fetched that; `StartInv`, that fetched blocks come from one that was
started from; and, until `late`, `CertInv`: only the last block of the leader is certified, and who decided
still has it. A proposal that arrives after the decision cannot be newer, since the leader makes no other
block after its certificate without being late, and cannot be older by `OrderInv`. Two cases are excepted,
and both happen. `late`: a valid certificate of a former block is out, because the leader restarted after it was
built, or built it from votes for the former block before it counted its own. `overtaken`: a node that
fetched the block took an older proposal, which was under way to it, before it was through.
`PanicInv`: a node that has not fetched closes `done` from `newViewLoop` only, which looks at `done` first.
A node that fetched can die of the second close; a restart then finds what was stored, or begins anew.

**Steps.** Assumed: a finite set of voters of which this node is one, and a quorum of at least one. The
votes of the core are always for one block (`VotesInv`), because `startProposal` clears them in the same
critical section in which it sets the proposal, and `addVote` compares with the proposal in its own. That
is all that holds in general. Up to the first overlap `ApartInv` holds: certificates under way are of a
majority or refused by the comparison (`CertsInv`), a thread between reading and writing read what is still
there (`HighInv`), and the certificate in use is on the branch of the leaf (`BranchInv`). So in executions
whose calls do not overlap these facts are the same as for the single steps of `Hotstuff`, and `overlapped`
names what has to be excluded; handling votes and new views under `mtxUpdate` would exclude it.

**Rotation.** For any number of validators, from type correctness and the two invariants together; the
refinement maps every reset of a timer to a stutter of `Views`.

**Execution.** Assumed: chaincodes are deterministic (`ChaincodeAssumption`), and the channel can hold the
events. `ExecInv` says that merges happen in order, and that a transaction ended as it would on any state
that agrees with what it read. So a merge without conflict, and one after re-execution, is the serial
step, and every other step is a stutter, the reads of a goroutine that has timed out included.

**JuriaCoin.** Assumed: finitely many accounts, named apart from the keys of the code, and a width
that holds the numbers in use (`CoinAssumption`); a destination may be either;
`BlockAssumption` says that the transactions are calls and deployments. `ChaincodeAssumption` is not taken on trust for them: `CoinIsDeterministic` derives it, from
what each method has read when it ends. For the supply, the balances are a sum over a set; the lemmas on
sums show by induction over the cardinality that the order of adding does not matter, so that setting one
balance changes the sum by the difference. `SupplyInv` is `SupplyIsTotal` with the multiple of the width
made explicit, and adds that only merged transactions have errors. `Drift` says what a call with an
unusual destination creates or loses, and nothing is assumed of how often that happens. Since concurrent
execution is serial, there is one step to look at: a call on the state its predecessors left.

**Ledger.** `LedgerInv` adds that what is applied is stored, and what is being committed is not applied
yet; `HasTx` then never lets a transaction be applied twice. For `ServesCommitted` it adds what the chain
store holds at each step of a commit: what `writeChainData` and `writeBlockCommit` set is never taken back.
`ReplayInv` says where the state is during a commit: stored transactions and state belong to one height,
the stored one or, after a crash before the height was written, the next one; between the writes they are
one block apart.

**Storage.** `Storage` implements `Ledger` by dropping the tree, so the facts above hold with queries and
values in between. `ComparesInv` and `StateOfApplied` follow the writes of one commit.

**The tree.** Assumed: finitely many keys, a branching of at least two, and fewer than 256 levels
(`TreeAssumption`). `TreeInv` joins the leaf numbers (`IndexInv`), the tree, its height and what a query has
read. Leaves: a block gives its new keys the numbers after `leafCount` in the order of the keys, so the
number of a key counts the keys before it by first write (`WriteKeepsIndex`), and numbers are in bijection
with keys (`PlacesBijective`). Levels: the width of level `l` is the leaf count divided by the `l`-th power
of the branching, rounded up, and rounding up level by level gives the same (`Grouped`, `WidthNext`); the
height is the first level of width one. Update: by induction over the levels, `Tree.Update` touches exactly
the groups above changed or new leaves, a touched group gets the hash of its current members, and an
untouched one has the same members as before, because a tree that grows changes only the last group of a
level (`GroupIsSummed`, `GroupIsKept`, `UpdateIsComplete`, `TreeAfter`). Queries: verification is an update
by the stored leaf, which changes nothing (`SameTree`, `StoredVerifies`); `mtxWriteState` keeps what was
read current. Hashes are kept as what they are of, so the theorem is about structure, not about collisions.

**Pool.** `PoolInv` adds where the transactions of a block are while it is synced (stored, in the pool,
not looked up yet, or missing) and while it is committed.

**Peers.** `PeersInv` adds that a stream which waits for its handler is either closed or the one its
opener is connected on.

**Requests.** `RequestsInv` adds that every call has its own sequence number, below the counter. Then a
message with the number of a waiting call answers that call. For `AnswerIsKept`, every step that takes a
request or an answer out of one queue puts it in the next or marks it lost.

**How induction is done.** The library's induction theorems take an operator as a parameter, which the
provers at hand cannot instantiate. `StorageProofs` and `BlkExecutorProofs` derive induction for a set of
naturals from the well-foundedness of `<` (`LeastNatural`, `Induction`), and show with it that each
recursive function they reason about exists and satisfies its equation (`HeightUnfolds`, `UpdateUnfolds`,
`SumUnfolds` and others).

**Only model-checked**: liveness (`PendingEnds`, `AllMerge`, `AllStart`, `Reconnects`), which is beyond the
temporal reasoning of the provers at hand.

## Not modelled

- Encodings, signatures and hashing: data without protocol state.
- Binary chaincodes (`execution/bincc`): processes outside the program. For the executor they are one more
  program that reads and sets keys, which `Chaincode` stands for; that they are deterministic is assumed.
- The API, node configuration, command line and the cluster-test tooling. The one order of start-up that
  other hosts can see, listeners before request handlers, is in `Requests`.
- Batching of transaction gossip: its effect, that a transaction may arrive at any time, is in `TxPool`.
- The status of a transaction as the API reports it: it is read from the pool first and then from the
  storage, so by `KeptUntilStored` a known transaction is found in one of them.
- Stopping the loops of `consensus/`: the process exits right after. Starting them is part of a restart.
- A restart in the middle of a commit together with the protocol: `Ledger` and `Storage` have it for one
  node, `Hotstuff` and `Consensus` restart between handlers.
- Overlapping calls of the core on several nodes at once: `HotstuffSteps` has one node, and what a
  certificate of too few votes does elsewhere is that `QuorumCert.Validate` refuses it.
