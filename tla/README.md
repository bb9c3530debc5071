# Crankycoin in TLA+

Crankycoin is a small proof-of-work coin in Python: a full node keeps a chain
in SQLite, mines, validates what peers announce and serves HTTP. Its processes
share two database files and nothing else, talk over ZeroMQ and HTTP, and have
neither locks nor retries. This directory models that program: TLA+ modules, the
TLC configurations that check them on small instances, and proofs that TLAPS
checks for every instance. `PROJECT.json` lists the runs, the lines of the
source each definition stands for, the hazards and the findings.

To check a run: `tlc -workers 2 -config MCNode.cfg MCNode`. To check the proofs:
`tlapm BlockchainProofs.tla`, and so on for `DataTheorems` and the seven modules whose
names end in `Proofs`.

## 1. The system

### Components, their state and their operations

| Component | Source | State | Operations |
|---|---|---|---|
| Block store | `repository/blockchain.py`, `config/init_blockchain.sql` | tables `blocks`, `transactions`, `branches` | `add_block`, `get_new_branch_number`, `restructure_primary_branch`, `prune` (never called), queries by hash, height, branch, address |
| Miner | `miner.py` | the block at hand | `start`, `shutdown`, `mine`, `mine_block` |
| Mempool | `repository/mempool.py`, `config/init_mempool.sql` | table `unconfirmed_transactions` | push, look-up, chunk by fee, remove |
| Mempool in memory | `repository/mempool.py` (`MempoolMemory`) | sorted list, map, lock | the same; used by nothing |
| Validator | `services/validator.py` | none | header, block, inventory, transaction, reward, Merkle root |
| Queue workers | `node.py` (`worker`, `__process_block_header`, `__synchronize`) | the message at hand | one branch per message type |
| Message queue | `services/queue.py` | what ZeroMQ buffers | `start_queue`, `enqueue`, `dequeue` |
| HTTP server | `routes/public.py`, `routes/permissioned.py` | none; single-threaded | `/connect/`, `/transactions/`, `/inbox/`, queries |
| Peers | `repository/peers.py`, `services/api_client.py`, `config/init_peers.sql` | table `peers` | count, list, add, remove, record downtime; handshake |
| Start of a node | `node.py` (`FullNode.start`, `discover_peers`, `check_peers`) | position in the loop | processes started, peers discovered and checked |
| Wallet | `wallet.py` | keys, peers table | balance, history, payment |
| Console, tools, pubsub | `run.py`, `tools/`, `services/pubsub.py` | none | commands; key files; experimental, unused |

### How they interact

A full node is: a main process (console; starts and stops the others), an HTTP
server, a queue proxy, two workers and at most one miner. The HTTP server puts
what peers post to `/inbox/` on the queue; a worker takes it, asks its sender for
what is missing by HTTP, validates, and writes to chain or mempool; it then
broadcasts to the peers in the table. The miner reads the tip and the mempool,
writes to both, and enqueues the header of its block. Everything a process
learns from the database it learns in one transaction per query: `with
sqlite3.connect(...)` is opened anew in each method.

### What is hard, and what has to hold

* **Block store.** `add_block` decides from three reads and then writes; two
  workers and a miner do so at once, and are killed in between. A branch has to
  stay one path, branch 0 has to stay a longest chain on which nothing is
  displaced, and the calls together have to look atomic.
* **Miner, workers and server.** Each checks things long before it relies on
  them, and dies on an exception. No unverified payment may be stored, no money
  created, no accepted payment lost; in a quiet node every payment is mined.
* **Peers.** Main process and server of a node count and add in one table;
  servers ask each other from within a handler without a timeout. The limit, the
  symmetry of the handshake and the end of a node's start are at stake.
* **Synchronization.** A node that is behind asks for hashes in rounds that
  overlap and requests block after block, while others store the same blocks
  and rivals, the peer grows, requests fail, and a refused block starts it all
  over from within. No round may leave a gap, every call has to end, and an
  honest peer must not be the death of a worker.
* **Announcements.** A block goes from the miner's queue to a worker, by HTTP to
  the servers of all peers, onto their queues, to their workers, and on. Sockets
  are closed with messages in them, servers block until a queue has taken what
  they were sent, workers wait for servers that wait. A node must announce a
  block once, no wait may be for ever, and a lone message must arrive.
* **Merkle root.** A block's transactions are put in order three times, by
  different code; the root has to come out the same.

The full list is `hazards` in `PROJECT.json`, each at its line.

## 2. The modules

| Module | Models | Extends |
|---|---|---|
| `BlockTree` | all blocks and transactions there may be: a constant tree | |
| `BlockTable` | tables `blocks` and `transactions`, the queries, the constraints | `BlockTree` |
| `BlockStore` | *abstract*: what `add_block` promises, as one step | `BlockTable` |
| `PrimaryChain` | *abstract*: branch 0 as an append-only chain | `BlockTree` |
| `StorePromises` | what the table promises: the two abstractions as refinements (`StoreSpec`, `PrimaryChainSpec`), and when `add_block` may raise | `BlockTable` |
| `TransactionTypes` | the numbers of the enum `TransactionType` | |
| `Blockchain` | `add_block`, one action per database transaction, any number of processes | `StorePromises` |
| `StoreStep` | a call of `add_block` as its callers see it: `BlockStore`'s step, or an exception | `StorePromises` |
| `Mempool` | table `unconfirmed_transactions` | `BlockTable` |
| `Node` | miner, workers and server on one store and one mempool | `Mempool`, `StoreStep`, `TransactionTypes` |
| `Synchronize` | workers that take up announced blocks of a peer and catch up with it | `StoreStep` |
| `Delivery` | *abstract*: what inbox and queue promise of a message | |
| `Gossip` | miners, queues, inboxes and workers of a network that announce blocks | |
| `Peers` | tables `peers`, starts and handshakes of several nodes | |
| `Merkle` | the order of a block's transactions and their root (an algorithm) | `BlockTable`, `TransactionTypes` |
| `MCBlockchain`, `MCNode`, `MCSynchronize`, `MCGossip`, `MCPeers` | instances for TLC | |
| `DataTheorems` | induction over numbers and finite sets, laws of sums (lemmas) | |
| `StoreProofs` | what any implementation of `BlockStore` keeps (theorems) | `StorePromises`, `DataTheorems` |
| `BlockchainProofs`, `NodeProofs`, `SynchronizeProofs` | theorems and proofs | `StoreProofs` |
| `GossipProofs`, `PeersProofs`, `MerkleProofs` | theorems and proofs | |

The modules compose by refinement. `Blockchain` implements `BlockStore` (property
`StoreSpec`, theorem `AddBlockIsAtomic`), raises only where `StorePromises` says so
(`RaisesAreForeseen`, `DeathsAreForeseen`) and, with branch 0 as `primary`, implements
`PrimaryChain` (`PrimaryChainSpec`, `PrimaryNeverDisplaced`). `Node` and `Synchronize`
call `add_block` as `StoreStep`, which is that step or that exception: that they
implement `BlockStore` is their definition and no result (a lemma of the proofs). And
`BlockStore` alone keeps the shape of the branches and implements `PrimaryChain`
(`StoreHasShape`, `StoreKeepsPrimary`), so that both hold of a node and of a node that
synchronizes by composition. `Synchronize` takes from `Blockchain` that the peer's
branch 0 is a path that only grows, which is proved there. `Gossip` implements
`Delivery` (`DeliverySpec`, `GossipDeliversOnce`), with the place of a message mapped to
its fate; what its workers do with a message between taking it and announcing a
block is one query, one request and one `add_block` there, each of which may fail,
and in full in `Node` and `Synchronize`.

### From code to state and actions

**BlockTree, BlockTable.** A hash is computed from the whole header, so a block
stands for its hash and fixes predecessor, height and transactions; `add_block`
is always passed the height of the stored predecessor plus one. The variable
`branchOf` is the column `branch` of table `blocks` (`Absent`: no row); the rows of
`transactions` follow, having the branch of their block. `Clash` is what the keys of
both tables reject. The initial table is empty, as `db_init` leaves it, or has
the genesis block: an empty one cannot be filled, since `block.height > None`
raises (action `CompareWithNone`), and the commented-out rows of
`init_blockchain.sql` show that it is meant to be seeded.

**Blockchain.** Variables: `branchOf`, `branches` (the table, row ids from 1), and
for every process `pc`, `blk` (the argument) and `br` (local `branch`). Line 39 is
`CallAddBlock`, 40-48 `ReadMaxHeight` or `CompareWithNone`, 45 and 102-127
`RestructurePrimaryBranch`, 49-51 `ReadCompetingBranches`, 80-85
`GetNewBranchNumber`, 53-78 `InsertBlock` or `InsertRejected`. `Kill` and `Restart`
are shutdowns and starts between any two statements. An exception that leaves
`add_block` ends its process. The variable `hashIsText` says whether `BlockHeader.hash`
is text, as its docstring has it, or bytes, as Python 3 makes it; it is chosen
initially, and `StatementRejected` is what bytes do to the SQL: with them no block is
stored and no row of `branches` is left, which the model shows by its guards alone. All
properties are about text, or hold of bytes for that reason.

**Mempool, Node.** `pool` is the table. The miner has `mpc`, `tip`, `own`; a handler
(worker or server) has `pc`, `blk` (announced block), `todo`, `cur`, `missing`, `flag`,
which are the local variables and loop positions of `worker`,
`__process_block_header`, `validate_block_transactions_inv`, `validate_transaction`
and `post_transactions`. One action is one query or update with the Python that
follows. Exceptions: `...Raises` actions, which end a miner or worker and which
Bottle turns into an answer of the server.

A payment is whatever its sender wrote: the pool takes any type, asset, fee and
`prev_hash`, since neither `post_transactions` nor `validate_transaction` looks at them
(`TxType`, `InCoin`, `Fee` and `TxPrev` are constants without a condition). Hence
`Balance` counts the transactions in the default asset (`InCoin`), as the query of
`get_balance` does, while `SufficientFunds`, the miner's fees and `CheckBlockReward` count
all; and a fetched transaction of type COINBASE is not validated (`TakenAsCoinbase`), so
that only `CheckBlockReward` keeps it out, which wants one coinbase. `Payments` come from somebody's address,
coinbases from "0".

Eight calls of the code raise or return garbage whatever the state
(`KnownDefects`): the `codecs` import that `transaction.py` lacks (`verify`), the Merkle
root of two or more hashes (`merkle`), the headers of one height unpacked as one
(`difficulty`), the column mix-up of the pool's look-up (`lookup`), `None` indexed for an
unknown transaction (`history`), the column mix-up of `get_transaction_by_hash`
(`columns`), a missing argument (`broadcast`), and the block of the seed, which has no row
of type 2 for the miner's next coinbase to follow (`seed`). The code has all of
them; with them on, a node stores no block of a peer and no payment, and every
property below it would hold for nothing. So `Node` has a constant `Builds`, a set
of sets of these defects, and the variable `defects`, chosen from it initially: runs
check builds with none, some and all of them. What the project says of races and
losses is said of the build without defects, what it says of the code as it is
(`NothingPassesDefects`) of the builds with them. In the same way `Node` assumes
`hashIsText`.

Two of them need a word. *columns*: a peer serves a transaction with `blockHash` as its
asset, its asset as its data and no `prev_hash`. A payment so served does not verify
(`Verifies`). A coinbase is not verified, and is stored with `prev_hash` "0"
(`AddFetched`, `GarbledClash`): on branch 0 that breaks a key at once, the first coinbase
of the chain having it; on an uncle branch the first one passes and the second does
not. The route serves transactions of the peer's branch 0 only (`SenderGone`,
`FromPeer`). *seed*: the rows that `init_blockchain.sql` has as a comment cannot both be
loaded as they stand, since both have `prevHash` '0' and `UNIQUE (prevHash, branch)`, and
their types, 1 and 0, are those of an older enum. `Genesis` is the block of height 1
with a transaction of `prev_hash` "0", whether it comes from a mended seed or from
this miner.

**Synchronize.** `branchOf` is this node's store, `peerHeight` the height of the peer's
branch 0, `PeerBlock`. Every worker has `pc`, the block `blk` at hand and `frames`, a
stack with the locals of each call of `__synchronize`, because
`__process_block_header` and `__synchronize` call each other. `Announce` is a
`BLOCK_INV`; `RequestHeader`, `NoHeader` and `NoTransactions` are the requests of
`__process_block_header`, `SkipHeader` to `AddRaises` its validation and its call of
`add_block`; `ReadHeight`, `RequestHeight` or `NotBehind`, `Audit`, `FindLastCommon` or
`OutOfSync`, and `NextHash` are the lines of the loop in `__synchronize`, `Repeat` and
`LastRoundDone` its end. `AuditRefused` is the 400 of `get_blocks_inv` and what
follows from it. The variable `world`, chosen initially, says what may come in
between: defects (`route`: the peer's route for a header raises; `difficulty`; `columns`,
as above; `payments`: a payment ends the worker, by the Merkle root, by `verify` or by
the pool's look-up), blocks that may be refused, requests that fail, stops, rivals,
and two announcements at the same time. Refusals are a choice, of any block of
`RefusedBlocks` and, with `columns`, of any block with payments: which payments the node
has pooled decides, and that is in `Node`. `FillRaises` is the death of an honest block
that shares a transaction with a stored one, or whose transactions the peer does
not have on its branch 0.

**Gossip.** A message is a triple of sender, receiver and block; a miner's own
message has its node as sender and receiver. `at` says where each one is: with
the process that enqueues it, in the proxy, in the socket of a worker, taken or
lost. `enqueue` makes a context of its own that is terminated when it returns, and
that waits until the message is handed over: the server, one thread, answers
nobody meanwhile (`Enqueuing`, `Answers`). `dequeue` likewise makes a socket per
message, and on its return the socket is closed with what else is in it
(`Receive`); until the proxy notices (`Notice`), it goes on dealing to it (`Deal`). The
proxy may fail to start (`ProxyFails`). A worker that was told of a block looks it
up (`Look`), requests it (`Fetch`, `Refuse`, `FetchRaises`), adds it (`Add`, `AddRaises`) and
posts to one peer after the other (`Post`, `Answered`), each without a timeout. A block of
`Clashing` has a transaction, or a `prev_hash`, in common with another, or a payment that may
not pass: in world `clash` it may be refused or end the worker, at the request or when it
is added. A server that is up is busy with its inbox and nothing else here; that it may be
stuck in the ping of `connect` is in `Peers`. `Stop` is `quit`, `StopMiner` is `mine stop` while the miner enqueues; both lose what a process held.

**Merkle.** `Mined` is the miner's list, `Inventory` what the table serves, `Rebuilt`
what a receiver puts together, `FirstThenByHash` and `NextLevel` the lines of `Block` and
of `Validator`, which are the same. A hash value is the sequence that was hashed.
Types are any integers, and only blocks whose coinbase has the least one are promised
a root (`CoinbaseLeads`). The genesis block is left out: its transactions in the seed have
no coinbase, and every node has it.

**Peers.** For every node: `network`, the table `downtime` (a row is a number), `up`
(its server accepts connections), `main` (position in `start`, `discover_peers`,
`check_peers_full`), `todo`, `found`, `at`, and `serving` (the initiator whose `/connect/`
its server is handling). A request to a server that is `serving` waits, for as
long as it takes: `requests` has no timeout by default, and Bottle's server takes
one connection at a time. A request to a server that is not `up` fails.
`ReceiveConnect` is `connect` up to the ping inside it; `PingAnswered` and `PingFails`
are the rest.

## 3. Runs

| Run | Instance | Checks | Distinct states |
|---|---|---|---|
| `MCBlockchain` | 3 processes, 7 blocks: three rival subtrees, one block of five transactions | invariants, `IInv`, both refinements, `RaisesAreForeseen`, `MainBranchSpendsOnce`, `RootSurvivesRelay` | 483,459 |
| `MCNode` | miner, 1 worker, server, 4 kinds of blocks and 3 on blocks of peers, height 3, 5 builds, stops | safety, `IInv`, `StoreShape`, `LeavesPoolOnlyWhenMined` | 341,016 |
| `MCNode_solo` | miner and server, 4 payments, one per block: two follow a third, one has no `prev_hash`, two pay no fee, one is in another asset, two are to the payer himself | liveness, `MinedLeavesPool`, `MoneySupply` | 10,458 |
| `MCSynchronize` | 2 workers, a peer of up to 7 blocks, rounds of 3 with overlap 1, two rivals, a payment in two blocks, 8 worlds | gaps, nesting, deaths, liveness, `IInv` | 106,822 |
| `MCGossip` | 2 nodes with a worker and a block each, one block that may clash, 5 worlds | losses, liveness, `DeathNeedsTwin`, `IInv` | 42,949 |
| `MCGossip_twins` | 3 nodes in a triangle, one with 2 workers, one block | `DeliverySpec`, `DeathNeedsTwin` | 829,036 |
| `MCPeers` | 5 nodes, 2 starting; limits 2; 3 networks, 2 tables | `OverrunByOne`, `KnownToEachOther`, `IInv` | 115,720 |
| `MCPeers_starts` | 3 nodes, 2 starting, one of them restarted for ever | `StartsUnlessRing` | 39,346 |

Violation runs, one per disagreement of code and documents that a property of
its own shows: `MCBlockchain_spend`, `MCNode_lost`, `MCNode_overdraft`,
`MCPeers_ring`. The other `findings` are shown by properties that hold.

### What the properties say

* `BranchIsPath`, `FirstChildContinues`, `BranchRowIsTip`, `PrimaryIsTallest`: the shape of
  the branches, in spite of stale reads. `PrimaryIsTallest` holds for a sad
  reason: the block that would make an uncle branch the tallest is lost.
* `StoreShape`: that shape with what it rests on, checked of a whole node.
* `MainBranchSpendsOnce`: along branch 0 no block spends what an ancestor has spent.
  The keys of `transactions` compare two rows of one branch, and only because branch
  0 is one path from the genesis block do they do for the main chain what the
  documents claim for all (on an uncle chain they do not: `MCBlockchain_spend`).
* `StoreSpec`: the statements of all calls implement one atomic step. Rows of
  `branches` that dead calls leave behind are invisible there.
* `PrimaryChainSpec`: branch 0 only grows, at its tip; the swap of branches that
  the whitepaper draft describes never happens.
* `RaisesAreForeseen`: a call of `add_block` decides by what it has read in earlier
  transactions, and still dies of two things only: its predecessor is off branch 0, or
  its rows clash on the predecessor's branch. `Node` and `Synchronize` let it raise then
  and at no other time.
* `RootSurvivesRelay`: miner, table and receiver order a block's transactions each
  in their own way, and compute the same root, if the coinbase has the least type.
  A payment of type GENESIS leads its block in the inventory, and the block is refused.
* `NothingPassesDefects`: what the code does as it is.
* `StoredIsSigned`: verification happens when a payment enters the node, storing
  happens elsewhere and later, and still no unverified payment is stored, not even
  one that says it is a coinbase and therefore is not verified.
* `MoneySupply`: balances as `get_balance` computes them and what it does not show add
  up to the rewards of branch 0. It counts what an address pays to itself as paid and
  not as received, what is paid to "0" is nobody's, and another asset than the default
  one does not count, so that such a payment's fee is in the next coinbase and was
  taken from nobody: there is more money than rewards, and `NotInBalances` says how much
  (`findings`).
* `LeavesPoolOnlyWhenMined`, `MinedLeavesPool`, `PooledIsMined`: pool and chain. The
  second and third hold for a node without workers only: a worker that
  validated a payment before it was mined pools it afterwards, and nothing
  deletes it again. A pooled payment is mined unless some pooled payment has killed
  the miner, having a `prev_hash` that is taken (`Jams`); nothing keeps such a
  payment out of the pool (`findings`).
* `RoundLeavesNoGap`: when a round is over, the last block it asked for is stored,
  although blocks were stored by others, in between and from within, unless the
  peer's chain has a block up to it that may be refused.
* `NestedOnlyOnRefusal`: only a block that may be refused makes a synchronization call
  itself, and then it does so until the recursion limit.
* `QuietDeath`: in a build with the defects mended, a worker left alone with a peer
  that answers, and whose chain passes and has no rivals, dies of one thing, a last
  round of more than 500 heights; which is a defect (`findings`). As the code is, it dies
  sooner: of every header and of every coinbase that it fetches.
* `WorkerComesBack`: every announcement is done with in the end.
* `DeliverySpec`: a node posts a block to a peer once at most, however many workers
  learn of it at the same time, and the queue deals no message twice.
* `LossNeedsCompany`: in a network that nobody stops a message is lost only together
  with another one for the same node.
* `DeathNeedsTwin`: in a network without the defect, lost peers or failed queues, a
  worker dies only of a block that clashes with others, or of one that another worker
  of its node was told of too and has stored.
* `WorkersComeBack`, `MessagesEnd`, `NeighbourLearns`: nobody waits for ever, though
  workers wait for servers of nodes whose workers wait for theirs; every message
  ends; and a neighbour learns of a block unless a message was lost or no worker
  is left. With a failed queue (`fails`) the first two do not hold: that node's server
  blocks with its first message, and with it the workers of all its peers.
* `OverrunByOne`: two processes check before they add, so the limit is exceeded by
  one and not more.
* `KnownToEachOther`: a full node takes up a peer only if the peer takes it up,
  restarts of either side aside.
* `StartsUnlessRing`: a start ends, unless a ring of servers ping each other.

### Bounds

`MaxBranches` and `BranchNumbers` bound the rows of `branches`: in `Blockchain`
a call starts only while there are fewer than two rows, so that three calls make
up to four, and a stale rival, a lost row and a fresh branch coexist.
`MaxHeight` 3 gives an uncle that is outgrown by the main branch and one that
could outgrow it. `MaxEmpty` keeps the miner from going on for ever on an empty
pool. `ChunkSize` 1 with four payments, three of which pay less than the first, makes payments
wait, and two payments of one `prev_hash` as well as one with the default jam the miner. `Span` 1 makes the
difficulty look back within the bound. Every stale read of the store involves
one reader and one writer; the third process adds a second reader of the same
state and a call that dies meanwhile. `MinPeers = MaxPeers = 2` with five nodes
lets a table exceed its limit by one and, if the code were worse, by two.
In `MCSynchronize` stride, limit and overlap keep the proportions of 500, 500 and
100: a peer that is up to 3 ahead takes one round, one that is further two or
three, and a last round that starts more than 2 behind asks for too many heights;
with `MaxDepth` 3 a synchronization calls itself twice and fails to do so again. The worlds are
chosen one to three circumstances at a time. In `MCGossip` two nodes are enough for
servers to wait on each other; the triangle of `MCGossip_twins` is the least network
in which a node is told of a block by two peers. ZeroMQ's high-water mark (1000
messages) is not modelled.
`Threshold` 1 makes one failure count as a downtime for good; the code's 20
would only multiply states. The processes of `Blockchain` are interchangeable in
everything the run checks (no liveness among it), so that run uses their
symmetry, and `MCGossip_twins` uses that of the two workers of one node; the
others use none. `CHECK_DEADLOCK FALSE` is set where the node
really may stop: all its processes dead or idle, or the tree of blocks used up.

### Fairness

`Node!FairSpec`, `Synchronize!FairSpec` and `Gossip!FairSpec` ask weak fairness of each
process: an operating system runs what can run. In `Gossip` that includes the proxy
and the sockets of one machine (`Carry`). Starts, stops, kills, mining and arrivals
are never fair, nor is the peer's growth in `Synchronize`. `Peers!FairSpec` asks strong fairness of a main process and of a server's
ping: what they wait for is a connection in the backlog of a listening socket,
served first come first served, so a server that is idle again and again gets to
it.

## 4. Proofs

All proofs are checked by TLAPS for every value of the constants that satisfies
the assumptions `BlockTreeAssumption`, `BoundAssumption`, `MempoolAssumption`,
`StoreStepAssumption`, `NodeAssumption`, `LedgerAssumption`, `MerkleAssumption`,
`SynchronizeAssumption`, `PeerAssumption`, `GossipAssumption` and `PeersAssumption`,
which TLC evaluates in the runs of the modules that state them.

* `PeerAssumption` says that the blocks of the peer's branch 0 spend nothing twice,
  which is `NodeSpendsOnce` of the peer, and that a round is not more than one answer;
  only `QuietDeathsAreRefusals` uses it.
* `LedgerAssumption`: there are finitely many blocks and transactions (hashes have
  256 bits); amounts are integers, where the table has `REAL`; no payment has the
  source "0", which is no public key, so that one that claims it fails like a payment
  with a bad signature; and those of the seed have it. Only `MoneyIsConserved` uses it.
* `StoreStepAssumption`: the genesis block has a transaction with `prev_hash` "0".
  `DefectsBar` uses it.
* `MerkleAssumption`: a block has a coinbase, and its transactions have hashes of their
  own. Only `RelayKeepsRoot` uses it; that the coinbase has the least type is a condition
  in the property and not an assumption.

**DataTheorems.** The library's induction theorems take a predicate as a parameter,
which the provers cannot instantiate. Here induction is stated for a set: a set
of numbers with 0 that is closed under successor has all of them
(`NatByInduction`), and a family of subsets of a finite set that has {} and is closed
under adding an element has the whole set (`FiniteInduction`). Both come from the
well-foundedness of finite sets under inclusion, which the library states for
sets. From them: the sum of module `Functions` satisfies its recursion (`SumsExist`,
`SumUnfolds`), does not depend on the order of its summands (`SumRemove`), and is additive
(`SumPlus`, `SumUnion`).

**StoreProofs.** What a row may do that `BlockStore` allows (`MayEnter`): it goes on top of
its predecessor's branch, or alone on a new one next to a rival. Such a row keeps
`StoreShape` (`ShapeKeptByRow`) and the keys of its branch (`SpendsOnceKeptByRow`), and on
branch 0 it is a step of `PrimaryChain`. `MainBranchByConstraints`: with that shape all
ancestors of a block on branch 0 are on branch 0 (`PrimaryHasAncestors`, by induction
over heights), so the keys of the one branch compare it with all of them.

**BlockchainProofs.** `IInv` is `TypeOK`, the shape of the store and what each
running call may rely on. The shape needs strengthening: `BranchIsPath` follows
only if branches have no gaps (`NoGap`), start off their predecessor's branch at
their lowest block (`RootIsLowest`), which with the rest is `StoreShape`, and have their
number in `branches` (`BranchNumbers`).
What a call relies on (`CallOK`): its predecessor is stored; either it continues the
predecessor's branch or it alone owns a fresh number (`OwnsFreshBranch`), and then a
rival is stored already (`HasRival`); a block above all others is on its way to branch
0 or to the exception. The proof has a lemma per kind of step (a read, a new
branch, an insert) for the store and one for the calls of the other processes.
From it: `Typing`, `BranchesArePaths`, `UnclesStayBehind`, `FirstChildrenContinue`,
`BranchRowsAreTips`, and the refinement `AddBlockIsAtomic`; from that by `StoreProofs`
`PrimaryNeverDisplaced` and `MainChainSpendsOnce`. `DeathsAreForeseen`: a call that goes on along
the predecessor's branch breaks a key of that branch; one with a branch of its own has it
because it saw a rival next to its predecessor, and rivals stay (`HasRival`), so that its
clash is one on the predecessor's branch, too; and one that was to displace branch 0 has its
predecessor elsewhere.

**NodeProofs.** `IInv` adds to `StoredIsSigned` that everything in the pool and in the
miner's hands is signed and, per handler, that a payment of its block is verified,
or still to be looked up, or still to be fetched (`HandlerOK`). `OnlySignedIsStored`,
and `NoPaymentIsLost` (the miner empties the pool of a block that is stored) follow, and
with `StoreProofs` `NodeKeepsShape`, `NodeSpendsOnce` and `NodeNeverDisplaces`. A transaction
that a worker takes for a coinbase is not verified; that it is not a payment is left to the
check of the reward, which wants one coinbase, from "0".

`MoneyIsConserved` needs of `IInv` that every stored block has one coinbase that pays
its reward and fees (`StoredIsPaid`), which holds because the miner's block does while
it is worked on and a worker's is checked before it is stored, and of the store that a
transaction is on branch 0 once. Then: over all addresses a payment changes the
balances and what they do not show by its fee, a coinbase by its amount (`LedgerOfOne`);
hence, by induction over the transactions of branch 0, balances and `NotInBalances`
are the sum of these (`LedgerOfAll`); in one block fees and coinbase come to the
reward (`WorthOfBlock`), and branch 0 is the disjoint union of its blocks
(`WorthOfBranch`).

`MinedIsDeleted` has hypotheses that are part of its claim: no workers and no stops,
without which the property is false. Its invariant `SoloInv` says besides that what
the miner works on stays pooled until it deletes it itself, and that the payment
the server is about to pool is neither pooled nor stored although several of its
queries lie back: the server is the only one that pools, and the miner stores
pooled payments only.

`DefectsBar` needs `DefectsInv` besides: with signatures that
cannot be verified a payment of a handler's block stays to be looked up or fetched
(`HandlerStopped`), a miner without payments in the pool builds empty blocks, and with garbled
columns the coinbase of the seed is in the way of every other on branch 0.

**PeersProofs.** `OverrunByOne` is not inductive: a count below the maximum says
nothing about who is about to add. `IInv` therefore counts places (`PlacesOK`): a
main process holds one from its look at the count until it adds the peer or
gives up, a server holds one while it pings; peers counted and places together
are at most `MaxPeers + 1`, or the table is still the first one and no place is
held. The second place is taken only while the count is below the maximum, and
adding a peer gives up the place it fills. `HandshakeOK` ties the two sides of a
handshake together: an initiator about to add a peer is in that peer's table
already, and a server that pings does so for an initiator that waits for it.
From it: `Typing`, `LimitIsNearlyKept`, `HandshakesAreMutual`.

**SynchronizeProofs.** `RoundLeavesNoGap` needs what a call knows of its store. `IInv`
has, for each call on the stack, that up to the block before its next hash
everything is stored or a block that may be refused is below (`FrameOK`, `OuterOK`), for a worker
that handles a hash which one it is (`HandlesHash`), and that what is stored of the
peer's chain has no holes (`PeerChainClosed`), so that the last common block of a
part of the chain is one of the whole. A block that was handed on and is not
stored then may be refused, or its predecessor is unknown, which the first two
exclude unless a lower one may be refused: hence `NestedOnlyOnRefusal`. From it:
`SynchronizeTyping`, `StoredChainIsClosed`, `RoundsLeaveNoGap`, `NestingMeansRefusal`.
`QuietDeathsAreRefusals` excludes
every exception but one: `AloneInv` says that a node alone with its peer has nothing
but the peer's chain on branch 0, that one worker is at work at a time, with a block that is
not stored yet once its header has passed, and how long a round is. What clashes
with such a block, or raises, would then be a sibling or a double spend on the peer's
own branch.

**GossipProofs.** `IInv` is a token argument (`AnnouncedOnce`): for a node and a block,
either the node has yet to store it, or its miner's message is under way, or one
worker broadcasts it, and in the first two cases nothing has been posted; and a
broadcasting worker has posted to nobody it has yet to post to (`WorkerOK`).
`LossNeedsCompany` needs that a closed socket's worker has taken something
(`ClosedHasTaken`). From it: `LossesNeedCompany`, `BlocksAreAnnouncedOnce` and the
refinement `GossipDeliversOnce`. `DeathsNeedTwins` adds `TwinInv`: two workers are never
at one message (`TakenOK`), a node that stored another's block did so for a message
that is done with (`BroughtByMessage`), and a block that a worker fetches is news or
another worker's work (`NewsOrTwin`). A worker whose block is stored already is then
at a different message than the one that brought it. Blocks that may clash are left out by
the property, not by the model: in world `clash` they may end a worker.

**MerkleProofs.** What counts of the list that `Block` gets is its first element and the
set of the others, which it sorts itself. So `RelayKeepsRoot` is about orders, and the
tree above them is never looked into: sorting a finite set by a strict total
order gives a sequence with each element once (`RankIsBijective`,
`InOrderIsSequence`), a filter keeps the elements asked for (`OnlyHasElements`), and all
three lists begin with the coinbase and go on with the rest of the block
(`InventoryIsCanonical`, `MinedIsCanonical`, `RebuiltIsCanonical`); the first of the inventory's
does so because of its type, which is where the condition comes in.

**Only model-checked:** liveness, which the prover does not do: `PooledIsMined`,
`StartsUnlessRing`, `WorkerComesBack`, `WorkersComeBack`, `MessagesEnd`,
`NeighbourLearns`. Every invariant and every refinement that a passing run checks is a
theorem.

## 5. What is not modelled

* `prune` (dead code, and it raises), histories and listings for HTTP, the
  experimental `pubsub`, tools, key handling, serialisation: no shared state or no
  behaviour to check.
* Proof of work, signatures and the honesty of peers are oracles: a nonce is found
  at any time, `Signed` is the set of payments that verify, and any block or payment may be
  announced at any time.
* The callers of `add_block` in `Blockchain` check that the predecessor is stored and
  nothing else; the validator in front of it is in `Node`.
* `Synchronize` has one peer; other peers and the miner are `OtherAdds`. Its blocks'
  transactions are validated in `Node`: which block `validate_transaction` or
  `validate_block` refuses is left to `RefusedBlocks`, any of which may be refused or pass.
* Servers in `Gossip` are busy with their inbox only. One that is stuck in the ping of
  `connect` (`public.py:23`) stops answering as well; that is `Peers`, and what
  `WorkersComeBack` and `MessagesEnd` say is said of nodes past their handshakes.
* Fees and amounts are floating-point numbers in the code. Miner and receiver add them up
  in different orders and compare for equality; integers do not show what that may lead to.
* A `tx_type` that is no number of the enum raises ValueError where a worker looks at it.
* `Gossip` has announcements of blocks; those of transactions take the same way, but
  the broadcast of what a worker learned raises as the code is (`broadcast` in `Node`).
  Lists of peers are constant there; how they come about is in `Peers`.
* The value of the difficulty: beyond the adjustment span, and for every header of a
  peer, the method raises before it computes one; up to the span it is a constant.
* `MempoolMemory` is used by nothing.
* Light clients call `check_peers_light` and add peers without a handshake; `Peers`
  has full nodes only.
* Storage faults: a SQLite file that stays locked raises like a kill at that
  statement.

## 6. Plan

1. *Done:* block store, its abstractions and proofs; mempool and node; peers;
   synchronization; queue and announcements; Merkle root.
2. Light clients in `Peers`; lists of peers that change in `Gossip`.
3. **Proofs**: all safety properties of the runs are proved. Next: the safety part of
   `StartsUnlessRing` (a check that waits has a server to wait for) and of
   `WorkersComeBack` (a server that waits has a queue to wait for).
4. The servers of `Gossip` and `Peers` in one module, in which a handshake can hold up an
   announcement.
