-------------------------------- MODULE Node --------------------------------
(***************************************************************************)
(* A full node: its miner (crankycoin/miner.py), its queue workers         *)
(* (FullNode.worker of crankycoin/node.py with services/validator.py) and  *)
(* its HTTP server (POST /transactions/ of routes/public.py), which share  *)
(* the block store and the mempool and nothing else.  No two queries of a  *)
(* process are made in one database transaction, so the processes          *)
(* interleave between any two of them.                                     *)
(*                                                                         *)
(* add_block is the step of module StoreStep.  Proof of work, signatures   *)
(* and peers are oracles: a nonce is found at any time, Signed holds the   *)
(* payments that verify, and peers offer any block or payment at any time. *)
(***************************************************************************)
EXTENDS Mempool, StoreStep, TransactionTypes

CONSTANTS
    Workers,      \* the queue workers
    Server,       \* the HTTP server, single-threaded
    Signed,       \* the payments with a good signature
    Source, Dest, Amount,   \* of every transaction
    InCoin,       \* the transactions in the default asset, "Cranky Coin"
    Mint,         \* "0", the source of a coinbase, which is nobody's address
    NoTx,         \* no transaction
    Reward,       \* Reward[h]: get_reward(h)
    Span,         \* DIFFICULTY_ADJUSTMENT_SPAN
    Builds,       \* builds of the node: which of KnownDefects each one has
    Stops,        \* whether processes are stopped at any point and restarted
    MaxEmpty      \* bound: above this height the miner builds no empty block

Handlers == Workers \cup {Server}
Transactions == DOMAIN Amount

\* Calls that raise, or return garbage, whatever the state of the node.  The
\* code has all of them; a build with one of them mended shows what it hides.
\*   verify      Transaction.verify: module codecs is not imported
\*   merkle      sha256 of text raises as soon as there are two hashes
\*   difficulty  calculate_hash_difficulty unpacks a list of headers
\*   lookup      get_unconfirmed_transaction takes the row for its first column
\*   history     get_transaction_by_hash indexes None for an unknown hash
\*   columns     and it takes its columns for their neighbours, blockHash for
\*               asset and asset for data, and leaves out prevHash
\*   broadcast   broadcast_unconfirmed_transaction_inv is not given the host
\*   seed        the genesis block of init_blockchain.sql has no row of type 2,
\*               and get_coinbase_hash_by_block_hash indexes None
KnownDefects ==
    {"verify", "merkle", "difficulty", "lookup", "history", "columns",
     "broadcast", "seed"}

ASSUME NodeAssumption ==
    /\ Server \notin Workers
    /\ Signed \subseteq Payments
    /\ Builds \subseteq SUBSET KnownDefects
    /\ Stops \in BOOLEAN
    /\ NoTx \notin Transactions
    /\ Span \in Nat
    /\ Payments \subseteq Transactions
    /\ TxOf \in [Blocks -> SUBSET Transactions]

\* Hashes have 256 bits.  Amounts and fees are integers here, and REAL in the
\* table.  A payment comes from an address: a transaction from "0" that is no
\* coinbase fails like a payment with a bad signature, as "0" is no public key.
\* The transactions of the seed come from "0".
ASSUME LedgerAssumption ==
    /\ IsFiniteSet(Blocks) /\ IsFiniteSet(Transactions)
    /\ \A t \in Transactions : Amount[t] \in Int /\ Fee[t] \in Int
    /\ \A b \in Blocks : Reward[Height[b]] \in Int
    /\ \A t \in Payments : Source[t] # Mint
    /\ \A t \in TxOf[Genesis] : Source[t] = Mint

VARIABLES
    mpc,       \* where the miner is in mine()
    tip,       \* latest_block_header of mine_block, or NoBlock
    own,       \* the block it is working on, or NoBlock
    pc,        \* where each handler is in its message or request
    blk,       \* the block announced to a worker, or NoBlock
    todo,      \* the hashes it has not looked up yet
    cur,       \* the one it is looking up, validating or storing
    missing,   \* the hashes it has to request, missing_transactions_inv
    flag,      \* block: a transaction in it is garbled; inventory: some
               \* transaction has been stored and is to be broadcast
    defects    \* the defects of this build

\* The build stays what it is, whoever takes a step.
miner == <<mpc, tip, own, defects>>
locals == <<pc, blk, todo, cur, missing, flag, defects>>
vars == <<branchOf, pool, mpc, tip, own, pc, blk, todo, cur, missing, flag,
          defects>>

------------------------------------------------------------------------------
(* Queries on the chain *)

Sum(f, S) == SumFunctionOnSet(f, S)

TxOn(n) == UNION {TxOf[b] : b \in OnBranch(n)}

\* get_balance, on branch 0 and in the default asset: what an address pays to
\* itself counts as paid.
BalanceChange(a, t) ==
    CASE Source[t] = a -> -(Amount[t] + Fee[t])
      [] Source[t] # a /\ Dest[t] = a -> Amount[t]
      [] OTHER -> 0

\* A slip: all assets count as one.
BalanceOfAllAssets(a) == Sum([t \in Transactions |-> BalanceChange(a, t)], TxOn(0))

Balance(a) == Sum([t \in Transactions |-> BalanceChange(a, t)], TxOn(0) \cap InCoin)

\* Whatever asset t is in, it is checked against the balance in the default one.
SufficientFunds(t) == Amount[t] + Fee[t] <= Balance(Source[t])

Coinbases(b) == {t \in TxOf[b] : IsCoinbase(t)}

\* What the coinbase of b has to pay: the reward and the fees of all the other
\* transactions, in whatever asset.
RewardDue(b, c) == Reward[Height[b]] + Sum(Fee, TxOf[b] \ {c})

PaysOut(b, c) == Amount[c] = RewardDue(b, c) /\ Source[c] = Mint

\* A slip: a coinbase may pay more than is due.
RewardAtLeastDue(b) ==
    \E c \in Coinbases(b) :
        Coinbases(b) = {c} /\ Amount[c] >= RewardDue(b, c) /\ Source[c] = Mint

\* A slip: the transactions after the first one may be coinbases, too.
RewardOfOneCoinbase(b) == \E c \in Coinbases(b) : PaysOut(b, c)

\* check_block_reward: one coinbase, from "0", and it pays just that.
CheckBlockReward(b) == \E c \in Coinbases(b) : Coinbases(b) = {c} /\ PaysOut(b, c)

\* validate_block.  The worker puts the fetched coinbase first, and the root of
\* the header is that of an inventory in the order of types: both agree only if
\* no type is smaller.
ValidateBlock(b) ==
    CheckBlockReward(b) /\ \A t \in TxOf[b] : TxType[t] >= COINBASE

------------------------------------------------------------------------------
(* The miner: Miner.mine *)

MinerGoto(step) == mpc' = step

MinerDies == mpc' = "dead" /\ tip' = NoBlock /\ own' = NoBlock

\* The miner builds on any row of the greatest height of branch 0.
ReadTip ==
    /\ mpc = "read"
    /\ \/ Stored = {} /\ tip' = NoBlock
       \/ tip' \in TallestBlocks(0)
    /\ MinerGoto("chunk")
    /\ UNCHANGED <<branchOf, pool, own, locals>>

\* The block of mine_block on top of its tip: the payments S, whatever they are,
\* and a coinbase that pays the reward and the fees and follows a row of type
\* COINBASE of the predecessor.
IsBuiltOf(b, S) ==
    /\ Prev[b] = tip
    /\ S = {} => Height[b] <= MaxEmpty
    /\ \E c \in TxOf[b] \ Payments :
          /\ TxOf[b] = S \cup {c}
          /\ IsCoinbase(c) /\ PaysOut(b, c)
          /\ b # Genesis => TxPrev[c] \in Coinbases(tip)

\* A slip: the payments leave the pool when they enter the block.
TakeFromPool ==
    /\ mpc = "chunk"
    /\ \E S \in Chunks, b \in OwnBlocks : IsBuiltOf(b, S) /\ own' = b /\ Remove(S)
    /\ tip' = NoBlock
    /\ MinerGoto("work")
    /\ UNCHANGED <<branchOf, locals>>

\* A slip: no Merkle root is computed for the own block.
BuildWithoutMerkle ==
    /\ mpc = "chunk"
    /\ \E S \in Chunks, b \in OwnBlocks : IsBuiltOf(b, S) /\ own' = b
    /\ tip' = NoBlock
    /\ MinerGoto("work")
    /\ UNCHANGED <<branchOf, pool, locals>>

\* With a payment to hash besides the coinbase the Merkle root needs two hashes.
BuildBlock ==
    /\ mpc = "chunk"
    /\ ~("seed" \in defects /\ tip = Genesis)
    /\ \E S \in Chunks, b \in OwnBlocks :
          /\ "merkle" \in defects => S = {}
          /\ IsBuiltOf(b, S)
          /\ own' = b
    /\ tip' = NoBlock
    /\ MinerGoto("work")
    /\ UNCHANGED <<branchOf, pool, locals>>

BuildRaises ==
    /\ mpc = "chunk"
    /\ \/ "merkle" \in defects /\ pool # {}
       \/ "seed" \in defects /\ tip = Genesis
    /\ MinerDies
    /\ UNCHANGED <<branchOf, pool, locals>>

\* calculate_hash_difficulty() with t on top: the list of the headers of one
\* height is unpacked into three variables.
DifficultyComputed(t) ==
    "difficulty" \in defects /\ Height[t] > Span =>
        Cardinality({b \in Stored : Height[b] = Height[t] - Span}) = 3

\* The tip is not read again once the hash is good enough.
FindNonce ==
    /\ mpc = "work"
    /\ \A t \in TallestBlocks(0) : DifficultyComputed(t)
    /\ MinerGoto("add")
    /\ UNCHANGED <<branchOf, pool, tip, own, locals>>

DifficultyRaises ==
    /\ mpc = "work"
    /\ \E t \in TallestBlocks(0) : ~DifficultyComputed(t)
    /\ MinerDies
    /\ UNCHANGED <<branchOf, pool, locals>>

\* "Next block in sequence was mined by another node."
GiveUp ==
    /\ mpc = "work"
    /\ \E t \in TallestBlocks(0) : Height[t] >= Height[own] \/ t # Prev[own]
    /\ own' = NoBlock
    /\ MinerGoto("read")
    /\ UNCHANGED <<branchOf, pool, tip, locals>>

MinerAdds ==
    /\ mpc = "add"
    /\ AddBlock(own)
    /\ MinerGoto("remove")
    /\ UNCHANGED <<pool, tip, own, locals>>

MinerAddRaises ==
    /\ mpc = "add"
    /\ AddBlockRaises(own)
    /\ MinerDies
    /\ UNCHANGED <<branchOf, pool, locals>>

\* A slip: the mined payments stay in the pool.
KeepMined ==
    /\ mpc = "remove"
    /\ own' = NoBlock
    /\ MinerGoto("read")
    /\ UNCHANGED <<branchOf, pool, tip, locals>>

RemoveMined ==
    /\ mpc = "remove"
    /\ Remove(PaymentsOf(own))
    /\ own' = NoBlock
    /\ MinerGoto("read")
    /\ UNCHANGED <<branchOf, tip, locals>>

\* "mine stop", which terminates the process, and "mine start".
StopMiner ==
    /\ Stops
    /\ mpc # "dead"
    /\ MinerDies
    /\ UNCHANGED <<branchOf, pool, locals>>

StartMiner ==
    /\ Stops
    /\ mpc = "dead"
    /\ MinerGoto("read")
    /\ UNCHANGED <<branchOf, pool, tip, own, locals>>

MinerStep ==
    \/ ReadTip \/ BuildBlock \/ BuildRaises
    \/ FindNonce \/ DifficultyRaises \/ GiveUp
    \/ MinerAdds \/ MinerAddRaises \/ RemoveMined

------------------------------------------------------------------------------
(* Handlers: a worker on a message, the server on a request *)

Goto(p, step) == pc' = [pc EXCEPT ![p] = step]

Finish(p, step) ==
    /\ Goto(p, step)
    /\ blk' = [blk EXCEPT ![p] = NoBlock]
    /\ todo' = [todo EXCEPT ![p] = {}]
    /\ cur' = [cur EXCEPT ![p] = NoTx]
    /\ missing' = [missing EXCEPT ![p] = {}]
    /\ flag' = [flag EXCEPT ![p] = FALSE]

\* An exception ends a worker; Bottle turns it into an answer of the server.
Raise(p) == Finish(p, IF p = Server THEN "idle" ELSE "dead")

IsBlockJob(p) == blk[p] # NoBlock

\* A payment that does not pass ends the handling of a block, and is left out
\* of an inventory.
Invalid(p, rest) ==
    IF IsBlockJob(p) THEN Finish(p, "idle")
    ELSE /\ Goto(p, "fetch")
         /\ cur' = [cur EXCEPT ![p] = NoTx]
         /\ missing' = [missing EXCEPT ![p] = rest]
         /\ UNCHANGED <<blk, todo, flag>>

\* sha256 is not called for a single hash.
HasOneHash(b) == \A s, t \in TxOf[b] : s = t

\* __process_block_header, validate_block_header: an unknown predecessor leads
\* to __synchronize, which requests the blocks in between one by one.
ReceiveHeader(p, b) ==
    /\ pc[p] = "idle"
    /\ b \notin Stored /\ Prev[b] \in Stored
    /\ "difficulty" \notin defects
    /\ "merkle" \in defects => HasOneHash(b)
    /\ Goto(p, "chain")
    /\ blk' = [blk EXCEPT ![p] = b]
    /\ todo' = [todo EXCEPT ![p] = TxOf[b]]
    /\ UNCHANGED <<branchOf, pool, miner, cur, missing, flag>>

HeaderRaises(p, b) ==
    /\ pc[p] = "idle"
    /\ b \notin Stored
    /\ \/ "merkle" \in defects /\ ~HasOneHash(b)
       \/ "difficulty" \in defects /\ Prev[b] \in Stored
    /\ Raise(p)
    /\ UNCHANGED <<branchOf, pool, miner>>

ReceiveInventory(p, S) ==
    /\ pc[p] = "idle"
    /\ S # {}
    /\ Goto(p, "chain")
    /\ todo' = [todo EXCEPT ![p] = S]
    /\ UNCHANGED <<branchOf, pool, miner, blk, cur, missing, flag>>

\* A transaction sent by a peer in full is validated and passed on, not stored.
TransactionRaises(p, t) ==
    /\ pc[p] = "idle"
    /\ "verify" \in defects /\ ~IsStored(t)
    /\ Raise(p)
    /\ UNCHANGED <<branchOf, pool, miner>>

\* post_transactions looks into the mempool first.
PostTransaction(t) ==
    /\ pc[Server] = "idle"
    /\ Goto(Server, "pool")
    /\ cur' = [cur EXCEPT ![Server] = t]
    /\ UNCHANGED <<branchOf, pool, miner, blk, todo, missing, flag>>

\* First loop, per hash: the chain is asked first.  A block with a transaction
\* that any branch already has makes validate_block_transactions_inv return
\* one value where its caller unpacks two.
AskChain(p) ==
    /\ pc[p] = "chain"
    /\ \E t \in todo[p] :
          /\ cur' = [cur EXCEPT ![p] = t]
          /\ todo' = [todo EXCEPT ![p] = @ \ {t}]
          /\ IF IsBlockJob(p) THEN ~IsStored(t)
             ELSE t \notin TxOn(0) /\ "history" \notin defects
    /\ Goto(p, "pool")
    /\ UNCHANGED <<branchOf, pool, miner, blk, missing, flag>>

AskChainRaises(p) ==
    /\ pc[p] = "chain"
    /\ \E t \in todo[p] :
          IF IsBlockJob(p) THEN IsStored(t)
          ELSE t \notin TxOn(0) /\ "history" \in defects
    /\ Raise(p)
    /\ UNCHANGED <<branchOf, pool, miner>>

SkipConfirmed(p) ==
    /\ pc[p] = "chain"
    /\ ~IsBlockJob(p)
    /\ \E t \in todo[p] \cap TxOn(0) : todo' = [todo EXCEPT ![p] = @ \ {t}]
    /\ UNCHANGED <<branchOf, pool, miner, pc, blk, cur, missing, flag>>

\* A slip: a transaction that is not in the pool is not requested.
ForgetMissing(p) ==
    /\ pc[p] = "pool"
    /\ cur' = [cur EXCEPT ![p] = NoTx]
    /\ Goto(p, "chain")
    /\ UNCHANGED <<branchOf, pool, miner, blk, todo, missing, flag>>

\* ... then the mempool.  What is found there is used for the block as it is
\* read, or needs no further work.
AskPool(p) ==
    /\ pc[p] = "pool"
    /\ IF cur[p] \in pool
       THEN /\ flag' = [flag EXCEPT ![p] =
                   @ \/ (IsBlockJob(p) /\ "lookup" \in defects)]
            /\ UNCHANGED missing
       ELSE /\ missing' = [missing EXCEPT ![p] = @ \cup {cur[p]}]
            /\ UNCHANGED flag
    /\ cur' = [cur EXCEPT ![p] = NoTx]
    /\ Goto(p, "chain")
    /\ UNCHANGED <<branchOf, pool, miner, blk, todo>>

AllAsked(p) ==
    /\ pc[p] = "chain"
    /\ todo[p] = {}
    /\ Goto(p, "fetch")
    /\ UNCHANGED <<branchOf, pool, miner, blk, todo, cur, missing, flag>>

\* Second loop, per missing hash: the transaction is requested from the sender
\* and, unless a block takes it for its coinbase, goes through
\* validate_transaction.
TakenAsCoinbase(p, t) == IsBlockJob(p) /\ IsCoinbase(t)

\* What the sender serves comes out of its get_transaction_by_hash, what is
\* posted to the server out of the request.
Verifies(p, t) == t \in Signed /\ (p # Server => "columns" \notin defects)

FetchCoinbase(p) ==
    /\ pc[p] = "fetch"
    /\ \E t \in missing[p] :
          /\ TakenAsCoinbase(p, t)
          /\ missing' = [missing EXCEPT ![p] = @ \ {t}]
    /\ UNCHANGED <<branchOf, pool, miner, pc, blk, todo, cur, flag>>

\* A slip: the signature is not checked.
FetchUnverified(p) ==
    /\ pc[p] = "fetch"
    /\ \E t \in missing[p] :
          /\ ~TakenAsCoinbase(p, t) /\ ~IsStored(t)
          /\ missing' = [missing EXCEPT ![p] = @ \ {t}]
          /\ cur' = [cur EXCEPT ![p] = t]
    /\ Goto(p, "funds")
    /\ UNCHANGED <<branchOf, pool, miner, blk, todo, flag>>

Fetch(p) ==
    /\ pc[p] = "fetch"
    /\ \E t \in missing[p] :
          /\ ~TakenAsCoinbase(p, t) /\ ~IsStored(t)
          /\ "verify" \notin defects /\ Verifies(p, t)
          /\ missing' = [missing EXCEPT ![p] = @ \ {t}]
          /\ cur' = [cur EXCEPT ![p] = t]
    /\ Goto(p, "funds")
    /\ UNCHANGED <<branchOf, pool, miner, blk, todo, flag>>

FetchInvalid(p) ==
    /\ pc[p] = "fetch"
    /\ \E t \in missing[p] :
          /\ ~TakenAsCoinbase(p, t)
          /\ IsStored(t) \/ ("verify" \notin defects /\ ~Verifies(p, t))
          /\ Invalid(p, missing[p] \ {t})
    /\ UNCHANGED <<branchOf, pool, miner>>

VerifyRaises(p) ==
    /\ pc[p] = "fetch"
    /\ "verify" \in defects
    /\ \E t \in missing[p] : ~TakenAsCoinbase(p, t) /\ ~IsStored(t)
    /\ Raise(p)
    /\ UNCHANGED <<branchOf, pool, miner>>

\* The sender cannot be reached, or does not serve the transaction, as it serves
\* none but those on its branch 0: request_transaction returns None, which
\* neither __process_block_header nor validate_transaction expects.
SenderGone(p) ==
    /\ p # Server
    /\ pc[p] = "fetch"
    /\ missing[p] # {}
    /\ Raise(p)
    /\ UNCHANGED <<branchOf, pool, miner>>

CheckFunds(p) ==
    /\ pc[p] = "funds"
    /\ SufficientFunds(cur[p])
    /\ IF IsBlockJob(p)
       THEN Goto(p, "fetch") /\ cur' = [cur EXCEPT ![p] = NoTx]
       ELSE Goto(p, "push") /\ UNCHANGED cur
    /\ UNCHANGED <<branchOf, pool, miner, blk, todo, missing, flag>>

InsufficientFunds(p) ==
    /\ pc[p] = "funds"
    /\ ~SufficientFunds(cur[p])
    /\ Invalid(p, missing[p])
    /\ UNCHANGED <<branchOf, pool, miner>>

PushTransaction(p) ==
    /\ pc[p] = "push"
    /\ ~PushRejected(cur[p])
    /\ Push(cur[p])
    /\ flag' = [flag EXCEPT ![p] = p # Server]
    /\ cur' = [cur EXCEPT ![p] = NoTx]
    /\ Goto(p, "fetch")
    /\ UNCHANGED <<branchOf, miner, blk, todo, missing>>

PushRaises(p) ==
    /\ pc[p] = "push"
    /\ PushRejected(cur[p])
    /\ Raise(p)
    /\ UNCHANGED <<branchOf, pool, miner>>

\* The inventory is done, and what is new is broadcast.
Broadcast(p) ==
    /\ pc[p] = "fetch"
    /\ missing[p] = {} /\ ~IsBlockJob(p)
    /\ IF flag[p] /\ "broadcast" \in defects THEN Raise(p) ELSE Finish(p, "idle")
    /\ UNCHANGED <<branchOf, pool, miner>>

\* validate_block is handed what was found in the pool and what was fetched;
\* add_block follows.
RefuseBlock(p) ==
    /\ pc[p] = "fetch"
    /\ missing[p] = {} /\ IsBlockJob(p)
    /\ flag[p] \/ ~ValidateBlock(blk[p])
    /\ Finish(p, "idle")
    /\ UNCHANGED <<branchOf, pool, miner>>

WorkerAdds(p) ==
    /\ pc[p] = "fetch"
    /\ missing[p] = {} /\ IsBlockJob(p)
    /\ ~flag[p] /\ ValidateBlock(blk[p])
    /\ AddFetched(blk[p], "columns" \in defects)
    /\ Finish(p, "idle")
    /\ UNCHANGED <<pool, miner>>

WorkerAddRaises(p) ==
    /\ pc[p] = "fetch"
    /\ missing[p] = {} /\ IsBlockJob(p)
    /\ ~flag[p] /\ ValidateBlock(blk[p])
    /\ AddFetchedRaises(blk[p], "columns" \in defects)
    /\ Raise(p)
    /\ UNCHANGED <<branchOf, pool, miner>>

\* shutdown() terminates the process, between any two statements; a start of
\* the node brings all of its processes up.
StopHandler(p) ==
    /\ Stops
    /\ pc[p] \notin {"idle", "dead"}
    /\ Finish(p, "dead")
    /\ UNCHANGED <<branchOf, pool, miner>>

StartHandler(p) ==
    /\ Stops
    /\ pc[p] = "dead"
    /\ Goto(p, "idle")
    /\ UNCHANGED <<branchOf, pool, miner, blk, todo, cur, missing, flag>>

Receive(p) ==
    \/ \E b \in Blocks \ (OwnBlocks \cup {Genesis}) :
          ReceiveHeader(p, b) \/ HeaderRaises(p, b)
    \/ \E S \in SUBSET Payments : ReceiveInventory(p, S)
    \/ \E t \in Payments : TransactionRaises(p, t)

Handle(p) ==
    \/ AskChain(p) \/ AskChainRaises(p) \/ SkipConfirmed(p)
    \/ AskPool(p) \/ AllAsked(p)
    \/ FetchCoinbase(p) \/ Fetch(p) \/ FetchInvalid(p) \/ VerifyRaises(p) \/ SenderGone(p)
    \/ CheckFunds(p) \/ InsufficientFunds(p)
    \/ PushTransaction(p) \/ PushRaises(p) \/ Broadcast(p)
    \/ RefuseBlock(p) \/ WorkerAdds(p) \/ WorkerAddRaises(p)

------------------------------------------------------------------------------
(* The node *)

Init ==
    /\ EmptyOrSeeded
    /\ defects \in Builds
    /\ pool = {}
    /\ mpc = "read" /\ tip = NoBlock /\ own = NoBlock
    /\ pc = [p \in Handlers |-> "idle"]
    /\ blk = [p \in Handlers |-> NoBlock]
    /\ todo = [p \in Handlers |-> {}]
    /\ cur = [p \in Handlers |-> NoTx]
    /\ missing = [p \in Handlers |-> {}]
    /\ flag = [p \in Handlers |-> FALSE]

Next ==
    \/ MinerStep \/ StopMiner \/ StartMiner
    \/ \E t \in Payments : PostTransaction(t)
    \/ \E p \in Workers : Receive(p)
    \/ \E p \in Handlers : Handle(p) \/ StopHandler(p) \/ StartHandler(p)

Spec == Init /\ [][Next]_vars

\* Each process goes on for as long as it is neither stopped nor waiting.
FairSpec ==
    /\ Spec
    /\ WF_vars(MinerStep)
    /\ \A p \in Handlers : WF_vars(Handle(p))

------------------------------------------------------------------------------
(* Correctness *)

TypeOK ==
    /\ branchOf \in [Blocks -> BranchNumbers \cup {Absent}]
    /\ pool \subseteq Payments
    /\ mpc \in {"read", "chunk", "work", "add", "remove", "dead"}
    /\ tip \in Blocks \cup {NoBlock}
    /\ own \in OwnBlocks \cup {NoBlock}
    /\ pc \in [Handlers -> {"idle", "chain", "pool", "fetch", "funds", "push",
                            "dead"}]
    /\ blk \in [Handlers -> Blocks \cup {NoBlock}]
    /\ todo \in [Handlers -> SUBSET Transactions]
    /\ cur \in [Handlers -> Transactions \cup {NoTx}]
    /\ missing \in [Handlers -> SUBSET Transactions]
    /\ flag \in [Handlers -> BOOLEAN]
    /\ defects \in Builds

\* Signatures are checked when a payment reaches the node, long before it is
\* stored: by the server or a worker that pools it, by a worker that misses it
\* for a block, never by the miner.  Still no stored block has a payment that
\* nobody verified, whatever the processes race on.
StoredIsSigned == \A b \in Stored : PaymentsOf(b) \subseteq Signed

\* What a transaction takes from everybody: get_balance debits an address that
\* pays itself and does not credit it, and "0" has no balance.
Burnt(t) == IF Dest[t] \in {Source[t], Mint} THEN Amount[t] ELSE 0

\* What a block brings into the world: its reward, or what the seed says.
Minted(b) ==
    IF b = Genesis THEN Sum(Amount, TxOf[b]) ELSE Reward[Height[b]]

Addresses == ({Source[t] : t \in Transactions} \cup {Dest[t] : t \in Transactions}) \ {Mint}

\* What get_balance shows to nobody: what was burnt, and of a transaction in
\* another asset what a coinbase pays; the fee of a payment in another asset is
\* taken from nobody, while the next coinbase pays it out.
NotInBalances(t) ==
    CASE t \in InCoin -> Burnt(t)
      [] t \notin InCoin /\ Source[t] = Mint -> Amount[t]
      [] t \notin InCoin /\ Source[t] # Mint -> -Fee[t]

\* The node's ledger creates the rewards and, but for that, no more: the balances
\* that get_balance computes and what they do not show add up to the rewards of
\* the blocks on branch 0, over fees taken by the miner's own sum, fees checked
\* by check_block_reward, payments pooled or fetched, and any type and asset.
MoneySupply ==
    Sum([a \in Addresses |-> Balance(a)], Addresses)
            + Sum([t \in Transactions |-> NotInBalances(t)], TxOn(0))
        = Sum([b \in Blocks |-> Minted(b)], OnBranch(0))

\* A payment that was accepted is not lost: it leaves the pool only when some
\* stored block carries it, although the miner can be outrun, raise or be
\* stopped between building its block and emptying the pool.
LeavesPoolOnlyWhenMined == [][\A t \in pool \ pool' : IsStored(t)]_vars

\* As the code is, an exception stands before everything a defect could spoil:
\* the node stores no block of a peer, and none of them on branch 0 even if the
\* difficulty is mended; it pools no payment and stores none, however often its
\* processes are restarted.
NothingPassesDefects ==
    /\ "difficulty" \in defects => Stored \subseteq OwnBlocks
    /\ "columns" \in defects => OnBranch(0) \subseteq OwnBlocks
    /\ "verify" \in defects => pool = {}
    /\ defects \cap {"verify", "merkle"} # {} =>
          \A b \in Stored : PaymentsOf(b) = {}

\* A payment whose row no block of the main branch takes: its prev_hash is that
\* of another payment of the pool, of a transaction on branch 0, or the hash of a
\* coinbase there, which the coinbase of the next block names.
Jams(t) ==
    \/ \E s \in (pool \cup TxOn(0)) \ {t} : TxPrev[s] = TxPrev[t]
    \/ \E b \in OnBranch(0) : TxPrev[t] \in Coinbases(b)

\* With one server, no worker and no stop: a payment that is pooled is mined
\* into branch 0, lower fees included, unless some payment of the pool has killed
\* the miner, as it then will after every start.
PooledIsMined ==
    \A t \in Payments :
        t \in pool ~> t \in TxOn(0) \/ (mpc = "dead" /\ \E s \in pool : Jams(s))

\* With one server, no worker and no stop, what is stored is not pooled, except
\* while the miner is about to delete it: docs/crankycoin.tex says that "the
\* mempool transactions are persisted to physical store and deleted when they
\* are mined".  A worker that pools what it has validated earlier breaks it.
MinedLeavesPool ==
    \A t \in pool : IsStored(t) => mpc = "remove" /\ t \in PaymentsOf(own)

------------------------------------------------------------------------------
(* The inductive invariant *)

\* All but one transaction of b are verified payments, and that one pays what is
\* due for them.
IsPaid(b) ==
    \E c \in TxOf[b] \ Payments : PaysOut(b, c) /\ TxOf[b] \ {c} \subseteq Signed

StoredIsPaid == \A b \in Stored \ {Genesis} : IsPaid(b)

\* The miner holds a block of pooled, hence verified, payments that pays what is
\* due, and it empties the pool of a block that is stored.
MinerOK ==
    /\ mpc \in {"work", "add", "remove"} =>
          own \in OwnBlocks /\ IsPaid(own)
    /\ mpc = "remove" => own \in Stored

\* A transaction of the block at hand that is neither verified nor taken for its
\* coinbase is still to be looked up or to be fetched; once it is fetched it has
\* been verified.
HandlerOK(p) ==
    /\ blk[p] # NoBlock =>
          \A t \in TxOf[blk[p]] \ Coinbases(blk[p]) :
              \/ t \in Signed \cup todo[p] \cup missing[p]
              \/ pc[p] = "pool" /\ t = cur[p]
    /\ pc[p] \in {"idle", "dead"} => blk[p] = NoBlock
    /\ pc[p] = "pool" => cur[p] \in Transactions
    /\ pc[p] \in {"fetch", "funds", "push"} => todo[p] = {}
    /\ pc[p] \in {"funds", "push"} => cur[p] \in Signed

IInv ==
    /\ TypeOK
    /\ StoredIsSigned
    /\ StoredIsPaid
    /\ pool \subseteq Signed
    /\ MinerOK
    /\ \A p \in Handlers : HandlerOK(p)

\* What NothingPassesDefects rests on besides: no handler gets past a defect,
\* and without payments in the pool, or with a second hash to merge, the miner
\* builds empty blocks.
HandlerStopped(p) ==
    /\ "difficulty" \in defects => blk[p] = NoBlock
    /\ "merkle" \in defects /\ blk[p] # NoBlock => HasOneHash(blk[p])
    /\ "verify" \in defects =>
          /\ pc[p] \notin {"funds", "push"}
          /\ blk[p] # NoBlock =>
                \A t \in TxOf[blk[p]] \ Coinbases(blk[p]) :
                    \/ t \in todo[p] \cup missing[p]
                    \/ pc[p] = "pool" /\ t = cur[p]

DefectsInv ==
    /\ NothingPassesDefects
    /\ defects \cap {"verify", "merkle"} # {} =>
          (mpc \in {"work", "add", "remove"} => PaymentsOf(own) = {})
    /\ \A p \in Handlers : HandlerStopped(p)

------------------------------------------------------------------------------
(* What the documents and tests say and the node does not do *)

\* docs/crankycoin.tex: "Locally, the node always considers the 0 branch to be
\* the main branch", and mempool transactions are "deleted when they are
\* mined".  A payment leaves the pool when a block of the main branch has it.
LeavesPoolForMainBranch == [][\A t \in pool \ pool' : t \in TxOn(0)]_vars

\* services/validator.py: validate_transaction has to "check for double-spend,
\* invalid signature, and insufficient funds".  Nobody's balance on branch 0
\* becomes negative.
NoOverdraft == \A t \in Payments : Balance(Source[t]) >= 0
==============================================================================
