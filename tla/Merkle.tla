------------------------------- MODULE Merkle -------------------------------
(***************************************************************************)
(* The Merkle root of a block, which is computed three times on its way:   *)
(* by Block of models/block.py when it is mined, by the Validator of       *)
(* services/validator.py from the inventory that a peer's table serves,    *)
(* and by Block again when the receiver has put the block together from    *)
(* its own pool and from the peer.  Each orders the transactions anew.     *)
(*                                                                         *)
(* Hashing is taken for injective, and hash values for what was hashed.    *)
(* As the code is, sha256 is handed text from two transactions on and      *)
(* raises (defect "merkle" of module Node): this is what that hides.       *)
(***************************************************************************)
EXTENDS BlockTable, TransactionTypes, Sequences, FiniteSets

CONSTANT TxHash   \* TxHash[t]: the rank of the hash of t among all hashes

\* A block has a coinbase, and the rest is what the miner found in the pool.
ASSUME MerkleAssumption ==
    \A b \in Blocks \ {Genesis} :
        /\ IsFiniteSet(TxOf[b])
        /\ \A t \in TxOf[b] : TxHash[t] \in Int /\ TxType[t] \in Int
        /\ \A s, t \in TxOf[b] : s # t => TxHash[s] # TxHash[t]
        /\ \E c \in TxOf[b] : IsCoinbase(c)

\* The elements of S in the order of R, a set of pairs
InOrder(S, R) ==
    [i \in 1 .. Cardinality(S) |->
        CHOOSE t \in S : Cardinality({s \in S : <<s, t>> \in R}) = i - 1]

ByPosition(S) == {r \in S \X S : r[1] < r[2]}
ByHash(S) == {r \in S \X S : TxHash[r[1]] < TxHash[r[2]]}
ByTypeAndHash(S) ==
    {r \in S \X S : \/ TxType[r[1]] < TxType[r[2]]
                    \/ TxType[r[1]] = TxType[r[2]] /\ r \in ByHash(S)}

Elements(seq) == {seq[i] : i \in 1 .. Len(seq)}

\* What seq has of S, in the order of seq
Only(seq, S) ==
    LET at == {i \in 1 .. Len(seq) : seq[i] \in S}
    IN  [k \in 1 .. Cardinality(at) |-> seq[InOrder(at, ByPosition(at))[k]]]

\* Block.transactions: the first one stays first, the others by hash.
FirstThenByHash(txs) ==
    LET others == Elements(Tail(txs))
    IN  <<Head(txs)>> \o InOrder(others, ByHash(others))

\* One level of the tree: pairs are hashed together, an odd one out alone.
NextLevel(base) ==
    [i \in 1 .. (Len(base) + 1) \div 2 |->
        SubSeq(base, 2 * i - 1, IF 2 * i > Len(base) THEN Len(base) ELSE 2 * i)]

\* The first level that has one node.
Top(base) ==
    LET level[n \in 0 .. Len(base)] ==
            IF n = 0 THEN base ELSE NextLevel(level[n - 1])
        last == CHOOSE n \in 0 .. Len(base) :
            Len(level[n]) = 1 /\ \A m \in 0 .. n - 1 : Len(level[m]) > 1
    IN  level[last][1]

MerkleRoot(txs) == Top(FirstThenByHash(txs))

\* A slip: ORDER BY hash, as in get_transactions_by_block_hash.
InventoryByHash(b) == InOrder(TxOf[b], ByHash(TxOf[b]))

\* get_transaction_hashes_by_block_hash
Inventory(b) == InOrder(TxOf[b], ByTypeAndHash(TxOf[b]))

\* The block as the miner makes it: its coinbase, then the pool's chunk, the
\* order of which is lost when Block sorts it.
Mined(b) ==
    LET coinbase == CHOOSE t \in TxOf[b] : IsCoinbase(t)
        chunk == TxOf[b] \ {coinbase}
    IN  <<coinbase>> \o InOrder(chunk, ByTypeAndHash(chunk))

\* The block as a peer makes it that has those in known in its pool:
\* validate_block_transactions_inv, then the missing ones one by one, of which
\* the coinbase is inserted before all others.
Rebuilt(b, known) ==
    LET coinbases == {t \in TxOf[b] : IsCoinbase(t)}
        missing == TxOf[b] \ (known \cup coinbases)
    IN  Only(Inventory(b), coinbases) \o Only(Inventory(b), known)
            \o Only(Inventory(b), missing)

Poolable(b) == {t \in TxOf[b] : ~IsCoinbase(t)}

SurvivesRelay == [b \in Blocks \ {Genesis} |->
    LET root == MerkleRoot(Mined(b))
    IN  /\ MerkleRoot(Inventory(b)) = root
        /\ \A known \in SUBSET Poolable(b) : MerkleRoot(Rebuilt(b, known)) = root]

\* The coinbase has the least type of all, as it has if every payment is of one
\* of the types that a wallet issues (STANDARD, ASSET_CREATION and so on).
CoinbaseLeads(b) ==
    \E c \in TxOf[b] :
        IsCoinbase(c) /\ \A t \in TxOf[b] \ {c} : TxType[t] > COINBASE

\* Whatever the hashes of a stored block's transactions, whatever their types
\* above that of the coinbase, and whichever of them a peer has pooled, the
\* inventory that is served has the root that was mined, and so has the block
\* that the peer puts together: such a block is not refused for the order of its
\* transactions.  One with a payment of type GENESIS is: the payment leads.
RootSurvivesRelay ==
    \A b \in Stored \ {Genesis} : CoinbaseLeads(b) => SurvivesRelay[b]
==============================================================================
