------------------------------ MODULE StoreStep ------------------------------
(***************************************************************************)
(* A call of add_block as its callers see it: the atomic step of module    *)
(* BlockStore, or an exception that AddBlockRaises foresees.  Module       *)
(* Blockchain shows that a call is one or the other.                       *)
(***************************************************************************)
EXTENDS StorePromises

CONSTANTS
    BranchNumbers,   \* bound: the branch numbers there are
    OwnBlocks,       \* the blocks this node's miner can build, and Genesis
    NoPrev           \* "0", the default prev_hash of a transaction

\* The prev_hash of the first coinbase is "0", in the seed and in the miner.
ZeroPrev(b) == \E t \in TxOf[b] : TxPrev[t] = NoPrev

ASSUME StoreStepAssumption ==
    /\ BranchNumbers \subseteq Nat /\ 0 \in BranchNumbers
    /\ OwnBlocks \subseteq Blocks /\ Genesis \in OwnBlocks
    /\ ZeroPrev(Genesis)

\* find_duplicate_transactions: on whatever branch.
IsStored(t) == \E b \in Stored : t \in TxOf[b]

\* Calls that died may have left rows in table branches, so that numbers are
\* skipped; which numbers makes no difference.
LowestFree(n) == \A m \in BranchNumbers \ {0} : m < n => OnBranch(m) # {}

\* A slip: an uncle branch may become the tallest one.
AddOnAnyBranch(b, n) ==
    /\ Prev[b] \in Stored
    /\ n = branchOf[Prev[b]] \/ LowestFree(n)
    /\ ~Clash(b, n)
    /\ branchOf' = [branchOf EXCEPT ![b] = n]

AddOn(b, n) ==
    /\ Prev[b] \in Stored
    /\ n = branchOf[Prev[b]] \/ LowestFree(n)
    /\ Store!Add(b, n)

AddBlock(b) == \E n \in BranchNumbers : AddOn(b, n)

\* A block whose transactions were requested from a peer.  If what the peer
\* serves is garbled, get_transaction_by_hash has dropped the prev_hash of the
\* coinbase, which is then stored as "0", next to the others of the branch.
GarbledClash(b, n) ==
    ZeroPrev(b) \/ \E c \in OnBranch(n) : c \notin OwnBlocks \/ ZeroPrev(c)

AddFetched(b, garbled) ==
    \E n \in BranchNumbers : (garbled => ~GarbledClash(b, n)) /\ AddOn(b, n)

AddFetchedRaises(b, garbled) ==
    AddBlockRaises(b) \/ (garbled /\ GarbledClash(b, BranchByHash(Prev[b])))
==============================================================================
