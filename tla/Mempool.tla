------------------------------ MODULE Mempool ------------------------------
(***************************************************************************)
(* The table unconfirmed_transactions (class Mempool of                    *)
(* crankycoin/repository/mempool.py), next to the tables of the chain.     *)
(* Every operation is one SQLite transaction of its own.                   *)
(***************************************************************************)
EXTENDS BlockTable, FiniteSets, Functions

CONSTANTS
    Payments,    \* the transactions that anybody may send, of whatever type
    Fee,         \* Fee[t]: the fee of transaction t, whatever sign it has
    ChunkSize    \* max_transactions_per_block

ASSUME MempoolAssumption ==
    /\ \A t \in Payments : Fee[t] \in Int
    /\ ChunkSize \in Nat \ {0}

VARIABLE pool    \* the rows of unconfirmed_transactions

\* What a block has of them
PaymentsOf(b) == TxOf[b] \cap Payments

\* push_unconfirmed_transaction: the hash is the primary key.
PushRejected(t) == t \in pool
Push(t) == pool' = pool \cup {t}

\* remove_unconfirmed_transactions: hashes without a row are no error.
Remove(S) == pool' = pool \ S

\* A slip: one row less than the block has room for.
ShortChunks == {S \in SUBSET pool : Cardinality(S) = ChunkSize - 1}

\* get_unconfirmed_transactions_chunk: the best paying rows; which of several
\* rows of one fee come first is up to SQLite.
Chunks ==
    {S \in SUBSET pool :
        /\ \/ S = pool /\ Cardinality(S) <= ChunkSize
           \/ Cardinality(S) = ChunkSize
        /\ \A s \in S, t \in pool \ S : Fee[s] >= Fee[t]}
==============================================================================
