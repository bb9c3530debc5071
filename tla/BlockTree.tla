------------------------------ MODULE BlockTree ------------------------------
(***************************************************************************)
(* The blocks and transactions that any node may ever produce.             *)
(*                                                                         *)
(* A block hash is computed from the whole header, so a block fixes its    *)
(* own predecessor, its height (callers of add_block pass the height of    *)
(* the stored predecessor plus one) and the transactions it carries.  The  *)
(* universe is therefore a constant tree rooted at Genesis, and a block    *)
(* stands for its hash.                                                    *)
(***************************************************************************)
EXTENDS Integers

CONSTANTS
    Blocks,    \* every block (hash) that may be offered to the node
    Genesis,   \* the first block of the chain
    NoBlock,   \* previous_hash of Genesis: the empty string, no row has it
    Prev,      \* Prev[b]: the block named by b's previous_hash
    Height,    \* Height[b]: the height passed to add_block with b
    TxOf,      \* TxOf[b]: the transactions of b, its coinbase included
    TxPrev     \* TxPrev[t]: the prev_hash a transaction carries

ASSUME BlockTreeAssumption ==
    /\ Genesis \in Blocks
    /\ NoBlock \notin Blocks
    /\ Prev \in [Blocks -> Blocks \cup {NoBlock}]
    /\ Height \in [Blocks -> Nat \ {0}]
    /\ Prev[Genesis] = NoBlock
    /\ Height[Genesis] = 1
    /\ \A b \in Blocks \ {Genesis} :
          /\ Prev[b] \in Blocks
          /\ Height[b] = Height[Prev[b]] + 1

\* Two transaction rows of one branch clash on PRIMARY KEY (hash, branch) or
\* on UNIQUE (prevHash, branch).
SpendClash(s, t) == s = t \/ TxPrev[s] = TxPrev[t]

\* Inserting the transactions of b next to those of c, on one branch, breaks
\* a constraint of the transactions table.
TxClash(b, c) == \E s \in TxOf[b], t \in TxOf[c] : SpendClash(s, t)

\* A block that spends one prev_hash twice cannot be inserted on any branch.
SelfClash(b) == \E s, t \in TxOf[b] : s # t /\ SpendClash(s, t)

\* The blocks met when previous_hash is followed from b down to Genesis.
Ancestors[b \in Blocks] ==
    IF b = Genesis THEN {} ELSE {Prev[b]} \cup Ancestors[Prev[b]]
==============================================================================
