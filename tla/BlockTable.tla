----------------------------- MODULE BlockTable -----------------------------
(***************************************************************************)
(* The tables blocks and transactions of init_blockchain.sql, and the      *)
(* queries that the node makes on them.  A row of blocks is a block with   *)
(* its branch; its transactions lie on the same branch.  The columns that  *)
(* are computed from the hash are in BlockTree.                            *)
(***************************************************************************)
EXTENDS BlockTree

VARIABLE branchOf   \* the branch column of the row of each block, or Absent

Absent == -1

Stored == {b \in Blocks : branchOf[b] # Absent}
OnBranch(n) == {b \in Blocks : branchOf[b] = n}

\* A fresh file, as db_init leaves it, or one seeded with the genesis block.
EmptyOrSeeded ==
    \E seeded \in {{}, {Genesis}} :
        branchOf = [b \in Blocks |-> IF b \in seeded THEN 0 ELSE Absent]

\* get_height: MAX(height) over all branches; b exceeds it.
AboveMaxHeight(b) == \A c \in Stored : Height[c] < Height[b]

\* A slip: the branch of an unknown hash is not 0.
BranchOfUnknown(b) == IF b \in Stored THEN branchOf[b] ELSE Absent

\* get_branch_by_hash: 0 when the hash is unknown.
BranchByHash(b) == IF b \in Stored THEN branchOf[b] ELSE 0

\* get_branches_by_prevhash: the branches of the stored children of b.
BranchesByPrevhash(b) == {branchOf[c] : c \in {d \in Stored : Prev[d] = b}}

\* get_tallest_block_header(branch=n): the subquery takes the greatest height
\* of branch n, the outer query any row of that height, of whatever branch.
TallestBlocks(n) ==
    {t \in Stored : \E c \in OnBranch(n) :
        /\ Height[c] = Height[t]
        /\ \A d \in OnBranch(n) : Height[d] <= Height[c]}

\* A slip: the tables without their UNIQUE constraints.
ClashOfHashes(b, n) ==
    b \in Stored \/ \E c \in OnBranch(n) : TxOf[b] \cap TxOf[c] # {}

\* INSERTing b and its transactions on branch n breaks a constraint of
\* init_blockchain.sql: PRIMARY KEY (hash), UNIQUE (prevHash, branch), or a
\* key of the transactions table.
Clash(b, n) ==
    \/ b \in Stored
    \/ \E c \in OnBranch(n) : Prev[c] = Prev[b] \/ TxClash(b, c)
    \/ SelfClash(b)

------------------------------------------------------------------------------
(* The shape of the branches *)

\* A branch number names one path: get_block_headers_range_iter and
\* get_hashes_range list a branch by height, so two blocks of one height on
\* one branch would put two rival blocks into the same inventory.
BranchIsPath ==
    \A b, c \in Stored :
        branchOf[b] = branchOf[c] /\ Height[b] = Height[c] => b = c

\* Balances and the height served to peers are read from branch 0, so no
\* order of calls may leave an uncle branch as the only one of maximal height.
PrimaryIsTallest ==
    Stored # {} =>
        \E t \in OnBranch(0) : \A b \in Stored : Height[b] <= Height[t]

\* The first block on top of another one stays on its branch and only a rival
\* opens a new one: every stored block has a stored predecessor, and that
\* predecessor has a child on its own branch.
FirstChildContinues ==
    \A b \in Stored \ {Genesis} :
        /\ Prev[b] \in Stored
        /\ branchOf[Prev[b]] \in BranchesByPrevhash(Prev[b])

(* What the shape rests on besides *)

\* A block off the branch of its predecessor is the lowest one of its branch.
RootIsLowest ==
    \A b \in Stored \ {Genesis} :
        \/ branchOf[b] = branchOf[Prev[b]]
        \/ \A c \in OnBranch(branchOf[b]) \ {b} : Height[b] < Height[c]

\* Between two blocks of a branch there is one for every height.
NoGap ==
    \A a, c \in Stored : branchOf[a] = branchOf[c] =>
        \A h \in Height[a] .. Height[c] :
            \E d \in OnBranch(branchOf[a]) : Height[d] = h

\* Genesis starts branch 0.
GenesisIsPrimary == Stored # {} => branchOf[Genesis] = 0

\* All of it, as it is kept by every row that is added.
StoreShape ==
    /\ BranchIsPath
    /\ PrimaryIsTallest
    /\ FirstChildContinues
    /\ RootIsLowest
    /\ NoGap
    /\ GenesisIsPrimary

(* What the constraints see to *)

\* docs/crankycoin.tex: "The node relies on the database's contraints to
\* prevent a potential double-spend."  They are per branch, and each statement
\* checks one block: two blocks of one branch never spend one prev_hash.
BranchSpendsOnce ==
    \A b, c \in Stored : branchOf[b] = branchOf[c] /\ b # c => ~TxClash(b, c)

\* Along the main branch, the one that balances are computed from, they do what
\* the document says: no block spends what one of its ancestors has spent.
MainBranchSpendsOnce ==
    \A b \in OnBranch(0) : \A c \in Ancestors[b] : ~TxClash(b, c)
==============================================================================
