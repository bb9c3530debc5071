---------------------------- MODULE StorePromises ----------------------------
(***************************************************************************)
(* What the table of blocks promises those who read it, as refinements,    *)
(* and what its writers must be prepared for.                              *)
(***************************************************************************)
EXTENDS BlockTable

\* Every write is the atomic step of module BlockStore, in spite of what its
\* author has read too early: all database transactions of a call of add_block
\* together, whichever process makes it.
Store == INSTANCE BlockStore
StoreSpec == Store!Spec

\* Branch 0 behaves as the append-only chain of module PrimaryChain, whatever
\* the processes race on: no branch is ever swapped for it, although that is
\* what restructure_primary_branch is there for.
Primary == INSTANCE PrimaryChain WITH primary <- OnBranch(0)
PrimaryChainSpec == Primary!Spec

\* When add_block may raise: on an empty store, where a height is compared with
\* None; on a branch that is to be swapped for branch 0; next to rows that a
\* constraint protects.  What made the call take the last step may be history:
\* the height and the competing branches are read in transactions of their own,
\* so b need not be the tallest block any more, and a rival may have come since.
AddBlockRaises(b) ==
    Prev[b] \in Stored => branchOf[Prev[b]] # 0 \/ Clash(b, branchOf[Prev[b]])
==============================================================================
