----------------------------- MODULE BlockStore -----------------------------
(***************************************************************************)
(* What add_block promises its callers, as one atomic step: a block enters *)
(* the table once, next to its stored predecessor, on the predecessor's    *)
(* branch if no rival is there and else on an unused branch, and never so  *)
(* that a branch other than 0 becomes the tallest.  A row never moves.     *)
(* Module Blockchain shows that the sequence of database transactions that *)
(* add_block really is implements this step or does nothing.               *)
(***************************************************************************)
EXTENDS BlockTable

\* A stored sibling of b sits on the branch of their predecessor.
Rivalled(b) == branchOf[Prev[b]] \in BranchesByPrevhash(Prev[b])

\* b goes on the branch of its predecessor ...
Continue(b, n) ==
    /\ n = branchOf[Prev[b]]
    /\ AboveMaxHeight(b) => n = 0

\* ... or starts a branch as an uncle.
StartBranch(b, n) ==
    /\ n \in Nat \ {0}
    /\ OnBranch(n) = {}
    /\ Rivalled(b)
    /\ ~AboveMaxHeight(b)

Add(b, n) ==
    /\ Prev[b] \in Stored
    /\ ~Clash(b, n)
    /\ Continue(b, n) \/ StartBranch(b, n)
    /\ branchOf' = [branchOf EXCEPT ![b] = n]

Init == EmptyOrSeeded

Next ==
    \E b \in Blocks \ {Genesis} :
        branchOf'[b] # branchOf[b] /\ Add(b, branchOf'[b])

Spec == Init /\ [][Next]_branchOf
==============================================================================
