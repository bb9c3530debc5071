---------------------------- MODULE PrimaryChain ----------------------------
(***************************************************************************)
(* What the block store promises about branch 0, the branch every reader   *)
(* of the node (balances, heights, the miner, the inventory served to      *)
(* peers) takes for "the" chain.  The set primary only grows, and only by  *)
(* a block that sits directly on top of the current highest block: branch  *)
(* 0 is one path from Genesis and no block of it is ever displaced.        *)
(***************************************************************************)
EXTENDS BlockTree

VARIABLE primary      \* the blocks of branch 0

Init == primary \in {{}, {Genesis}}

\* b becomes the new tip.
Extend(b) ==
    /\ Prev[b] \in primary
    /\ \A c \in primary : Height[c] < Height[b]
    /\ primary' = primary \cup {b}

Next == \E b \in Blocks \ {Genesis} : Extend(b)

Spec == Init /\ [][Next]_primary
==============================================================================
