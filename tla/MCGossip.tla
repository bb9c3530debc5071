------------------------------ MODULE MCGossip ------------------------------
(***************************************************************************)
(* Instances of Gossip for TLC.                                            *)
(***************************************************************************)
EXTENDS Gossip, TLC

CONSTANTS n1, n2, n3, v1, v2, v3, w3, b1, b2

\* Two nodes of one worker, which both mine.
PairNodeOf == v1 :> n1 @@ v2 :> n2
PairPeersOf == n1 :> {n2} @@ n2 :> {n1}
PairMinedBy == b1 :> n1 @@ b2 :> n2

\* A node of two workers that two peers tell of one block.
TriangleNodeOf == v1 :> n1 @@ v2 :> n2 @@ v3 :> n3 @@ w3 :> n3
TrianglePeersOf == n1 :> {n2, n3} @@ n2 :> {n1, n3} @@ n3 :> {n1, n2}
TriangleMinedBy == b1 :> n1
WorkersOfN3 == Permutations({v3, w3})
=============================================================================
