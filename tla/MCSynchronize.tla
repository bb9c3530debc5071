--------------------------- MODULE MCSynchronize ---------------------------
(***************************************************************************)
(* Instances of Synchronize for TLC.  Block h, a positive number, is the   *)
(* peer's of height h; block -h is a rival of height h.  The rivals are a  *)
(* chain that leaves the peer's at height Fork; the node's own miner can   *)
(* build the first of them.                                                *)
(***************************************************************************)
EXTENDS Synchronize, TLC

CONSTANTS
    Fork,         \* the height of the last common block
    RivalHeight   \* the height of the last rival

Rivals == {-h : h \in Fork + 1 .. RivalHeight}
MCBlocks == PeerHeights \cup Rivals
MCPrev == [b \in MCBlocks |->
    IF b > 0 \/ b = -(Fork + 1) THEN (IF b > 0 THEN b - 1 ELSE Fork) ELSE b + 1]
MCHeight == [b \in MCBlocks |-> IF b > 0 THEN b ELSE -b]
MCPeerBlock == [h \in PeerHeights |-> h]

Coinbase(b) == <<"coinbase", b>>
Pay == <<"pay", 0>>

\* The first rival carries a payment that the peer's chain carries a block
\* later.
MCTxOf == [b \in MCBlocks |->
    {Coinbase(b)} \cup (IF b \in {-(Fork + 1), Fork + 2} THEN {Pay} ELSE {})]
MCTxPrev == [x \in UNION {MCTxOf[b] : b \in MCBlocks} |->
    IF x = Pay THEN Pay ELSE Coinbase(MCPrev[x[2]])]
MCNoPrev == Coinbase(0)
MCOwnBlocks == {1, -(Fork + 1)}
=============================================================================
