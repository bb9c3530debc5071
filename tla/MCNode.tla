------------------------------- MODULE MCNode -------------------------------
(***************************************************************************)
(* Instances of Node for TLC.  Blocks are numbered: 0 is Genesis and the   *)
(* k-th kind of child of block b is K * b + k, K being the number of kinds.*)
(* A kind says who mined the block, which payments it carries and what its *)
(* coinbase pays above what is due.                                        *)
(***************************************************************************)
EXTENDS Node, Sequences

CONSTANTS
    t1, t2, t3, t4,   \* model values: the payments
    Kinds,            \* the kinds of blocks, a sequence
    MaxHeight,        \* bound on the height of blocks
    Again,            \* whether a block may repeat a payment of an ancestor
    OnPeers           \* the kinds that come on top of blocks of peers only

Kind(who, S, more) == [by |-> who, pays |-> S, extra |-> more]
Mine(S) == Kind("me", S, 0)
Theirs(S) == Kind("peer", S, 0)

\* The miner alone, with one payment to a block.
OwnKinds == <<Mine({}), Mine({t1}), Mine({t2})>>
AllOwnKinds == OwnKinds \o <<Mine({t3}), Mine({t4})>>

\* Peers mine a payment of the pool and a block whose coinbase pays too much; and on
\* top of their blocks, which may be uncles, nothing, a payment without a good
\* signature, or one that says it is a coinbase besides.
MixedKinds ==
    <<Mine({}), Mine({t1}), Theirs({t1}), Theirs({t3}), Theirs({t4}),
      Kind("peer", {}, 1), Theirs({})>>

\* Miner and peers mine the same payment, or none.
RivalKinds == <<Mine({}), Mine({t1}), Theirs({}), Theirs({t1})>>

K == Len(Kinds)
KindOf(b) == IF b = 0 THEN Mine({}) ELSE Kinds[((b - 1) % K) + 1]
Path[b \in Nat] == IF b = 0 THEN <<>> ELSE Append(Path[(b - 1) \div K], KindOf(b))
FirstOf[h \in Nat] == IF h <= 1 THEN 0 ELSE K * FirstOf[h - 1] + 1

Grown ==
    {b \in 0 .. FirstOf[MaxHeight + 1] - 1 :
        LET s == Path[b]
        IN  \A i \in DOMAIN s :
              /\ s[i] \in OnPeers => i > 1 /\ s[i - 1].by = "peer"
              /\ Again \/ s[i].pays # {} \/ i + 1 <= MaxEmpty
              /\ Again \/ \A j \in 1 .. i - 1 : s[j].pays \cap s[i].pays = {}}
MCBlocks == {b : b \in Grown}
MCPrev == [b \in MCBlocks |-> IF b = 0 THEN NoBlock ELSE (b - 1) \div K]
MCHeight == [b \in MCBlocks |-> Len(Path[b]) + 1]
MCOwn == {b \in MCBlocks : KindOf(b).by = "me"}
AfterPeers == {Theirs({}), Theirs({t3}), Theirs({t4})}

Coinbase(b) == <<"coinbase", b>>
Pay(t) == <<"pay", t>>
MCPayments == {Pay(t) : t \in UNION {Kinds[k].pays : k \in DOMAIN Kinds}}
MCSigned == MCPayments \ {Pay(t3), Pay(t4)}
AllSigned == MCPayments
MCTx == {Coinbase(b) : b \in MCBlocks} \cup MCPayments

MCTxOf == [b \in MCBlocks |-> {Coinbase(b)} \cup {Pay(t) : t \in KindOf(b).pays}]
MCNoPrev == <<"none", NoBlock>>
MCTxPrev == [x \in MCTx |->
    IF x \in MCPayments THEN <<"before", x[2]>>
    ELSE IF x[2] = 0 THEN MCNoPrev ELSE Coinbase(MCPrev[x[2]])]

\* t2 follows t1 and so does t4, the author of t3 has not set its prev_hash.
JamTxPrev == [x \in MCTx |->
    CASE x \in {Pay(t2), Pay(t4)} -> Pay(t1)
      [] x = Pay(t3) -> MCNoPrev
      [] OTHER -> MCTxPrev[x]]

\* STANDARD, but for the odd one of a peer
MCTxType == [x \in MCTx |-> IF x \in MCPayments THEN 3 ELSE COINBASE]
OddTxType == [MCTxType EXCEPT ![Pay(t4)] = COINBASE]

\* t2 is in an asset of its own.
MCInCoin == MCTx \ {Pay(t2)}

\* The first coinbase pays 5 to the founder, who can afford each payment and not two.
MCReward == [h \in 1 .. MaxHeight |-> 5]
MCFee == [x \in MCTx |-> IF x \in {Pay(t1), Pay(t2)} THEN 1 ELSE 0]
\* t4 is free, too.
JamFee == [x \in MCTx |-> IF x = Pay(t1) THEN 2 ELSE IF x = Pay(t2) THEN 1 ELSE 0]
MCAmount == [x \in MCTx |->
    IF x \in MCPayments THEN 3
    ELSE LET k == KindOf(x[2])
         IN 5 + SumFunctionOnSet(Fee, {Pay(t) : t \in k.pays}) + k.extra]
MCSource == [x \in MCTx |-> IF x \in MCPayments THEN "founder" ELSE "0"]
\* t2 and t4 are paid to the one who pays them.
MCDest == [x \in MCTx |->
    IF x \in MCPayments THEN (IF x \in {Pay(t2), Pay(t4)} THEN "founder" ELSE "you")
    ELSE IF x[2] = 0 THEN "founder" ELSE KindOf(x[2]).by]
==============================================================================
