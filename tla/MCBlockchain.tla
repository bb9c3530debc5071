---------------------------- MODULE MCBlockchain ----------------------------
(***************************************************************************)
(* Instances of Blockchain for TLC.                                        *)
(*                                                                         *)
(*        g --- a1 --- a2                                                  *)
(*         \--- b1 --- b2 --- b3     c1 a third block of height 2          *)
(*          \-- c1                                                         *)
(***************************************************************************)
EXTENDS Blockchain, Merkle, TLC

CONSTANTS g, a1, a2, b1, b2, b3, c1     \* model values, the blocks

MCPrev == [b \in Blocks |->
    CASE b = g -> NoBlock
      [] b \in {a1, b1, c1} -> g
      [] b = a2 -> a1
      [] b = b2 -> b1
      [] b = b3 -> b2]

MCHeight == [b \in Blocks |->
    CASE b = g -> 1
      [] b \in {a1, b1, c1} -> 2
      [] b \in {a2, b2} -> 3
      [] b = b3 -> 4]

\* A transaction is a pair <<label, block>>.  Every block carries its coinbase,
\* which spends the coinbase of its predecessor; a1 and b1 share a payment, and
\* c1 spends a prev_hash that g has already spent.
Coinbase(b) == <<"coinbase", b>>
SharedPay == <<"pay", a1>>
FirstPay == <<"pay", g>>
SecondPay == <<"pay", c1>>
\* Four more payments of several types, for an odd number of transactions.
Others == {"p", "q", "r", "s"} \X {b3}
MCTx == {Coinbase(b) : b \in Blocks} \cup {SharedPay, FirstPay, SecondPay} \cup Others

MCTxOf == [b \in Blocks |->
    {Coinbase(b)} \cup
    CASE b \in {a1, b1} -> {SharedPay}
      [] b = g -> {FirstPay}
      [] b = c1 -> {SecondPay}
      [] b = b3 -> Others
      [] OTHER -> {}]

MCTxPrev == [t \in MCTx |->
    CASE t[1] = "coinbase" -> Coinbase(Prev[t[2]])
      [] t \in {FirstPay, SecondPay} -> <<"deposit", NoBlock>>
      [] t = SharedPay -> FirstPay
      [] t \in Others -> <<t[1], NoBlock>>]

\* The hash of a coinbase lies between those of payments.
MCTxHash == [t \in MCTx |->
    CASE t[1] = "p" -> 5 [] t[1] = "q" -> 1 [] t[1] = "r" -> 4 [] t[1] = "s" -> 2
      [] t[1] = "coinbase" -> 3
      [] OTHER -> 0]

\* STANDARD, ASSET_CREATION or REGISTRATION; the payment in c1 says GENESIS.
MCTxType == [t \in MCTx |->
    CASE t[1] = "coinbase" -> COINBASE [] t[1] = "q" -> 9 [] t[1] = "r" -> 4
      [] t = SecondPay -> 1
      [] OTHER -> 3]

Symmetry == Permutations(Procs)
==============================================================================
