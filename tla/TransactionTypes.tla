-------------------------- MODULE TransactionTypes --------------------------
(***************************************************************************)
(* The numbers of class TransactionType of models/enums.py.  A transaction *)
(* that is sent to a node has whatever type the sender has written into    *)
(* it: neither post_transactions nor validate_transaction looks at it.     *)
(***************************************************************************)
EXTENDS Integers

CONSTANT TxType   \* TxType[t]: the number of the TransactionType of t

COINBASE == 2
IsCoinbase(t) == TxType[t] = COINBASE
==============================================================================
