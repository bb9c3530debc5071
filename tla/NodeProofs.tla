----------------------------- MODULE NodeProofs -----------------------------
(***************************************************************************)
(* Theorems of Node, for every set of workers, payments and blocks, every  *)
(* chunk size and every combination of defects.                            *)
(***************************************************************************)
EXTENDS Node, StoreProofs

LEMMA InitIInv == Init => IInv
<1> SUFFICES ASSUME Init PROVE IInv
  OBVIOUS
<1> USE DEF Init
<1>1. branchOf \in [Blocks -> BranchNumbers \cup {Absent}] /\ Stored \subseteq {Genesis}
  BY StoreStepAssumption, BlockTreeAssumption DEF EmptyOrSeeded, Stored, Absent
<1>2. TypeOK
  BY <1>1 DEF TypeOK
<1>3. StoredIsSigned
  BY <1>1, LedgerAssumption, BlockTreeAssumption DEF StoredIsSigned, PaymentsOf
<1>4. StoredIsPaid
  BY <1>1 DEF StoredIsPaid
<1> QED
  BY <1>2, <1>3, <1>4 DEF IInv, MinerOK, HandlerOK

\* What the steps of the miner keep of the handlers, and the other way round.
LEMMA HandlersUntouched ==
    ASSUME IInv, UNCHANGED locals
    PROVE  \A p \in Handlers : HandlerOK(p)'
BY DEF IInv, HandlerOK, locals

LEMMA MinerUntouched ==
    ASSUME IInv, UNCHANGED <<branchOf, miner>>
    PROVE  MinerOK'
BY DEF IInv, MinerOK, miner, Stored, IsPaid, PaysOut, RewardDue

LEMMA StoreUntouched ==
    ASSUME IInv, UNCHANGED branchOf
    PROVE  StoredIsSigned' /\ StoredIsPaid'
BY DEF IInv, StoredIsSigned, StoredIsPaid, Stored, IsPaid, PaysOut, RewardDue

\* One more block in the store, with verified payments and a fair reward.
LEMMA AddGrowsStore ==
    ASSUME IInv, NEW b \in Blocks, IsPaid(b), AddBlock(b)
    PROVE  /\ branchOf' \in [Blocks -> BranchNumbers \cup {Absent}]
           /\ Stored' = Stored \cup {b}
           /\ StoredIsSigned' /\ StoredIsPaid'
<1>1. PICK n \in BranchNumbers : branchOf' = [branchOf EXCEPT ![b] = n]
  BY DEF AddBlock, AddOn, Store!Add
<1>2. n # Absent
  BY StoreStepAssumption DEF Absent
<1>3. branchOf' \in [Blocks -> BranchNumbers \cup {Absent}]
  BY <1>1 DEF IInv, TypeOK
<1>4. Stored' = Stored \cup {b}
  BY <1>1, <1>2 DEF IInv, TypeOK, Stored
<1>5. StoredIsPaid'
  BY <1>4 DEF IInv, StoredIsPaid, IsPaid, PaysOut, RewardDue
<1>6. StoredIsSigned'
  BY <1>4 DEF IInv, StoredIsSigned, IsPaid, PaymentsOf
<1> QED
  BY <1>3, <1>4, <1>5, <1>6

\* A block in the hands of the miner stays stored.
LEMMA MinerAfterAdd ==
    ASSUME IInv, UNCHANGED miner, Stored \subseteq Stored'
    PROVE  MinerOK'
BY DEF IInv, MinerOK, miner, IsPaid, PaysOut, RewardDue

------------------------------------------------------------------------------
(* The miner *)

LEMMA MinerKeepsIInv ==
    ASSUME IInv, MinerStep \/ StopMiner \/ StartMiner
    PROVE  IInv'
<1> USE DEF MinerGoto, MinerDies
<1>1. CASE ReadTip
  <2>1. tip' \in Blocks \cup {NoBlock}
    BY <1>1 DEF ReadTip, TallestBlocks, Stored
  <2>2. TypeOK'
    BY <1>1, <2>1 DEF ReadTip, IInv, TypeOK, locals
  <2>3. MinerOK'
    BY <1>1 DEF ReadTip, MinerOK
  <2> QED
    BY <1>1, <2>2, <2>3, HandlersUntouched, StoreUntouched DEF ReadTip, IInv
<1>2. CASE BuildBlock
  <2>1. own' \in OwnBlocks /\ IsPaid(own')
    <3>1. PICK S \in Chunks : own' \in OwnBlocks /\ IsBuiltOf(own', S)
      BY <1>2 DEF BuildBlock
    <3>2. S \subseteq Signed
      BY DEF Chunks, IInv
    <3> QED
      BY <3>1, <3>2 DEF IsBuiltOf, IsPaid
  <2>2. TypeOK'
    BY <1>2, <2>1 DEF BuildBlock, IInv, TypeOK, locals
  <2>3. MinerOK'
    BY <1>2, <2>1 DEF BuildBlock, MinerOK, IsPaid, PaysOut, RewardDue
  <2> QED
    BY <1>2, <2>2, <2>3, HandlersUntouched, StoreUntouched DEF BuildBlock, IInv
<1>3. CASE BuildRaises \/ DifficultyRaises \/ MinerAddRaises \/ StopMiner
  <2> USE DEF BuildRaises, DifficultyRaises, MinerAddRaises, StopMiner
  <2>1. TypeOK'
    BY <1>3 DEF IInv, TypeOK, locals
  <2>2. MinerOK'
    BY <1>3 DEF MinerOK
  <2> QED
    BY <1>3, <2>1, <2>2, HandlersUntouched, StoreUntouched DEF IInv
<1>4. CASE FindNonce \/ GiveUp \/ StartMiner
  <2> USE DEF FindNonce, GiveUp, StartMiner
  <2>1. TypeOK'
    BY <1>4 DEF IInv, TypeOK, locals
  <2>2. MinerOK'
    BY <1>4 DEF MinerOK, IInv, IsPaid, PaysOut, RewardDue
  <2> QED
    BY <1>4, <2>1, <2>2, HandlersUntouched, StoreUntouched DEF IInv
<1>5. CASE MinerAdds
  <2>1. own \in OwnBlocks /\ own \in Blocks /\ IsPaid(own)
    BY <1>5, StoreStepAssumption DEF MinerAdds, MinerOK, IInv
  <2>2. /\ branchOf' \in [Blocks -> BranchNumbers \cup {Absent}]
        /\ own \in Stored'
        /\ StoredIsSigned' /\ StoredIsPaid'
    BY <1>5, <2>1, AddGrowsStore DEF MinerAdds
  <2>3. TypeOK'
    BY <1>5, <2>2 DEF MinerAdds, IInv, TypeOK, locals
  <2>4. MinerOK'
    BY <1>5, <2>1, <2>2 DEF MinerAdds, MinerOK, IsPaid, PaysOut, RewardDue
  <2> QED
    BY <1>5, <2>2, <2>3, <2>4, HandlersUntouched DEF MinerAdds, IInv
<1>6. CASE RemoveMined
  <2>1. pool' \subseteq pool
    BY <1>6 DEF RemoveMined, Remove
  <2>2. TypeOK'
    BY <1>6, <2>1 DEF RemoveMined, IInv, TypeOK, locals
  <2>3. MinerOK'
    BY <1>6 DEF RemoveMined, MinerOK
  <2> QED
    BY <1>6, <2>1, <2>2, <2>3, HandlersUntouched, StoreUntouched
       DEF RemoveMined, IInv
<1> QED
  BY <1>1, <1>2, <1>3, <1>4, <1>5, <1>6 DEF MinerStep

------------------------------------------------------------------------------
(* The handlers *)

\* Steps that end the job of p, or kill it, and leave the store alone.
LEMMA FinishKeepsIInv ==
    ASSUME IInv, NEW p \in Handlers, NEW step \in {"idle", "dead"},
           Finish(p, step), UNCHANGED <<branchOf, pool, miner>>
    PROVE  IInv'
<1> USE DEF Finish, Goto
<1>1. TypeOK'
  BY DEF IInv, TypeOK, miner
<1>2. ASSUME NEW q \in Handlers PROVE HandlerOK(q)'
  BY <1>2 DEF IInv, TypeOK, HandlerOK
<1> QED
  BY <1>1, <1>2, MinerUntouched, StoreUntouched DEF IInv

LEMMA RaiseKeepsIInv ==
    ASSUME IInv, NEW p \in Handlers, Raise(p),
           UNCHANGED <<branchOf, pool, miner>>
    PROVE  IInv'
BY FinishKeepsIInv DEF Raise


\* Steps of p that leave the store, the miner and the other handlers alone.
OthersUntouched(p) ==
    \A q \in Handlers \ {p} :
        /\ pc'[q] = pc[q] /\ blk'[q] = blk[q] /\ todo'[q] = todo[q]
        /\ cur'[q] = cur[q] /\ missing'[q] = missing[q]

LEMMA LocalStep ==
    ASSUME IInv, NEW p \in Handlers, UNCHANGED <<branchOf, miner>>,
           TypeOK', pool' \subseteq Signed, OthersUntouched(p), HandlerOK(p)'
    PROVE  IInv'
<1>1. ASSUME NEW q \in Handlers \ {p} PROVE HandlerOK(q)'
  BY <1>1 DEF IInv, OthersUntouched, HandlerOK
<1> QED
  BY <1>1, MinerUntouched, StoreUntouched DEF IInv

LEMMA ReceiveKeepsIInv ==
    ASSUME IInv, NEW p \in Workers, Receive(p)
    PROVE  IInv'
<1>1. p \in Handlers
  BY DEF Handlers
<1>2. TypeOK /\ HandlerOK(p) /\ pool \subseteq Signed
  BY <1>1 DEF IInv
<1> USE <1>1, <1>2 DEF Goto
<1>3. ASSUME NEW b \in Blocks, ReceiveHeader(p, b)
      PROVE  IInv'
  <2> USE <1>3 DEF ReceiveHeader
  <2>1. TxOf[b] \in SUBSET Transactions
    BY NodeAssumption
  <2>2. TypeOK'
    BY <2>1 DEF TypeOK, miner
  <2>3. OthersUntouched(p)
    BY DEF TypeOK, OthersUntouched
  <2>4. HandlerOK(p)'
    BY <2>1 DEF TypeOK, HandlerOK
  <2> QED
    BY <2>2, <2>3, <2>4, LocalStep
<1>4. ASSUME NEW S \in SUBSET Payments, ReceiveInventory(p, S)
      PROVE  IInv'
  <2> USE <1>4 DEF ReceiveInventory
  <2>1. TypeOK'
    BY NodeAssumption DEF TypeOK, miner
  <2>2. OthersUntouched(p)
    BY DEF TypeOK, OthersUntouched
  <2>3. HandlerOK(p)'
    BY DEF TypeOK, HandlerOK
  <2> QED
    BY <2>1, <2>2, <2>3, LocalStep
<1> QED
  BY <1>3, <1>4, RaiseKeepsIInv DEF Receive, HeaderRaises, TransactionRaises

LEMMA PostKeepsIInv ==
    ASSUME IInv, NEW t \in Payments, PostTransaction(t)
    PROVE  IInv'
<1>1. Server \in Handlers /\ t \in Transactions
  BY NodeAssumption DEF Handlers
<1>2. TypeOK /\ HandlerOK(Server) /\ pool \subseteq Signed
  BY <1>1 DEF IInv
<1> USE <1>1, <1>2 DEF Goto, PostTransaction
<1>3. TypeOK'
  BY DEF TypeOK, miner
<1>4. OthersUntouched(Server)
  BY DEF TypeOK, OthersUntouched
<1>5. HandlerOK(Server)'
  BY DEF TypeOK, HandlerOK
<1> QED
  BY <1>3, <1>4, <1>5, LocalStep

\* The first loop: what is found in the pool has been verified, the rest goes
\* to missing.
LEMMA AskingKeepsIInv ==
    ASSUME IInv, NEW p \in Handlers,
           AskChain(p) \/ SkipConfirmed(p) \/ AskPool(p) \/ AllAsked(p)
    PROVE  IInv'
<1>1. TypeOK /\ HandlerOK(p) /\ pool \subseteq Signed
  BY DEF IInv
<1> USE <1>1 DEF Goto
<1>2. CASE AskChain(p)
  <2> USE <1>2 DEF AskChain
  <2>1. TypeOK'
    BY DEF TypeOK, miner
  <2>2. OthersUntouched(p)
    BY DEF TypeOK, OthersUntouched
  <2>3. HandlerOK(p)'
    BY DEF TypeOK, HandlerOK
  <2> QED
    BY <2>1, <2>2, <2>3, LocalStep
<1>3. CASE SkipConfirmed(p)
  <2> USE <1>3 DEF SkipConfirmed
  <2>1. TypeOK'
    BY DEF TypeOK, miner
  <2>2. OthersUntouched(p)
    BY DEF TypeOK, OthersUntouched
  <2>3. HandlerOK(p)'
    BY DEF TypeOK, HandlerOK, IsBlockJob
  <2> QED
    BY <2>1, <2>2, <2>3, LocalStep
<1>4. CASE AskPool(p)
  <2> USE <1>4 DEF AskPool
  <2>1. TypeOK'
    <3>1. flag' \in [Handlers -> BOOLEAN]
      BY Zenon DEF TypeOK
    <3>2. missing' \in [Handlers -> SUBSET Transactions]
      BY DEF TypeOK, HandlerOK
    <3> QED
      BY <3>1, <3>2 DEF TypeOK, miner
  <2>2. OthersUntouched(p)
    BY DEF TypeOK, OthersUntouched
  <2>3. HandlerOK(p)'
    BY DEF TypeOK, HandlerOK
  <2> QED
    BY <2>1, <2>2, <2>3, LocalStep
<1>5. CASE AllAsked(p)
  <2> USE <1>5 DEF AllAsked
  <2>1. TypeOK'
    BY DEF TypeOK, miner
  <2>2. OthersUntouched(p)
    BY DEF TypeOK, OthersUntouched
  <2>3. HandlerOK(p)'
    BY DEF TypeOK, HandlerOK
  <2> QED
    BY <2>1, <2>2, <2>3, LocalStep
<1> QED
  BY <1>2, <1>3, <1>4, <1>5
\* A payment that does not pass is dropped, and with it the block that needs
\* it.
LEMMA InvalidKeepsIInv ==
    ASSUME IInv, NEW p \in Handlers, NEW M \in SUBSET missing[p],
           Invalid(p, M), pc[p] \in {"fetch", "funds"},
           UNCHANGED <<branchOf, pool, miner>>
    PROVE  IInv'
<1>1. TypeOK /\ HandlerOK(p) /\ pool \subseteq Signed
  BY DEF IInv
<1>2. CASE IsBlockJob(p)
  BY <1>2, FinishKeepsIInv DEF Invalid
<1>3. CASE ~IsBlockJob(p)
  <2> USE <1>1, <1>3 DEF Goto, Invalid, IsBlockJob
  <2>1. TypeOK'
    BY DEF TypeOK, miner
  <2>2. OthersUntouched(p)
    BY DEF TypeOK, OthersUntouched
  <2>3. HandlerOK(p)'
    BY DEF TypeOK, HandlerOK
  <2> QED
    BY <2>1, <2>2, <2>3, LocalStep
<1> QED
  BY <1>2, <1>3

\* The second loop: only what verifies gets to "funds" and "push".
LEMMA FetchingKeepsIInv ==
    ASSUME IInv, NEW p \in Handlers,
           \/ FetchCoinbase(p) \/ Fetch(p) \/ FetchInvalid(p)
           \/ CheckFunds(p) \/ InsufficientFunds(p) \/ PushTransaction(p)
    PROVE  IInv'
<1>1. TypeOK /\ HandlerOK(p) /\ pool \subseteq Signed
  BY DEF IInv
<1> USE <1>1 DEF Goto
<1>2. CASE FetchCoinbase(p)
  <2> USE <1>2 DEF FetchCoinbase
  <2>1. TypeOK'
    BY DEF TypeOK, miner
  <2>2. OthersUntouched(p)
    BY DEF TypeOK, OthersUntouched
  <2>3. HandlerOK(p)'
    BY DEF TypeOK, HandlerOK, Coinbases, TakenAsCoinbase
  <2> QED
    BY <2>1, <2>2, <2>3, LocalStep
<1>3. CASE Fetch(p)
  <2> USE <1>3 DEF Fetch
  <2>1. TypeOK'
    BY DEF TypeOK, miner
  <2>2. OthersUntouched(p)
    BY DEF TypeOK, OthersUntouched
  <2>3. HandlerOK(p)'
    BY DEF TypeOK, HandlerOK, Verifies, TakenAsCoinbase, IsBlockJob, Coinbases
  <2> QED
    BY <2>1, <2>2, <2>3, LocalStep
<1>4. CASE FetchInvalid(p) \/ InsufficientFunds(p)
  BY <1>4, InvalidKeepsIInv DEF FetchInvalid, InsufficientFunds
<1>5. CASE CheckFunds(p)
  <2> USE <1>5 DEF CheckFunds
  <2>1. TypeOK'
    BY DEF TypeOK, miner
  <2>2. OthersUntouched(p)
    BY DEF TypeOK, OthersUntouched
  <2>3. HandlerOK(p)'
    BY DEF TypeOK, HandlerOK
  <2> QED
    BY <2>1, <2>2, <2>3, LocalStep
<1>6. CASE PushTransaction(p)
  <2> USE <1>6 DEF PushTransaction, Push
  <2>1. cur[p] \in Signed /\ cur[p] \in Payments
    BY NodeAssumption DEF HandlerOK
  <2>2. TypeOK'
    BY <2>1 DEF TypeOK, miner
  <2>3. OthersUntouched(p)
    BY DEF TypeOK, OthersUntouched
  <2>4. HandlerOK(p)'
    BY DEF TypeOK, HandlerOK
  <2> QED
    BY <2>1, <2>2, <2>3, <2>4, LocalStep
<1> QED
  BY <1>2, <1>3, <1>4, <1>5, <1>6

\* A block that goes to add_block has no payment left to look up or to fetch.
LEMMA ReadyIsPaid ==
    ASSUME IInv, NEW p \in Handlers, WorkerAdds(p)
    PROVE  blk[p] \in Blocks /\ IsPaid(blk[p]) /\ AddBlock(blk[p])
<1> DEFINE b == blk[p]
<1>1. TypeOK /\ HandlerOK(p)
  BY DEF IInv
<1>2. b \in Blocks /\ AddBlock(b)
  BY <1>1 DEF WorkerAdds, IsBlockJob, TypeOK, AddFetched, AddBlock
<1>3. PICK c \in Coinbases(b) : Coinbases(b) = {c} /\ PaysOut(b, c)
  BY DEF WorkerAdds, ValidateBlock, CheckBlockReward
<1>4. c \in TxOf[b] /\ c \notin Payments
  BY <1>3, LedgerAssumption DEF Coinbases, PaysOut
<1>5. TxOf[b] \ {c} \subseteq Signed
  BY <1>1, <1>3 DEF WorkerAdds, IsBlockJob, HandlerOK
<1> QED
  BY <1>2, <1>3, <1>4, <1>5 DEF IsPaid

LEMMA WorkerAddsKeepsIInv ==
    ASSUME IInv, NEW p \in Handlers, WorkerAdds(p)
    PROVE  IInv'
<1>1. TypeOK /\ HandlerOK(p) /\ pool \subseteq Signed
  BY DEF IInv
<1>2. blk[p] \in Blocks /\ IsPaid(blk[p]) /\ AddBlock(blk[p])
  BY ReadyIsPaid
<1>3. /\ branchOf' \in [Blocks -> BranchNumbers \cup {Absent}]
      /\ Stored \subseteq Stored'
      /\ StoredIsSigned' /\ StoredIsPaid'
  BY <1>2, AddGrowsStore DEF WorkerAdds
<1>4. MinerOK'
  BY <1>3, MinerAfterAdd DEF WorkerAdds
<1> USE <1>1 DEF WorkerAdds, Finish, Goto
<1>5. TypeOK'
  BY <1>3 DEF TypeOK, miner
<1>6. ASSUME NEW q \in Handlers PROVE HandlerOK(q)'
  BY <1>6 DEF IInv, TypeOK, HandlerOK
<1> QED
  BY <1>3, <1>4, <1>5, <1>6 DEF IInv

LEMMA HandleKeepsIInv ==
    ASSUME IInv, NEW p \in Handlers,
           Handle(p) \/ StopHandler(p) \/ StartHandler(p)
    PROVE  IInv'
<1>1. CASE \/ AskChainRaises(p) \/ VerifyRaises(p) \/ SenderGone(p)
           \/ PushRaises(p) \/ WorkerAddRaises(p)
  BY <1>1, RaiseKeepsIInv
     DEF AskChainRaises, VerifyRaises, SenderGone, PushRaises, WorkerAddRaises
<1>2. CASE Broadcast(p) \/ RefuseBlock(p) \/ StopHandler(p)
  BY <1>2, RaiseKeepsIInv, FinishKeepsIInv
     DEF Broadcast, RefuseBlock, StopHandler
<1>3. CASE StartHandler(p)
  <2>1. TypeOK /\ HandlerOK(p) /\ pool \subseteq Signed
    BY DEF IInv
  <2> USE <1>3, <2>1 DEF StartHandler, Goto
  <2>2. TypeOK'
    BY DEF TypeOK, miner
  <2>3. OthersUntouched(p)
    BY DEF TypeOK, OthersUntouched
  <2>4. HandlerOK(p)'
    BY DEF TypeOK, HandlerOK
  <2> QED
    BY <2>2, <2>3, <2>4, LocalStep
<1> QED
  BY <1>1, <1>2, <1>3, AskingKeepsIInv, FetchingKeepsIInv, WorkerAddsKeepsIInv
     DEF Handle

------------------------------------------------------------------------------
(* The invariant and what follows from it *)

LEMMA NextIInv == IInv /\ [Next]_vars => IInv'
<1> SUFFICES ASSUME IInv, [Next]_vars PROVE IInv'
  OBVIOUS
<1>1. CASE Next
  BY <1>1, MinerKeepsIInv, ReceiveKeepsIInv, PostKeepsIInv, HandleKeepsIInv
     DEF Next
<1>2. CASE UNCHANGED vars
  <2>1. TypeOK'
    BY <1>2 DEF vars, IInv, TypeOK
  <2> QED
    BY <1>2, <2>1, HandlersUntouched, MinerUntouched, StoreUntouched
       DEF vars, locals, miner, IInv
<1> QED
  BY <1>1, <1>2

\* What TLC checks as IInv on a small instance.
THEOREM NodeInvariance == Spec => []IInv
  BY InitIInv, NextIInv, PTL DEF Spec

\* What the processes of a node keep between two queries has its type.
THEOREM NodeTyping == Spec => []TypeOK
  BY NodeInvariance, PTL DEF IInv

\* No stored block carries a payment that was not verified, whoever stored it.
THEOREM OnlySignedIsStored == Spec => []StoredIsSigned
  BY NodeInvariance, PTL DEF IInv

\* Only the miner deletes payments, and only those of a block that it stored.
LEMMA PoolStep ==
    IInv /\ [Next]_vars => [\A t \in pool \ pool' : IsStored(t)]_vars
<1> SUFFICES ASSUME IInv, Next, NEW t \in pool, t \notin pool'
             PROVE  IsStored(t)
  OBVIOUS
<1>1. CASE RemoveMined
  BY <1>1 DEF RemoveMined, Remove, IInv, MinerOK, PaymentsOf, IsStored
<1>2. CASE MinerStep \/ StopMiner \/ StartMiner
  BY <1>1, <1>2
     DEF MinerStep, ReadTip, BuildBlock, BuildRaises, FindNonce,
         DifficultyRaises, GiveUp, MinerAdds, MinerAddRaises, StopMiner,
         StartMiner
<1>3. ASSUME NEW u \in Payments, PostTransaction(u)
      PROVE  FALSE
  BY <1>3 DEF PostTransaction
<1>4. ASSUME NEW p \in Workers, Receive(p)
      PROVE  FALSE
  BY <1>4 DEF Receive, ReceiveHeader, HeaderRaises, ReceiveInventory,
              TransactionRaises
<1>5. ASSUME NEW p \in Handlers, Handle(p) \/ StopHandler(p) \/ StartHandler(p)
      PROVE  FALSE
  BY <1>5 DEF Handle, StopHandler, StartHandler, AskChain, AskChainRaises,
              SkipConfirmed, AskPool, AllAsked, FetchCoinbase, Fetch,
              FetchInvalid, VerifyRaises, SenderGone, CheckFunds,
              InsufficientFunds, PushTransaction, Push, PushRaises, Broadcast,
              RefuseBlock, WorkerAdds, WorkerAddRaises
<1> QED
  BY <1>2, <1>3, <1>4, <1>5 DEF Next

\* An accepted payment leaves the pool only once it is in a stored block.
THEOREM NoPaymentIsLost == Spec => LeavesPoolOnlyWhenMined
  BY NodeInvariance, PoolStep, PTL DEF Spec, LeavesPoolOnlyWhenMined

\* The queries of module BlockStore on the node's store are the node's own.
LEMMA AddIsStoreStep ==
    ASSUME IInv, NEW b \in Blocks, AddBlock(b)
    PROVE  Store!Next
<1>1. PICK n \in BranchNumbers : AddOn(b, n)
  BY DEF AddBlock
<1>2. Prev[b] \in Blocks
  BY <1>1 DEF AddOn, Stored
<1>3. b # Genesis
  BY <1>2, BlockTreeAssumption
<1>4. branchOf' = [branchOf EXCEPT ![b] = n]
  BY <1>1 DEF AddOn, Store!Add
<1>5. branchOf'[b] = n
  BY <1>4 DEF IInv, TypeOK
<1>6. branchOf[b] # n
  BY <1>1, StoreStepAssumption
     DEF AddOn, Store!Add, Store!Clash, Store!Stored, Store!Absent
<1> QED
  BY <1>1, <1>3, <1>5, <1>6 DEF AddOn, Store!Next

LEMMA StepIsStoreStep ==
    IInv /\ [Next]_vars => [Store!Next]_branchOf
<1> SUFFICES ASSUME IInv, [Next]_vars, branchOf' # branchOf
             PROVE  Store!Next
  OBVIOUS
<1>1. CASE MinerAdds
  BY <1>1, StoreStepAssumption, AddIsStoreStep DEF MinerAdds, IInv, MinerOK
<1>2. ASSUME NEW p \in Handlers, WorkerAdds(p)
      PROVE  Store!Next
  BY <1>2, ReadyIsPaid, AddIsStoreStep
<1>3. ASSUME MinerStep \/ StopMiner \/ StartMiner
      PROVE  MinerAdds
  BY <1>3
     DEF MinerStep, ReadTip, BuildBlock, BuildRaises, FindNonce,
         DifficultyRaises, GiveUp, MinerAddRaises, RemoveMined, StopMiner,
         StartMiner
<1>4. ASSUME NEW u \in Payments, PostTransaction(u)
      PROVE  FALSE
  BY <1>4 DEF PostTransaction
<1>5. ASSUME NEW p \in Workers, Receive(p)
      PROVE  FALSE
  BY <1>5 DEF Receive, ReceiveHeader, HeaderRaises, ReceiveInventory,
              TransactionRaises
<1>6. ASSUME NEW p \in Handlers, Handle(p) \/ StopHandler(p) \/ StartHandler(p)
      PROVE  WorkerAdds(p)
  BY <1>6 DEF Handle, StopHandler, StartHandler, AskChain, AskChainRaises,
              SkipConfirmed, AskPool, AllAsked, FetchCoinbase, Fetch,
              FetchInvalid, VerifyRaises, SenderGone, CheckFunds,
              InsufficientFunds, PushTransaction, PushRaises, Broadcast,
              RefuseBlock, WorkerAddRaises
<1> QED
  BY <1>1, <1>2, <1>3, <1>4, <1>5, <1>6 DEF Next, vars

\* By definition; what is proved of BlockStore holds of the store of a running
\* node.
LEMMA NodeUsesStore == Spec => StoreSpec
<1>1. Init => Store!Init
  BY DEF Init, EmptyOrSeeded, Absent, Store!Init, Store!EmptyOrSeeded,
         Store!Absent
<1> QED
  BY <1>1, NodeInvariance, StepIsStoreStep, PTL DEF Spec, StoreSpec, Store!Spec

------------------------------------------------------------------------------
(* The shape of the node's store *)

\* Whatever miner and workers race on, every branch of a node's store is a path,
\* and branch 0 the tallest.
THEOREM NodeKeepsShape == Spec => []StoreShape
  BY NodeUsesStore, StoreHasShape, PTL

\* Along branch 0 of a node no prev_hash is spent twice.
THEOREM NodeSpendsOnce == Spec => []MainBranchSpendsOnce
  BY NodeUsesStore, StoreHasShape, MainBranchByConstraints, PTL

\* Branch 0 of a node is only ever extended.
THEOREM NodeNeverDisplaces == Spec => PrimaryChainSpec
  BY NodeUsesStore, StoreKeepsPrimary, PTL

------------------------------------------------------------------------------
(* Defects *)

\* What is left to show of a step of p that leaves the store and the miner alone.
LEMMA HandlerKeepsDefects ==
    ASSUME DefectsInv, NEW p \in Handlers, UNCHANGED <<branchOf, miner>>,
           "verify" \in defects => pool' = {},
           OthersUntouched(p), HandlerStopped(p)'
    PROVE  DefectsInv'
<1>1. ASSUME NEW q \in Handlers \ {p} PROVE HandlerStopped(q)'
  BY <1>1 DEF DefectsInv, HandlerStopped, OthersUntouched, miner
<1> QED
  BY <1>1 DEF DefectsInv, NothingPassesDefects, Stored, OnBranch, miner

LEMMA FinishKeepsDefects ==
    ASSUME IInv, DefectsInv, NEW p \in Handlers, NEW step \in {"idle", "dead"},
           Finish(p, step), UNCHANGED <<branchOf, pool, miner>>
    PROVE  DefectsInv'
<1> USE DEF Finish, Goto
<1>1. OthersUntouched(p)
  BY DEF IInv, TypeOK, OthersUntouched
<1>2. HandlerStopped(p)'
  BY DEF IInv, TypeOK, HandlerStopped
<1> QED
  BY <1>1, <1>2, HandlerKeepsDefects DEF DefectsInv, NothingPassesDefects

LEMMA RaiseKeepsDefects ==
    ASSUME IInv, DefectsInv, NEW p \in Handlers, Raise(p),
           UNCHANGED <<branchOf, pool, miner>>
    PROVE  DefectsInv'
BY FinishKeepsDefects DEF Raise

\* A job begins before any of its payments is looked up.
LEMMA BeginKeepsDefects ==
    ASSUME IInv, DefectsInv,
           \/ \E p \in Workers : Receive(p)
           \/ \E t \in Payments : PostTransaction(t)
    PROVE  DefectsInv'
<1>1. TypeOK /\ Workers \subseteq Handlers /\ Server \in Handlers
  BY DEF IInv, Handlers
<1> USE DEF Goto
<1>2. ASSUME NEW p \in Workers, NEW b \in Blocks, ReceiveHeader(p, b)
      PROVE  DefectsInv'
  <2> USE <1>1, <1>2 DEF ReceiveHeader
  <2>1. OthersUntouched(p)
    BY DEF TypeOK, OthersUntouched
  <2>2. HandlerStopped(p)'
    BY DEF TypeOK, HandlerStopped, TakenAsCoinbase, Coinbases, miner
  <2> QED
    BY <2>1, <2>2, HandlerKeepsDefects DEF DefectsInv, NothingPassesDefects
<1>3. ASSUME NEW p \in Handlers, OthersUntouched(p), pc[p] = "idle",
             pc'[p] \in {"chain", "pool"}, UNCHANGED <<branchOf, pool, miner, blk>>
      PROVE  DefectsInv'
  <2>1. blk[p] = NoBlock
    BY <1>3 DEF IInv, HandlerOK
  <2>2. HandlerStopped(p)'
    BY <1>3, <2>1 DEF HandlerStopped
  <2> QED
    BY <1>3, <2>2, HandlerKeepsDefects DEF DefectsInv, NothingPassesDefects
<1>4. ASSUME NEW p \in Workers, NEW S \in SUBSET Payments, ReceiveInventory(p, S)
      PROVE  DefectsInv'
  <2>1. OthersUntouched(p) /\ pc'[p] = "chain"
    BY <1>1, <1>4 DEF ReceiveInventory, TypeOK, OthersUntouched
  <2> QED
    BY <1>1, <1>3, <1>4, <2>1 DEF ReceiveInventory
<1>5. ASSUME NEW t \in Payments, PostTransaction(t)
      PROVE  DefectsInv'
  <2>1. OthersUntouched(Server) /\ pc'[Server] = "pool"
    BY <1>1, <1>5 DEF PostTransaction, TypeOK, OthersUntouched
  <2> QED
    BY <1>1, <1>3, <1>5, <2>1 DEF PostTransaction
<1>6. ASSUME NEW p \in Workers,
             \/ \E b \in Blocks : HeaderRaises(p, b)
             \/ \E t \in Payments : TransactionRaises(p, t)
      PROVE  DefectsInv'
  BY <1>1, <1>6, RaiseKeepsDefects DEF HeaderRaises, TransactionRaises
<1> QED
  BY <1>2, <1>4, <1>5, <1>6 DEF Receive

\* If payments cannot be verified, none is in the pool: a block's payments are
\* all missing.
LEMMA AskingKeepsDefects ==
    ASSUME IInv, DefectsInv, NEW p \in Handlers,
           AskChain(p) \/ SkipConfirmed(p) \/ AskPool(p) \/ AllAsked(p)
    PROVE  DefectsInv'
<1>1. TypeOK /\ HandlerStopped(p) /\ ("verify" \in defects => pool = {})
  BY DEF IInv, DefectsInv, NothingPassesDefects
<1> USE <1>1 DEF AskChain, SkipConfirmed, AskPool, AllAsked, Goto
<1>2. OthersUntouched(p)
  BY DEF TypeOK, OthersUntouched
<1>3. UNCHANGED <<branchOf, pool, miner, blk>> /\ pc'[p] \in {"chain", "pool", "fetch"}
  BY DEF TypeOK
<1>4. ASSUME "verify" \in defects, IsBlockJob(p),
             NEW t \in TxOf[blk[p]] \ Coinbases(blk[p])
      PROVE  \/ t \in todo'[p] \cup missing'[p]
             \/ pc'[p] = "pool" /\ t = cur'[p]
  <2>1. \/ t \in todo[p] \cup missing[p]
        \/ pc[p] = "pool" /\ t = cur[p]
    BY <1>4 DEF HandlerStopped, IsBlockJob
  <2> QED
    BY <1>4, <2>1 DEF TypeOK
<1> HIDE DEF AskChain, SkipConfirmed, AskPool, AllAsked
<1>5. HandlerStopped(p)'
  BY <1>3, <1>4 DEF HandlerStopped, IsBlockJob, miner
<1> QED
  BY <1>2, <1>3, <1>5, HandlerKeepsDefects

\* No payment gets further than its signature.
LEMMA FetchingKeepsDefects ==
    ASSUME IInv, DefectsInv, NEW p \in Handlers,
           \/ FetchCoinbase(p) \/ Fetch(p) \/ FetchInvalid(p)
           \/ CheckFunds(p) \/ InsufficientFunds(p) \/ PushTransaction(p)
    PROVE  DefectsInv'
<1>1. TypeOK /\ HandlerStopped(p) /\ ("verify" \in defects => pool = {})
  BY DEF IInv, DefectsInv, NothingPassesDefects
<1> USE <1>1 DEF Goto
<1>2. CASE FetchCoinbase(p)
  <2> USE <1>2 DEF FetchCoinbase
  <2>1. OthersUntouched(p)
    BY DEF TypeOK, OthersUntouched
  <2>2. HandlerStopped(p)'
    BY DEF TypeOK, HandlerStopped, TakenAsCoinbase, Coinbases, miner
  <2> QED
    BY <2>1, <2>2, HandlerKeepsDefects
<1>3. CASE Fetch(p) \/ CheckFunds(p) \/ PushTransaction(p)
  <2> USE <1>3 DEF Fetch, CheckFunds, PushTransaction
  <2>1. OthersUntouched(p)
    BY DEF TypeOK, OthersUntouched
  <2>2. UNCHANGED <<branchOf, blk, miner>> /\ "verify" \notin defects
    BY DEF HandlerStopped
  <2>3. HandlerStopped(p)'
    BY <2>2 DEF HandlerStopped, miner
  <2> QED
    BY <2>1, <2>2, <2>3, HandlerKeepsDefects
<1>4. CASE FetchInvalid(p) \/ InsufficientFunds(p)
  <2>1. PICK M : Invalid(p, M)
    BY <1>4 DEF FetchInvalid, InsufficientFunds
  <2>2. UNCHANGED <<branchOf, pool, miner>>
    BY <1>4 DEF FetchInvalid, InsufficientFunds
  <2>3. CASE IsBlockJob(p)
    BY <2>1, <2>2, <2>3, FinishKeepsDefects DEF Invalid
  <2>4. CASE ~IsBlockJob(p)
    <3>1. blk' = blk /\ blk[p] = NoBlock /\ pc'[p] = "fetch" /\ OthersUntouched(p)
      BY <2>1, <2>4 DEF Invalid, IsBlockJob, TypeOK, OthersUntouched
    <3>2. HandlerStopped(p)'
      BY <3>1 DEF HandlerStopped
    <3> QED
      BY <2>2, <3>1, <3>2, HandlerKeepsDefects
  <2> QED
    BY <2>3, <2>4
<1> QED
  BY <1>2, <1>3, <1>4

\* A block that goes to add_block has no payments, if one of the two defects is
\* there, and does not get onto branch 0, where Genesis is, if its coinbase is
\* garbled.
LEMMA WorkerAddsKeepsDefects ==
    ASSUME IInv, DefectsInv, StoreShape, NEW p \in Handlers, WorkerAdds(p)
    PROVE  DefectsInv'
<1> DEFINE b == blk[p]
<1>1. TypeOK /\ HandlerOK(p) /\ HandlerStopped(p)
  BY DEF IInv, DefectsInv
<1>2. pc[p] = "fetch" /\ missing[p] = {} /\ b # NoBlock /\ todo[p] = {} /\ b \in Blocks
  BY <1>1 DEF WorkerAdds, IsBlockJob, HandlerOK, TypeOK
<1>3. PICK c \in Coinbases(b) : Coinbases(b) = {c} /\ PaysOut(b, c)
  BY DEF WorkerAdds, ValidateBlock, CheckBlockReward
<1>4. c \in TxOf[b] /\ c \notin Payments
  BY <1>3, LedgerAssumption DEF Coinbases, PaysOut
<1>5. /\ "difficulty" \notin defects
      /\ defects \cap {"verify", "merkle"} # {} => PaymentsOf(b) = {}
  <2>1. "difficulty" \notin defects
    BY <1>1, <1>2 DEF HandlerStopped
  <2>2. "merkle" \in defects => \A t \in TxOf[b] : t = c
    BY <1>1, <1>2, <1>4 DEF HandlerStopped, HasOneHash
  <2>3. "verify" \in defects => TxOf[b] \ Coinbases(b) = {}
    BY <1>1, <1>2 DEF HandlerStopped
  <2> QED
    BY <1>3, <1>4, <2>1, <2>2, <2>3 DEF PaymentsOf
<1>6. PICK n \in BranchNumbers :
         /\ "columns" \in defects => ~GarbledClash(b, n)
         /\ AddOn(b, n)
  BY DEF WorkerAdds, AddFetched
<1>7. branchOf' = [branchOf EXCEPT ![b] = n]
  BY <1>6 DEF AddOn, Store!Add
<1>8. Stored' = Stored \cup {b}
  BY ReadyIsPaid, AddGrowsStore
<1>9. "columns" \in defects => OnBranch(0)' = OnBranch(0)
  <2> SUFFICES ASSUME "columns" \in defects PROVE OnBranch(0)' = OnBranch(0)
    OBVIOUS
  <2>1. Stored # {}
    BY <1>6 DEF AddOn
  <2>2. Genesis \in OnBranch(0)
    BY <2>1, BlockTreeAssumption DEF StoreShape, GenesisIsPrimary, OnBranch
  <2>3. n # 0
    BY <1>6, <2>2, StoreStepAssumption DEF GarbledClash
  <2>4. branchOf[b] # 0
    <3>1. b \notin Stored
      BY <1>6 DEF AddOn, Store!Add, Store!Clash, Store!Stored, Stored, Absent, Store!Absent
    <3> QED
      BY <1>2, <3>1 DEF Stored, Absent
  <2>5. \A c2 \in Blocks : branchOf'[c2] = 0 <=> branchOf[c2] = 0
    BY <1>1, <1>7, <2>3, <2>4 DEF TypeOK
  <2> QED
    BY <2>5 DEF OnBranch
<1>10. NothingPassesDefects'
  BY <1>5, <1>8, <1>9 DEF WorkerAdds, DefectsInv, NothingPassesDefects, miner
<1>11. ASSUME NEW q \in Handlers PROVE HandlerStopped(q)'
  BY <1>1, <1>11
     DEF WorkerAdds, Finish, Goto, TypeOK, DefectsInv, HandlerStopped, miner
<1> QED
  BY <1>10, <1>11 DEF WorkerAdds, DefectsInv, miner

LEMMA HandleKeepsDefects ==
    ASSUME IInv, DefectsInv, StoreShape, NEW p \in Handlers,
           Handle(p) \/ StopHandler(p) \/ StartHandler(p)
    PROVE  DefectsInv'
<1>1. CASE \/ AskChainRaises(p) \/ VerifyRaises(p) \/ SenderGone(p)
           \/ PushRaises(p) \/ WorkerAddRaises(p)
  BY <1>1, RaiseKeepsDefects
     DEF AskChainRaises, VerifyRaises, SenderGone, PushRaises, WorkerAddRaises
<1>2. CASE Broadcast(p) \/ RefuseBlock(p) \/ StopHandler(p)
  BY <1>2, RaiseKeepsDefects, FinishKeepsDefects
     DEF Broadcast, RefuseBlock, StopHandler
<1>3. CASE StartHandler(p)
  <2>1. OthersUntouched(p) /\ pc'[p] = "idle" /\ blk[p] = NoBlock
    BY <1>3 DEF StartHandler, Goto, IInv, HandlerOK, TypeOK, OthersUntouched
  <2>2. HandlerStopped(p)'
    BY <1>3, <2>1 DEF StartHandler, HandlerStopped
  <2> QED
    BY <1>3, <2>1, <2>2, HandlerKeepsDefects
       DEF StartHandler, DefectsInv, NothingPassesDefects
<1> QED
  BY <1>1, <1>2, <1>3, AskingKeepsDefects, FetchingKeepsDefects,
     WorkerAddsKeepsDefects DEF Handle

\* The miner takes payments from the pool only.
LEMMA MinerKeepsDefects ==
    ASSUME IInv, DefectsInv, MinerStep \/ StopMiner \/ StartMiner
    PROVE  DefectsInv'
<1> USE DEF MinerGoto, MinerDies
<1>1. UNCHANGED locals
  BY DEF MinerStep, ReadTip, BuildBlock, BuildRaises, FindNonce, DifficultyRaises,
         GiveUp, MinerAdds, MinerAddRaises, RemoveMined, StopMiner, StartMiner
<1>2. \A p \in Handlers : HandlerStopped(p)'
  BY <1>1 DEF locals, DefectsInv, HandlerStopped
<1>3. defects' = defects
  BY <1>1 DEF locals
<1>4. CASE MinerAdds
  <2>1. own \in OwnBlocks /\ own \in Blocks /\ IsPaid(own)
    BY <1>4, StoreStepAssumption DEF MinerAdds, MinerOK, IInv
  <2>2. Stored' = Stored \cup {own} /\ OnBranch(0)' \subseteq OnBranch(0) \cup {own}
    <3>1. Stored' = Stored \cup {own}
      BY <1>4, <2>1, AddGrowsStore DEF MinerAdds
    <3>2. PICK n \in BranchNumbers : branchOf' = [branchOf EXCEPT ![own] = n]
      BY <1>4 DEF MinerAdds, AddBlock, AddOn, Store!Add
    <3> QED
      BY <3>1, <3>2 DEF IInv, TypeOK, OnBranch
  <2>3. defects \cap {"verify", "merkle"} # {} => PaymentsOf(own) = {}
    BY <1>4 DEF MinerAdds, DefectsInv
  <2>4. NothingPassesDefects'
    BY <1>3, <1>4, <2>1, <2>2, <2>3 DEF MinerAdds, DefectsInv, NothingPassesDefects
  <2> QED
    BY <1>2, <1>3, <1>4, <2>3, <2>4 DEF MinerAdds, DefectsInv
<1>5. CASE branchOf' = branchOf /\ pool' \subseteq pool
  <2>1. NothingPassesDefects'
    BY <1>3, <1>5 DEF DefectsInv, NothingPassesDefects, Stored, OnBranch
  <2>2. CASE BuildBlock
    <3>1. "verify" \in defects => pool = {}
      BY DEF DefectsInv, NothingPassesDefects
    <3>2. defects \cap {"verify", "merkle"} # {} => PaymentsOf(own') = {}
      <4>1. PICK S \in Chunks : /\ "merkle" \in defects => S = {}
                               /\ IsBuiltOf(own', S)
        BY <2>2 DEF BuildBlock
      <4>2. S \subseteq pool
        BY DEF Chunks
      <4> QED
        BY <3>1, <4>1, <4>2 DEF IsBuiltOf, PaymentsOf
    <3> QED
      BY <1>2, <1>3, <2>1, <3>2 DEF DefectsInv
  <2>3. CASE ~BuildBlock /\ ~MinerAdds
    <3>1. mpc' \in {"read", "chunk", "dead"} \/ (mpc = "work" /\ mpc' = "add" /\ own' = own)
      BY <2>3 DEF MinerStep, ReadTip, BuildRaises, FindNonce, DifficultyRaises,
             GiveUp, MinerAddRaises, RemoveMined, StopMiner, StartMiner
    <3> QED
      BY <1>2, <1>3, <2>1, <3>1 DEF DefectsInv
  <2> QED
    BY <1>4, <2>2, <2>3
<1> QED
  BY <1>4, <1>5
     DEF MinerStep, ReadTip, BuildBlock, BuildRaises, FindNonce, DifficultyRaises,
         GiveUp, MinerAddRaises, RemoveMined, Remove, StopMiner, StartMiner

LEMMA NextKeepsDefects == IInv /\ DefectsInv /\ StoreShape /\ [Next]_vars => DefectsInv'
<1> SUFFICES ASSUME IInv, DefectsInv, StoreShape, [Next]_vars PROVE DefectsInv'
  OBVIOUS
<1>1. CASE UNCHANGED vars
  BY <1>1 DEF vars, DefectsInv, NothingPassesDefects, HandlerStopped, Stored, OnBranch
<1> QED
  BY <1>1, MinerKeepsDefects, BeginKeepsDefects, HandleKeepsDefects DEF Next

LEMMA InitDefects == Init => DefectsInv
<1> SUFFICES ASSUME Init PROVE DefectsInv
  OBVIOUS
<1>1. Stored \subseteq {Genesis} /\ OnBranch(0) \subseteq {Genesis}
  BY DEF Init, EmptyOrSeeded, Stored, OnBranch, Absent
<1>2. PaymentsOf(Genesis) = {}
  BY LedgerAssumption, BlockTreeAssumption DEF PaymentsOf
<1> QED
  BY <1>1, <1>2, StoreStepAssumption
     DEF Init, DefectsInv, NothingPassesDefects, HandlerStopped

\* Blocks of peers, and payments, stop at the defects, whatever else happens.
THEOREM DefectsBar == Spec => []NothingPassesDefects
<1>1. DefectsInv => NothingPassesDefects
  BY DEF DefectsInv
<1> QED
  BY <1>1, InitDefects, NextKeepsDefects, NodeInvariance, NodeKeepsShape, PTL DEF Spec

------------------------------------------------------------------------------
(* The ledger *)

\* The summands of MoneySupply, as functions of the transactions and addresses.
Change(a) == [t \in Transactions |-> BalanceChange(a, t)]
ChangesBy(t) == [a \in Addresses |-> BalanceChange(a, t)]
BalanceOver(T) == [a \in Addresses |-> Sum(Change(a), T \cap InCoin)]
Unseen == [t \in Transactions |-> NotInBalances(t)]

\* What a transaction leaves to everybody together: a payment costs its fee.
Worth == [t \in Transactions |-> IF Source[t] = Mint THEN Amount[t] ELSE -Fee[t]]

MintedOf == [b \in Blocks |-> Minted(b)]

LEMMA AddressesFinite == IsFiniteSet(Addresses)
<1> DEFINE S == {Source[t] : t \in Transactions}
           D == {Dest[t] : t \in Transactions}
<1>1. IsFiniteSet(S) /\ IsFiniteSet(D)
  BY LedgerAssumption, ImageIsFinite
<1>2. IsFiniteSet(S \cup D)
  <2> HIDE DEF S, D
  <2> QED
    BY <1>1, FS_Union
<1>3. Addresses \subseteq S \cup D
  BY DEF Addresses
<1> QED
  BY <1>2, <1>3, FS_Subset

\* The cases of get_balance, for one transaction.
LEMMA ChangeCases ==
    ASSUME NEW t \in Transactions
    PROVE  /\ Amount[t] \in Int /\ Fee[t] \in Int
           /\ \A a \in Addresses :
                /\ BalanceChange(a, t) \in Int
                /\ a = Source[t] => BalanceChange(a, t) = -(Amount[t] + Fee[t])
                /\ a # Source[t] /\ a = Dest[t] => BalanceChange(a, t) = Amount[t]
                /\ a # Source[t] /\ a # Dest[t] => BalanceChange(a, t) = 0
<1>1. Amount[t] \in Int /\ Fee[t] \in Int
  BY LedgerAssumption
<1>2. ASSUME NEW a \in Addresses, a = Source[t]
      PROVE  BalanceChange(a, t) = -(Amount[t] + Fee[t])
  BY <1>2 DEF BalanceChange
<1>3. ASSUME NEW a \in Addresses, a # Source[t]
      PROVE  BalanceChange(a, t) = IF a = Dest[t] THEN Amount[t] ELSE 0
  BY <1>3 DEF BalanceChange
<1> QED
  BY <1>1, <1>2, <1>3

\* What one transaction in the default asset changes: everybody's balances and
\* what is burnt.
LEMMA LedgerOfOne ==
    ASSUME NEW t \in Transactions
    PROVE  Sum(ChangesBy(t), Addresses) + Burnt(t) = Worth[t]
<1> DEFINE f == ChangesBy(t)
           s == Source[t]
           d == Dest[t]
<1>1. IsFiniteSet(Addresses)
  BY AddressesFinite
<1>2. /\ Amount[t] \in Int /\ Fee[t] \in Int
      /\ \A a \in Addresses :
           /\ f[a] \in Int
           /\ a = s => f[a] = -(Amount[t] + Fee[t])
           /\ a # s /\ a = d => f[a] = Amount[t]
           /\ a # s /\ a # d => f[a] = 0
  BY ChangeCases DEF ChangesBy
<1>3. Burnt(t) = IF d \in {s, Mint} THEN Amount[t] ELSE 0
  BY DEF Burnt
<1>4. Worth[t] = IF s = Mint THEN Amount[t] ELSE -Fee[t]
  BY DEF Worth
<1>5. (s \in Addresses <=> s # Mint) /\ (d \in Addresses <=> d # Mint)
  BY DEF Addresses
<1> HIDE DEF f, s, d
<1>6. CASE s # Mint /\ d \in {s, Mint}
  <2>1. s \in Addresses /\ f[s] \in Int /\ \A a \in Addresses \ {s} : f[a] = 0
    BY <1>2, <1>5, <1>6
  <2>2. SumFunctionOnSet(f, Addresses) = f[s]
    BY <1>1, <2>1, SumOfOne
  <2> QED
    BY <1>2, <1>3, <1>4, <1>6, <2>1, <2>2 DEF Sum, f
<1>7. CASE s # Mint /\ d \notin {s, Mint}
  <2>1. /\ s \in Addresses /\ d \in Addresses \ {s} /\ f[s] \in Int /\ f[d] \in Int
        /\ \A a \in Addresses \ {s, d} : f[a] = 0
    BY <1>2, <1>5, <1>7
  <2>2. SumFunctionOnSet(f, Addresses) = f[s] + f[d]
    BY <1>1, <2>1, SumOfTwo
  <2> QED
    BY <1>2, <1>3, <1>4, <1>7, <2>1, <2>2 DEF Sum, f
<1>8. CASE s = Mint /\ d # Mint
  <2>1. d \in Addresses /\ f[d] \in Int /\ \A a \in Addresses \ {d} : f[a] = 0
    BY <1>2, <1>5, <1>8
  <2>2. SumFunctionOnSet(f, Addresses) = f[d]
    BY <1>1, <2>1, SumOfOne
  <2> QED
    BY <1>2, <1>3, <1>4, <1>8, <2>1, <2>2 DEF Sum, f
<1>9. CASE s = Mint /\ d = Mint
  <2>1. \A a \in Addresses : f[a] = 0
    BY <1>2, <1>5, <1>9
  <2>2. SumFunctionOnSet(f, Addresses) = 0
    BY <1>1, <2>1, SumZero
  <2> QED
    BY <1>2, <1>3, <1>4, <1>9, <2>2 DEF Sum, f
<1> QED
  BY <1>6, <1>7, <1>8, <1>9

\* What no balance shows of a transaction.
LEMMA UnseenCases ==
    ASSUME NEW t \in Transactions
    PROVE  /\ Unseen[t] \in Int /\ Worth[t] \in Int /\ Burnt(t) \in Int
           /\ t \in InCoin => Unseen[t] = Burnt(t)
           /\ t \notin InCoin => Unseen[t] = Worth[t]
<1>1. Amount[t] \in Int /\ Fee[t] \in Int
  BY ChangeCases
<1>2. Worth[t] = (IF Source[t] = Mint THEN Amount[t] ELSE -Fee[t]) /\ Worth[t] \in Int
  BY <1>1 DEF Worth
<1>3. Burnt(t) \in Int
  BY <1>1 DEF Burnt
<1>4. CASE t \in InCoin
  BY <1>2, <1>3, <1>4 DEF Unseen, NotInBalances
<1>5. CASE t \notin InCoin /\ Source[t] = Mint
  BY <1>1, <1>2, <1>3, <1>5 DEF Unseen, NotInBalances
<1>6. CASE t \notin InCoin /\ Source[t] # Mint
  BY <1>1, <1>2, <1>3, <1>6 DEF Unseen, NotInBalances
<1> QED
  BY <1>4, <1>5, <1>6

\* Any transactions together: by induction, one transaction more at a time.
LEMMA LedgerOfAll ==
    ASSUME NEW S \in SUBSET Transactions
    PROVE  Sum(BalanceOver(S), Addresses) + Sum(Unseen, S) = Sum(Worth, S)
<1> DEFINE Total(T) == Sum(BalanceOver(T), Addresses)
           Lost(T) == Sum(Unseen, T)
           Gain(T) == Sum(Worth, T)
           Q == {T \in SUBSET S : Total(T) + Lost(T) = Gain(T)}
<1>1. IsFiniteSet(S) /\ IsFiniteSet(Addresses)
  BY LedgerAssumption, AddressesFinite, FS_Subset
<1>2. \A t \in S : Unseen[t] \in Int /\ Worth[t] \in Int
  BY UnseenCases
<1>3. \A t \in S, a \in Addresses : BalanceChange(a, t) \in Int
  BY ChangeCases
<1>4. {} \in Q
  <2>1. \A a \in Addresses : BalanceOver({})[a] = 0
    BY SumEmpty DEF BalanceOver, Sum
  <2>2. Total({}) = 0 /\ Lost({}) = 0 /\ Gain({}) = 0
    BY <1>1, <2>1, SumZero, SumEmpty DEF Sum
  <2> QED
    BY <2>2
<1>5. ASSUME NEW T \in SUBSET S, NEW x \in S \ T, T \in Q
      PROVE  T \cup {x} \in Q
  <2>1. IsFiniteSet(T) /\ IsFiniteSet(T \cap InCoin)
    BY <1>1, FS_Subset
  <2>2. Lost(T \cup {x}) = Lost(T) + Unseen[x] /\ Lost(T) \in Int
    BY <1>2, <2>1, SumExtend DEF Sum
  <2>3. Gain(T \cup {x}) = Gain(T) + Worth[x] /\ Gain(T) \in Int
    BY <1>2, <2>1, SumExtend DEF Sum
  <2>4. Total(T) + Lost(T) = Gain(T) /\ Unseen[x] \in Int /\ Worth[x] \in Int
    BY <1>2, <1>5
  <2>5. CASE x \in InCoin
    <3>1. ASSUME NEW a \in Addresses
          PROVE  /\ BalanceOver(T)[a] \in Int
                 /\ ChangesBy(x)[a] \in Int
                 /\ BalanceOver(T \cup {x})[a] = BalanceOver(T)[a] + ChangesBy(x)[a]
      <4> DEFINE C == T \cap InCoin
      <4>1. \A t \in C \cup {x} : Change(a)[t] = BalanceChange(a, t)
        BY DEF Change
      <4>2. \A t \in C \cup {x} : Change(a)[t] \in Int
        BY <1>3, <4>1
      <4>3. (T \cup {x}) \cap InCoin = C \cup {x} /\ x \notin C /\ IsFiniteSet(C)
        BY <2>1, <2>5
      <4> HIDE DEF C
      <4>4. /\ SumFunctionOnSet(Change(a), C) \in Int
            /\ SumFunctionOnSet(Change(a), C \cup {x})
                  = SumFunctionOnSet(Change(a), C) + Change(a)[x]
        BY <4>2, <4>3, SumExtend
      <4> QED
        BY <1>3, <4>1, <4>3, <4>4 DEF BalanceOver, ChangesBy, Sum, C
    <3>2. Total(T \cup {x}) = Total(T) + Sum(ChangesBy(x), Addresses)
      <4> DEFINE f == BalanceOver(T)
                 g == ChangesBy(x)
                 h == BalanceOver(T \cup {x})
      <4>1. \A a \in Addresses : f[a] \in Int /\ g[a] \in Int /\ h[a] = f[a] + g[a]
        BY <3>1
      <4> HIDE DEF f, g, h
      <4>2. SumFunctionOnSet(h, Addresses)
               = SumFunctionOnSet(f, Addresses) + SumFunctionOnSet(g, Addresses)
        BY <1>1, <4>1, SumPlus
      <4> QED
        BY <4>2 DEF Sum, f, g, h
    <3>3. Total(T) \in Int /\ Sum(ChangesBy(x), Addresses) \in Int
      BY <1>1, <3>1, SumRemove DEF Sum
    <3>4. Sum(ChangesBy(x), Addresses) + Burnt(x) = Worth[x]
      BY LedgerOfOne
    <3>5. Burnt(x) = Unseen[x]
      BY <2>5, UnseenCases
    <3> HIDE DEF Total, Lost, Gain
    <3>6. Total(T \cup {x}) + Lost(T \cup {x}) = Gain(T \cup {x})
      BY <2>2, <2>3, <2>4, <3>2, <3>3, <3>4, <3>5
    <3> QED
      BY <3>6
  <2>6. CASE x \notin InCoin
    <3>1. Total(T \cup {x}) = Total(T)
      <4>1. (T \cup {x}) \cap InCoin = T \cap InCoin
        BY <2>6
      <4> QED
        BY <4>1 DEF BalanceOver
    <3>2. Unseen[x] = Worth[x]
      BY <2>6, UnseenCases
    <3>3. Total(T) \in Int
      <4>1. ASSUME NEW a \in Addresses PROVE BalanceOver(T)[a] \in Int
        <5>1. \A t \in T \cap InCoin : Change(a)[t] \in Int
          BY <1>3 DEF Change
        <5>2. SumFunctionOnSet(Change(a), T \cap InCoin) \in Int
          BY <2>1, <5>1, SumRemove
        <5> QED
          BY <5>2 DEF BalanceOver, Sum
      <4> QED
        BY <1>1, <4>1, SumRemove DEF Sum
    <3> HIDE DEF Total, Lost, Gain
    <3>4. Total(T \cup {x}) + Lost(T \cup {x}) = Gain(T \cup {x})
      BY <2>2, <2>3, <2>4, <3>1, <3>2, <3>3
    <3> QED
      BY <3>4
  <2> QED
    BY <2>5, <2>6
<1>6. S \in Q
  <2> HIDE DEF Q
  <2> QED
    BY <1>1, <1>4, <1>5, FiniteInduction
<1> QED
  BY <1>6

\* The coinbase of a block pays the reward and what the payments cost.
LEMMA WorthOfBlock ==
    ASSUME IInv, NEW b \in Stored
    PROVE  Sum(Worth, TxOf[b]) = MintedOf[b]
<1>1. b \in Blocks /\ TxOf[b] \subseteq Transactions /\ IsFiniteSet(TxOf[b])
  BY NodeAssumption, LedgerAssumption, FS_Subset DEF Stored
<1>2. \A t \in TxOf[b] :
         /\ Worth[t] \in Int /\ Amount[t] \in Int /\ Fee[t] \in Int
         /\ Worth[t] = IF Source[t] = Mint THEN Amount[t] ELSE -Fee[t]
  BY <1>1, LedgerAssumption DEF Worth
<1>3. MintedOf[b] = IF b = Genesis THEN SumFunctionOnSet(Amount, TxOf[b])
                                   ELSE Reward[Height[b]]
  BY <1>1 DEF MintedOf, Minted, Sum
<1>4. CASE b = Genesis
  <2>1. \A t \in TxOf[b] : Worth[t] = Amount[t]
    BY <1>2, <1>4, LedgerAssumption
  <2>2. SumFunctionOnSet(Worth, TxOf[b]) = SumFunctionOnSet(Amount, TxOf[b])
    BY <1>1, <1>2, <2>1, SumEqual
  <2> QED
    BY <1>3, <1>4, <2>2 DEF Sum
<1>5. CASE b # Genesis
  <2>1. PICK c \in TxOf[b] \ Payments : PaysOut(b, c) /\ TxOf[b] \ {c} \subseteq Signed
    BY <1>5 DEF IInv, StoredIsPaid, IsPaid
  <2> DEFINE P == TxOf[b] \ {c}
  <2>2. c \in TxOf[b] /\ c \notin P /\ TxOf[b] = P \cup {c} /\ IsFiniteSet(P)
    BY <1>1, FS_Subset
  <2>3. \A t \in P : t \in TxOf[b] /\ Worth[t] = -Fee[t]
    BY <1>2, <2>1, NodeAssumption, LedgerAssumption
  <2>4. Amount[c] = Reward[Height[b]] + SumFunctionOnSet(Fee, P)
    BY <2>1 DEF PaysOut, RewardDue, Sum
  <2> HIDE DEF P
  <2>5. SumFunctionOnSet(Worth, TxOf[b]) = SumFunctionOnSet(Worth, P) + Worth[c]
    BY <1>2, <2>2, SumExtend
  <2>6. SumFunctionOnSet(Worth, P) + SumFunctionOnSet(Fee, P) = 0
    <3> DEFINE zero == [t \in P |-> 0]
    <3>1. \A t \in P : Worth[t] \in Int /\ Fee[t] \in Int /\ zero[t] = Worth[t] + Fee[t]
      BY <1>2, <2>3
    <3>2. SumFunctionOnSet(zero, P) = 0
      BY <2>2, SumZero
    <3> HIDE DEF zero
    <3>3. SumFunctionOnSet(zero, P) = SumFunctionOnSet(Worth, P) + SumFunctionOnSet(Fee, P)
      BY <2>2, <3>1, SumPlus
    <3> QED
      BY <3>2, <3>3
  <2>7. SumFunctionOnSet(Worth, P) \in Int /\ SumFunctionOnSet(Fee, P) \in Int
    BY <1>2, <2>2, <2>3, SumRemove
  <2>8. Worth[c] = Amount[c] /\ Reward[Height[b]] \in Int
    BY <1>1, <1>2, <2>1, LedgerAssumption DEF PaysOut
  <2> QED
    BY <1>3, <1>5, <2>4, <2>5, <2>6, <2>7, <2>8 DEF Sum
<1> QED
  BY <1>4, <1>5

\* No transaction counts twice on branch 0, so its blocks can be added up.
LEMMA WorthOfBranch ==
    ASSUME IInv, BranchSpendsOnce
    PROVE  Sum(Worth, TxOn(0)) = Sum(MintedOf, OnBranch(0))
<1> DEFINE Tx(P) == UNION {TxOf[b] : b \in P}
           Q == {P \in SUBSET OnBranch(0) :
                    Sum(Worth, Tx(P)) = Sum(MintedOf, P)}
<1>1. OnBranch(0) \subseteq Stored /\ OnBranch(0) \subseteq Blocks
  BY DEF OnBranch, Stored, Absent
<1>2. IsFiniteSet(OnBranch(0))
  BY <1>1, LedgerAssumption, FS_Subset
<1>3. \A t \in Transactions : Worth[t] \in Int
  BY LedgerAssumption DEF Worth
<1>4. \A P \in SUBSET OnBranch(0) : Tx(P) \subseteq Transactions /\ IsFiniteSet(Tx(P))
  <2>1. \A P \in SUBSET OnBranch(0) : Tx(P) \subseteq Transactions
    BY <1>1, NodeAssumption
  <2> QED
    BY <2>1, LedgerAssumption, FS_Subset
<1>5. \A b \in OnBranch(0) : MintedOf[b] \in Int
  <2> SUFFICES ASSUME NEW b \in OnBranch(0) PROVE MintedOf[b] \in Int
    OBVIOUS
  <2>1. IsFiniteSet(TxOf[b]) /\ TxOf[b] \subseteq Transactions
    BY <1>1, NodeAssumption, LedgerAssumption, FS_Subset
  <2>2. Sum(Worth, TxOf[b]) \in Int
    BY <1>3, <2>1, SumRemove DEF Sum
  <2> QED
    BY <1>1, <2>2, WorthOfBlock
<1>6. {} \in Q
  <2>1. Tx({}) = {}
    OBVIOUS
  <2> QED
    BY <2>1, SumEmpty DEF Sum
<1>7. ASSUME NEW P \in SUBSET OnBranch(0), NEW b \in OnBranch(0) \ P, P \in Q
      PROVE  P \cup {b} \in Q
  <2>1. Tx(P) \cap TxOf[b] = {}
    <3> SUFFICES ASSUME NEW c \in P, NEW t \in TxOf[b], t \in TxOf[c]
                 PROVE  FALSE
      OBVIOUS
    <3>1. branchOf[b] = branchOf[c] /\ b # c /\ b \in Stored /\ c \in Stored
      BY <1>1 DEF OnBranch
    <3> QED
      BY <3>1 DEF BranchSpendsOnce, TxClash, SpendClash
  <2>2. Tx(P \cup {b}) = Tx(P) \cup TxOf[b]
    OBVIOUS
  <2>3. /\ IsFiniteSet(TxOf[b]) /\ TxOf[b] \subseteq Transactions
        /\ IsFiniteSet(Tx(P)) /\ Tx(P) \subseteq Transactions
    <3> HIDE DEF Tx
    <3>1. TxOf[b] \subseteq Transactions
      BY <1>1, NodeAssumption
    <3> QED
      BY <1>4, <3>1, LedgerAssumption, FS_Subset
  <2>4. Sum(Worth, Tx(P \cup {b})) = Sum(Worth, Tx(P)) + Sum(Worth, TxOf[b])
    <3> HIDE DEF Tx
    <3> QED
      BY <1>3, <2>1, <2>2, <2>3, SumUnion DEF Sum
  <2>5. Sum(Worth, TxOf[b]) = MintedOf[b]
    BY <1>1, WorthOfBlock
  <2>6. Sum(MintedOf, P \cup {b}) = Sum(MintedOf, P) + MintedOf[b]
    <3>1. IsFiniteSet(P)
      BY <1>2, FS_Subset
    <3> QED
      BY <1>5, <3>1, SumExtend DEF Sum
  <2> QED
    BY <1>7, <2>4, <2>5, <2>6
<1>8. OnBranch(0) \in Q
  <2> HIDE DEF Q
  <2> QED
    BY <1>2, <1>6, <1>7, FiniteInduction
<1> QED
  BY <1>8 DEF TxOn

LEMMA LedgerBalances == IInv /\ BranchSpendsOnce => MoneySupply
<1> SUFFICES ASSUME IInv, BranchSpendsOnce PROVE MoneySupply
  OBVIOUS
<1>1. TxOn(0) \subseteq Transactions
  BY NodeAssumption DEF TxOn, OnBranch
<1>2. Sum(BalanceOver(TxOn(0)), Addresses) + Sum(Unseen, TxOn(0)) = Sum(Worth, TxOn(0))
  BY <1>1, LedgerOfAll
<1>3. BalanceOver(TxOn(0)) = [a \in Addresses |-> Balance(a)]
  BY DEF BalanceOver, Balance, Change
<1> QED
  BY <1>2, <1>3, WorthOfBranch DEF MoneySupply, Unseen, MintedOf

\* Whoever mines and pays whom in whatever asset: the balances on branch 0 and
\* what they do not show are the rewards of its blocks, no more and no less.
THEOREM MoneyIsConserved == Spec => []MoneySupply
  BY NodeInvariance, NodeUsesStore, StoreHasShape, LedgerBalances, PTL

------------------------------------------------------------------------------
(* A node without workers, whose processes are not stopped *)

\* What MinedLeavesPool rests on besides: the payments that the miner works on
\* stay in the pool, and what the server is about to pool is neither there nor
\* stored, although it was looked up several steps ago.
SoloInv ==
    /\ MinedLeavesPool
    /\ mpc \in {"work", "add", "remove"} => PaymentsOf(own) \subseteq pool
    /\ blk[Server] = NoBlock
    /\ missing[Server] \cap pool = {}
    /\ pc[Server] \in {"funds", "push"} =>
          cur[Server] \notin pool \cup missing[Server] /\ ~IsStored(cur[Server])

LEMMA InitSolo == Init => SoloInv
BY NodeAssumption DEF Init, SoloInv, MinedLeavesPool, Handlers

\* Until the miner has added its block, no pooled payment is stored.
LEMMA MinerKeepsSolo ==
    ASSUME IInv, SoloInv, MinerStep
    PROVE  SoloInv'
<1> USE DEF MinerGoto, MinerDies
<1>1. UNCHANGED <<pc, blk, cur, missing>>
  BY DEF MinerStep, ReadTip, BuildBlock, BuildRaises, FindNonce, DifficultyRaises,
         GiveUp, MinerAdds, MinerAddRaises, RemoveMined, locals
<1>2. CASE MinerAdds
  <2>1. own \in OwnBlocks /\ own \in Blocks /\ IsPaid(own)
    BY <1>2, StoreStepAssumption DEF MinerAdds, MinerOK, IInv
  <2>2. Stored' = Stored \cup {own}
    BY <1>2, <2>1, AddGrowsStore DEF MinerAdds
  <2>3. PaymentsOf(own) \subseteq pool /\ pool \subseteq Payments
    BY <1>2 DEF MinerAdds, SoloInv, IInv, TypeOK
  <2>4. \A t : IsStored(t)' <=> IsStored(t) \/ t \in TxOf[own]
    BY <2>2 DEF IsStored
  <2>5. MinedLeavesPool'
    BY <1>2, <2>3, <2>4 DEF MinerAdds, SoloInv, MinedLeavesPool, PaymentsOf
  <2>6. pc[Server] \in {"funds", "push"} => cur[Server] \notin TxOf[own]
    <3>1. pc[Server] \in {"funds", "push"} => cur[Server] \in Payments
      BY NodeAssumption DEF IInv, HandlerOK, Handlers
    <3> QED
      BY <2>3, <3>1 DEF SoloInv, PaymentsOf
  <2> QED
    BY <1>1, <1>2, <2>3, <2>4, <2>5, <2>6 DEF MinerAdds, SoloInv
<1>3. CASE RemoveMined
  <2>1. branchOf' = branchOf /\ pool' = pool \ PaymentsOf(own) /\ mpc' = "read"
    BY <1>3 DEF RemoveMined, Remove
  <2>2. \A t : IsStored(t)' <=> IsStored(t)
    BY <2>1 DEF IsStored, Stored
  <2> QED
    BY <1>1, <2>1, <2>2 DEF SoloInv, MinedLeavesPool
<1>4. CASE ~MinerAdds /\ ~RemoveMined
  <2>1. /\ branchOf' = branchOf /\ pool' = pool /\ mpc # "remove" /\ mpc' # "remove"
        /\ mpc' \in {"work", "add"} =>
              \/ BuildBlock
              \/ mpc \in {"work", "add"} /\ own' = own
    BY <1>4 DEF MinerStep, ReadTip, BuildBlock, BuildRaises, FindNonce,
                DifficultyRaises, GiveUp, MinerAddRaises
  <2>2. \A t : IsStored(t)' <=> IsStored(t)
    BY <2>1 DEF IsStored, Stored
  <2>3. BuildBlock => PaymentsOf(own') \subseteq pool
    BY DEF BuildBlock, IsBuiltOf, Chunks, PaymentsOf
  <2> QED
    BY <1>1, <2>1, <2>2, <2>3 DEF SoloInv, MinedLeavesPool, IInv, TypeOK
<1> QED
  BY <1>2, <1>3, <1>4

\* The server pools what it has found in neither place.
LEMMA ServerKeepsSolo ==
    ASSUME IInv, SoloInv,
           \/ \E t \in Payments : PostTransaction(t)
           \/ Handle(Server) \/ StopHandler(Server) \/ StartHandler(Server)
    PROVE  SoloInv'
<1>1. TypeOK /\ Server \in Handlers /\ HandlerOK(Server)
  BY DEF IInv, Handlers
<1>2. ASSUME branchOf' = branchOf, pool' = pool, UNCHANGED miner,
             blk'[Server] = NoBlock, missing'[Server] \cap pool = {},
             pc'[Server] \in {"funds", "push"} =>
                 cur'[Server] \notin pool \cup missing'[Server] /\ ~IsStored(cur'[Server])
      PROVE  SoloInv'
  <2>1. \A t : IsStored(t)' <=> IsStored(t)
    BY <1>2 DEF IsStored, Stored
  <2> QED
    BY <1>2, <2>1 DEF SoloInv, MinedLeavesPool, miner
<1> USE DEF Goto
<1>3. ASSUME NEW step \in {"idle", "dead"}, Finish(Server, step),
             UNCHANGED <<branchOf, pool, miner>>
      PROVE  SoloInv'
  BY <1>1, <1>2, <1>3 DEF Finish, TypeOK
<1>4. ASSUME Raise(Server), UNCHANGED <<branchOf, pool, miner>> PROVE SoloInv'
  BY <1>3, <1>4 DEF Raise
<1>5. ASSUME NEW t \in Payments, PostTransaction(t) PROVE SoloInv'
  BY <1>1, <1>2, <1>5 DEF PostTransaction, SoloInv, TypeOK
<1>6. CASE StartHandler(Server)
  BY <1>1, <1>2, <1>6 DEF StartHandler, SoloInv, TypeOK
<1>7. CASE AskChain(Server) \/ SkipConfirmed(Server) \/ AllAsked(Server)
  BY <1>1, <1>2, <1>7 DEF AskChain, SkipConfirmed, AllAsked, SoloInv, TypeOK
<1>8. CASE AskPool(Server)
  BY <1>1, <1>2, <1>8 DEF AskPool, SoloInv, TypeOK
<1>9. CASE FetchCoinbase(Server) \/ CheckFunds(Server)
  BY <1>1, <1>2, <1>9 DEF FetchCoinbase, TakenAsCoinbase, IsBlockJob, CheckFunds, SoloInv, TypeOK
<1>10. CASE Fetch(Server)
  <2>1. PICK t \in missing[Server] :
           /\ ~IsStored(t)
           /\ missing' = [missing EXCEPT ![Server] = @ \ {t}]
           /\ cur' = [cur EXCEPT ![Server] = t]
    BY <1>10 DEF Fetch
  <2>2. missing'[Server] = missing[Server] \ {t} /\ cur'[Server] = t
    BY <1>1, <2>1 DEF TypeOK
  <2> QED
    BY <1>2, <1>10, <2>1, <2>2 DEF Fetch, SoloInv
<1>11. CASE FetchInvalid(Server) \/ InsufficientFunds(Server)
  <2>1. PICK M \in SUBSET missing[Server] : Invalid(Server, M)
    BY <1>11 DEF FetchInvalid, InsufficientFunds
  <2>2. UNCHANGED <<branchOf, pool, miner>>
    BY <1>11 DEF FetchInvalid, InsufficientFunds
  <2>3. CASE ~IsBlockJob(Server)
    BY <1>1, <1>2, <2>1, <2>2, <2>3 DEF Invalid, SoloInv, TypeOK
  <2> QED
    BY <1>3, <2>1, <2>2, <2>3 DEF Invalid
<1>12. CASE PushTransaction(Server)
  <2>1. /\ pool' = pool \cup {cur[Server]} /\ UNCHANGED <<branchOf, miner, blk>>
        /\ missing' = missing /\ pc'[Server] = "fetch" /\ pc[Server] = "push"
    BY <1>1, <1>12 DEF PushTransaction, Push, TypeOK
  <2>2. \A t : IsStored(t)' <=> IsStored(t)
    BY <2>1 DEF IsStored, Stored
  <2> QED
    BY <2>1, <2>2 DEF SoloInv, MinedLeavesPool, miner
<1>13. CASE Broadcast(Server) \/ RefuseBlock(Server) \/ StopHandler(Server)
  BY <1>3, <1>4, <1>13 DEF Broadcast, RefuseBlock, StopHandler
<1>14. ~WorkerAdds(Server)
  BY DEF WorkerAdds, IsBlockJob, SoloInv
<1> QED
  BY <1>4, <1>5, <1>6, <1>7, <1>8, <1>9, <1>10, <1>11, <1>12, <1>13, <1>14
     DEF Handle, AskChainRaises, VerifyRaises, SenderGone, PushRaises, WorkerAddRaises

LEMMA NextKeepsSolo ==
    ASSUME Workers = {}, Stops = FALSE
    PROVE  IInv /\ SoloInv /\ [Next]_vars => SoloInv'
<1> SUFFICES ASSUME IInv, SoloInv, [Next]_vars PROVE SoloInv'
  OBVIOUS
<1>1. CASE UNCHANGED vars
  BY <1>1 DEF vars, SoloInv, MinedLeavesPool, IsStored, Stored
<1>2. CASE Next
  <2>1. Handlers = {Server} /\ ~StopMiner /\ ~StartMiner
    BY DEF Handlers, StopMiner, StartMiner
  <2> QED
    BY <1>2, <2>1, MinerKeepsSolo, ServerKeepsSolo DEF Next
<1> QED
  BY <1>1, <1>2

\* With the miner and the server alone, and neither stopped, a payment is not
\* pooled and stored at once, except while the miner is about to delete it.
THEOREM MinedIsDeleted ==
    ASSUME Workers = {}, Stops = FALSE
    PROVE  Spec => []MinedLeavesPool
<1>1. SoloInv => MinedLeavesPool
  BY DEF SoloInv
<1> QED
  BY <1>1, InitSolo, NextKeepsSolo, NodeInvariance, PTL DEF Spec
==============================================================================
