-------------------------- MODULE BlockchainProofs --------------------------
(***************************************************************************)
(* Proofs about the block store of module Blockchain, for every block      *)
(* tree, every set of processes and every bound on the branches.           *)
(*                                                                         *)
(* The argument.  IInv is inductive.  Only InsertBlock changes the table   *)
(* of blocks, and what makes it safe is that the UNIQUE (prevHash, branch) *)
(* constraint, re-checked inside the inserting transaction, turns the      *)
(* stale branch a process computed long before into an exception whenever  *)
(* it matters: lemma InsertGoesOnTop says that the row which passes the    *)
(* constraint is higher than all others of its branch.                     *)
(***************************************************************************)
EXTENDS Blockchain, StoreProofs

\* The program counters of running calls, of dead processes and idle differ.
LEMMA ProgramCounters ==
    /\ \A s \in Dead : s \notin Running
    /\ "idle" \notin Running
BY DEF Running, Dead

------------------------------------------------------------------------------
(* Typing *)

\* The tables and the local variables keep their types.
LEMMA TypeInductive == TypeOK /\ CallInv /\ [Next]_vars => TypeOK'
<1> SUFFICES ASSUME TypeOK, CallInv, [Next]_vars
             PROVE  TypeOK'
    OBVIOUS
<1> USE DEF TypeOK, Goto, Leave, locals
<1>1. ASSUME NEW p \in Procs, NEW b \in Blocks, CallAddBlock(p, b)
      PROVE  TypeOK'
  <2>1. BranchByHash(Prev[b]) \in Nat
    <3>1. CASE Prev[b] \in Stored
      BY <3>1 DEF BranchByHash, Stored, Absent
    <3>2. CASE Prev[b] \notin Stored
      BY <3>2 DEF BranchByHash
    <3> QED
      BY <3>1, <3>2
  <2> QED
    BY <1>1, <2>1 DEF CallAddBlock, Running, Dead
<1>2. ASSUME NEW p \in Procs, Step(p)
      PROVE  TypeOK'
  <2>1. CASE CompareWithNone(p)
    BY <2>1 DEF CompareWithNone, Dead
  <2>2. CASE ReadMaxHeight(p)
    BY <2>2 DEF ReadMaxHeight, Running, Dead
  <2>3. CASE RestructurePrimaryBranch(p)
    BY <2>3 DEF RestructurePrimaryBranch, Dead
  <2>4. CASE ReadCompetingBranches(p)
    BY <2>4 DEF ReadCompetingBranches, Running, Dead
  <2>5. CASE GetNewBranchNumber(p)
    <3>1. blk[p] \in Blocks
      BY <2>5 DEF GetNewBranchNumber, CallInv, CallOK, Running, CallHasPredecessor
    <3>2. branches' \in Seq(Blocks)
      BY <2>5, <3>1 DEF GetNewBranchNumber
    <3>3. Len(branches) + 1 \in Nat
      OBVIOUS
    <3>4. br' \in [Procs -> Nat]
      BY <2>5, <3>3 DEF GetNewBranchNumber
    <3> QED
      BY <2>5, <3>2, <3>4 DEF GetNewBranchNumber, Running, Dead
  <2>6. CASE StatementRejected(p)
    <3>1. \E s \in {"OperationalError", "AttributeError"} : Leave(p, s)
      BY <2>6 DEF StatementRejected
    <3> QED
      BY <2>6, <3>1 DEF StatementRejected, Dead
  <2>7. CASE InsertBlock(p)
    <3>1. blk[p] \in Blocks
      BY <2>7 DEF InsertBlock, CallInv, CallOK, Running, CallHasPredecessor
    <3>2. branches' \in Seq(Blocks)
      BY <2>7, <3>1 DEF InsertBlock, RowIds
    <3>3. branchOf' \in [Blocks -> Nat \cup {Absent}]
      BY <2>7, <3>1 DEF InsertBlock
    <3> QED
      BY <2>7, <3>2, <3>3 DEF InsertBlock
  <2>8. CASE InsertRejected(p)
    BY <2>8 DEF InsertRejected, Dead
  <2> QED
    BY <1>2, <2>1, <2>2, <2>3, <2>4, <2>5, <2>6, <2>7, <2>8 DEF Step
<1>3. ASSUME NEW p \in Procs, Kill(p)
      PROVE  TypeOK'
  BY <1>3 DEF Kill, Dead
<1>4. ASSUME NEW p \in Procs, Restart(p)
      PROVE  TypeOK'
  BY <1>4 DEF Restart
<1>5. CASE UNCHANGED vars
  BY <1>5 DEF vars
<1> QED
  BY <1>1, <1>2, <1>3, <1>4, <1>5 DEF Next

------------------------------------------------------------------------------
(* The stored blocks *)

\* The types of the table are those of BlockTableProofs.
LEMMA TypedTable == TypeOK => TableTyped
BY DEF TypeOK, TableTyped

\* What a call knows, stale as it may be, and what the constraints re-check
\* make the row one that may enter.
LEMMA InsertMayEnter ==
    ASSUME TypeOK, StoreInv, NEW p \in Procs, CallOK(p), pc[p] = "insert",
           ~Clash(blk[p], br[p])
    PROVE  MayEnter(blk[p], br[p]) /\ br[p] <= Len(branches)
<1> DEFINE b == blk[p]
           n == br[p]
<1>1. b \in Blocks \ {Genesis} /\ Prev[b] \in Stored
  BY DEF CallOK, Running, CallHasPredecessor
<1>2. n \in Nat /\ (AboveMaxHeight(b) => n = 0)
  BY DEF TypeOK, CallOK, Running
<1>3. CASE Continues(p)
  <2>1. n = branchOf[Prev[b]] /\ n <= Len(branches)
    BY <1>1, <1>3 DEF Continues, StoreInv, BranchNumbers
  <2> QED
    BY <1>1, <1>2, <2>1 DEF MayEnter
<1>4. CASE OwnsFreshBranch(p) /\ ~Continues(p)
  <2>1. n <= Len(branches) /\ OnBranch(n) = {}
    BY <1>4, <1>2 DEF OwnsFreshBranch, RowIds, TypeOK
  <2>2. branchOf[Prev[b]] \in BranchesByPrevhash(Prev[b])
    BY <1>4 DEF CallOK, Running, HasRival
  <2> QED
    BY <1>1, <1>2, <2>1, <2>2 DEF MayEnter
<1> QED
  BY <1>3, <1>4 DEF CallOK, Running

\* A block that a call may insert on branch n is higher than all of branch n.
LEMMA InsertGoesOnTop ==
    ASSUME TypeOK, StoreInv, NEW p \in Procs, CallOK(p), pc[p] = "insert",
           ~Clash(blk[p], br[p])
    PROVE  /\ blk[p] \in Blocks \ {Genesis}
           /\ blk[p] \notin Stored
           /\ Prev[blk[p]] \in Stored
           /\ br[p] \in Nat
           /\ br[p] <= Len(branches)
           /\ \A c \in OnBranch(br[p]) : Height[c] < Height[blk[p]]
BY InsertMayEnter, RowGoesOnTop, TypedTable DEF StoreInv, MayEnter

\* Actions that leave both tables alone keep what is said about them.
LEMMA StoreUnchanged ==
    StoreInv /\ UNCHANGED <<branchOf, branches>> => StoreInv'
BY ShapeUnchanged DEF StoreInv, BranchRowIsTip, BranchNumbers, RowIds

\* A new row of table branches names a branch on which no block lies.
LEMMA StoreAfterNewBranch ==
    ASSUME TypeOK, StoreInv, NEW p \in Procs, GetNewBranchNumber(p)
    PROVE  StoreInv'
<1>1. /\ branchOf' = branchOf
      /\ branches' = Append(branches, blk[p])
      /\ Len(branches) \in Nat
      /\ Len(branches') = Len(branches) + 1
      /\ \A n \in RowIds : n \in RowIds' /\ branches'[n] = branches[n]
      /\ \A n \in RowIds' : n \in RowIds \/ n = Len(branches) + 1
  BY DEF GetNewBranchNumber, TypeOK, RowIds
<1>2. Stored' = Stored /\ (\A n : OnBranch(n)' = OnBranch(n))
  BY <1>1 DEF Stored, OnBranch
<1>3. \A b \in Stored : branchOf[b] \in Nat
  BY DEF Stored, TypeOK, Absent
<1>4. OnBranch(Len(branches) + 1) = {}
  BY <1>1, <1>3 DEF StoreInv, BranchNumbers, OnBranch, Stored, Absent
<1>5. BranchRowIsTip'
  <2> SUFFICES ASSUME NEW n \in RowIds', OnBranch(n)' # {}
               PROVE  /\ branches'[n] \in OnBranch(n)'
                      /\ \A b \in OnBranch(n)' : Height[b] <= Height[branches'[n]]
    BY DEF BranchRowIsTip
  <2>1. OnBranch(n)' = OnBranch(n)
    BY <1>2
  <2>2. n \in RowIds /\ branches'[n] = branches[n]
    BY <1>1, <1>4, <2>1
  <2> QED
    BY <2>1, <2>2 DEF StoreInv, BranchRowIsTip
<1>6. BranchNumbers'
  BY <1>1, <1>2, <1>3 DEF StoreInv, BranchNumbers
<1> QED
  BY <1>1, <1>5, <1>6, ShapeUnchanged DEF StoreInv

\* What InsertBlock does to the table of blocks: one row more, on top of its
\* branch.
LEMMA OneRowMore ==
    ASSUME TypeOK, StoreInv, NEW p \in Procs, CallOK(p), InsertBlock(p),
           NEW b, b = blk[p], NEW n, n = br[p]
    PROVE  /\ Stored' = Stored \cup {b}
           /\ \A c \in Stored : branchOf'[c] = branchOf[c]
           /\ branchOf'[b] = n
           /\ \A m \in Nat :
                OnBranch(m)' = IF m = n THEN OnBranch(m) \cup {b} ELSE OnBranch(m)
<1>1. MayEnter(b, n) /\ TableTyped
  BY InsertMayEnter, TypedTable DEF InsertBlock
<1>2. AddsRow(b, n)
  BY DEF InsertBlock, AddsRow
<1> QED
  BY <1>1, <1>2, RowAdded

\* The row that InsertBlock adds keeps every branch a gapless path, branch 0
\* the tallest one and the tips up to date.
LEMMA StoreAfterInsert ==
    ASSUME TypeOK, StoreInv, NEW p \in Procs, CallOK(p), InsertBlock(p),
           NEW b, b = blk[p], NEW n, n = br[p]
    PROVE  StoreInv'
<1>1. /\ b \in Blocks \ {Genesis}
      /\ b \notin Stored
      /\ Prev[b] \in Stored
      /\ n \in Nat
      /\ n <= Len(branches)
      /\ \A c \in OnBranch(n) : Height[c] < Height[b]
  BY InsertGoesOnTop DEF InsertBlock
<1>2. /\ Stored' = Stored \cup {b}
      /\ \A c \in Stored : branchOf'[c] = branchOf[c]
      /\ branchOf'[b] = n
      /\ \A m \in Nat :
            OnBranch(m)' = IF m = n THEN OnBranch(m) \cup {b} ELSE OnBranch(m)
  BY OneRowMore
<1>3. /\ Height[b] \in Nat
      /\ \A c \in Stored : c \in Blocks /\ Height[c] \in Nat
      /\ \A m \in Nat : \A c \in OnBranch(m) : c \in Stored
  BY <1>1, HeightOfChild, RowsAreOnBranches, TypedTable
<1>4. StoreShape' /\ BranchSpendsOnce'
  BY InsertMayEnter, ShapeKeptByRow, SpendsOnceKeptByRow, TypedTable
     DEF InsertBlock, AddsRow, StoreInv
<1>5. BranchRowIsTip'
  <2>1. /\ branches \in Seq(Blocks)
        /\ branches' = IF n \in RowIds THEN [branches EXCEPT ![n] = b] ELSE branches
    BY DEF InsertBlock, TypeOK
  <2>2. RowIds' = RowIds /\ RowIds \subseteq Nat
    BY <2>1 DEF RowIds
  <2> SUFFICES ASSUME NEW m \in RowIds, OnBranch(m)' # {}
               PROVE  /\ branches'[m] \in OnBranch(m)'
                      /\ \A c \in OnBranch(m)' : Height[c] <= Height[branches'[m]]
    BY <2>2 DEF BranchRowIsTip
  <2>3. CASE m = n
    <3>1. branches'[m] = b
      BY <2>1, <2>3 DEF RowIds
    <3> QED
      BY <3>1, <2>3, <1>1, <1>2, <1>3
  <2>4. CASE m # n
    <3>1. branches'[m] = branches[m] /\ OnBranch(m)' = OnBranch(m)
      BY <2>1, <2>2, <2>4, <1>2 DEF RowIds
    <3> QED
      BY <3>1 DEF StoreInv, BranchRowIsTip
  <2> QED
    BY <2>3, <2>4
<1>6. BranchNumbers'
  <2>1. Len(branches') = Len(branches)
    BY DEF InsertBlock, TypeOK, RowIds
  <2> QED
    BY <2>1, <1>1, <1>2 DEF StoreInv, BranchNumbers
<1> QED
  BY <1>4, <1>5, <1>6 DEF StoreInv

------------------------------------------------------------------------------
(* The running calls *)

\* A step of p that adds no block keeps what is said about the calls of the
\* others, provided p does not start to insert on a branch another one owns.
LEMMA OtherCalls ==
    ASSUME CallInv, NEW p \in Procs,
           UNCHANGED branchOf,
           RowIds \subseteq RowIds',
           \A q \in Procs \ {p} :
              pc'[q] = pc[q] /\ blk'[q] = blk[q] /\ br'[q] = br[q],
           \A q \in Procs \ {p} :
              pc'[p] = "insert" /\ pc[q] = "insert" /\ OwnsFreshBranch(q)
                => br'[p] # br[q],
           CallOK(p)'
    PROVE  CallInv'
<1> SUFFICES ASSUME NEW q \in Procs \ {p}, pc[q] \in Running
             PROVE  CallOK(q)'
    BY DEF CallInv, CallOK
<1>1. CallOK(q)
  BY DEF CallInv
<1>2. /\ CallHasPredecessor(q) => CallHasPredecessor(q)'
      /\ Continues(q)' <=> Continues(q)
      /\ HasRival(q)' <=> HasRival(q)
      /\ AboveMaxHeight(blk[q])' <=> AboveMaxHeight(blk[q])
      /\ Stored' = Stored
  BY DEF CallHasPredecessor, Continues, HasRival, AboveMaxHeight, Stored,
         BranchesByPrevhash
<1>3. pc[q] = "insert" /\ OwnsFreshBranch(q) => OwnsFreshBranch(q)'
  BY DEF OwnsFreshBranch, OnBranch
<1> QED
  BY <1>1, <1>2, <1>3 DEF CallOK

\* A call that ends, in whatever way, without touching the tables.
LEMMA CallEnds ==
    ASSUME CallInv, NEW p \in Procs, UNCHANGED <<branchOf, branches>>,
           NEW s \in Dead, pc' = [pc EXCEPT ![p] = s],
           blk' = [blk EXCEPT ![p] = NoBlock], br' = [br EXCEPT ![p] = 0],
           TypeOK
    PROVE  CallInv'
<1>1. /\ pc'[p] \notin Running
      /\ pc'[p] # "insert"
      /\ \A q \in Procs \ {p} :
           pc'[q] = pc[q] /\ blk'[q] = blk[q] /\ br'[q] = br[q]
  BY ProgramCounters DEF TypeOK, Running
<1>2. RowIds' = RowIds
  BY DEF RowIds
<1>3. CallOK(p)'
  BY <1>1 DEF CallOK
<1> QED
  BY <1>1, <1>2, <1>3, OtherCalls

\* A branch on which a block lies is not one that a call owns.
LEMMA UsedBranchIsNotFresh ==
    ASSUME NEW p \in Procs, Prev[blk[p]] \in Stored, Continues(p)
    PROVE  OnBranch(br[p]) # {}
BY DEF Continues, OnBranch, Stored

\* Adding the row of table branches gives p a branch of its own.
LEMMA CallsAfterNewBranch ==
    ASSUME TypeOK, StoreInv, CallInv, NEW p \in Procs, GetNewBranchNumber(p)
    PROVE  CallInv'
<1>1. /\ CallOK(p)
      /\ pc[p] = "new_branch"
      /\ branchOf' = branchOf
      /\ branches' = Append(branches, blk[p])
      /\ blk' = blk
      /\ br' = [br EXCEPT ![p] = Len(branches) + 1]
      /\ pc' = [pc EXCEPT ![p] = "insert"]
  BY DEF GetNewBranchNumber, CallInv, Goto
<1>2. /\ CallHasPredecessor(p)
      /\ blk[p] # Genesis
      /\ Prev[blk[p]] \in Stored
      /\ HasRival(p)
      /\ ~AboveMaxHeight(blk[p])
  BY <1>1 DEF CallOK, Running, CallHasPredecessor
<1>3. Len(branches) \in Nat /\ Len(branches') = Len(branches) + 1
  BY <1>1 DEF TypeOK
<1>4. ASSUME NEW q \in Procs \ {p}, pc[q] = "insert"
      PROVE  br[q] \in Nat /\ br[q] <= Len(branches)
  <2>1. CallOK(q) /\ pc[q] \in Running /\ br[q] \in Nat
    BY <1>4 DEF CallInv, Running, TypeOK
  <2>2. CASE Continues(q)
    <3>1. Prev[blk[q]] \in Stored
      BY <2>1, <1>4 DEF CallOK, CallHasPredecessor
    <3> QED
      BY <2>1, <2>2, <3>1 DEF Continues, StoreInv, BranchNumbers
  <2>3. CASE OwnsFreshBranch(q)
    BY <2>1, <2>3, <1>3 DEF OwnsFreshBranch, RowIds, TypeOK
  <2> QED
    BY <2>1, <2>2, <2>3, <1>4 DEF CallOK
<1>5. \A q \in Procs \ {p} :
         pc'[q] = pc[q] /\ blk'[q] = blk[q] /\ br'[q] = br[q]
  BY <1>1 DEF TypeOK
<1>6. pc'[p] = "insert" /\ br'[p] = Len(branches) + 1 /\ blk'[p] = blk[p]
  BY <1>1 DEF TypeOK
<1>7. RowIds \subseteq RowIds' /\ Len(branches) + 1 \in RowIds'
  BY <1>1, <1>3 DEF RowIds, TypeOK
<1>8. \A q \in Procs \ {p} : pc[q] = "insert" => br'[p] # br[q]
  BY <1>3, <1>4, <1>6
<1>9. OwnsFreshBranch(p)'
  <2>1. {c \in Blocks : branchOf[c] = Len(branches) + 1} = {}
    <3>1. \A c \in Stored : branchOf[c] <= Len(branches)
      BY DEF StoreInv, BranchNumbers
    <3>2. \A c \in Blocks : branchOf[c] = Len(branches) + 1 => c \in Stored
      BY <1>3 DEF Stored, Absent
    <3> QED
      BY <1>3, <3>1, <3>2
  <2>2. OnBranch(br[p])' = {}
    BY <2>1, <1>1, <1>6 DEF OnBranch
  <2> QED
    BY <2>2, <1>5, <1>6, <1>7, <1>8 DEF OwnsFreshBranch
<1>10. CallOK(p)'
  <2>1. CallHasPredecessor(p)' /\ HasRival(p)' /\ ~AboveMaxHeight(blk[p])'
    BY <1>1, <1>2 DEF CallHasPredecessor, HasRival, AboveMaxHeight, Stored,
                      BranchesByPrevhash
  <2> QED
    BY <2>1, <1>6, <1>9 DEF CallOK
<1> QED
  BY <1>1, <1>5, <1>7, <1>8, <1>10, OtherCalls

\* The row that p adds does not take the branch from under another call.
LEMMA CallsAfterInsert ==
    ASSUME TypeOK, StoreInv, CallInv, NEW p \in Procs, InsertBlock(p),
           NEW b, b = blk[p], NEW n, n = br[p]
    PROVE  CallInv'
<1>1. /\ CallOK(p)
      /\ pc[p] = "insert"
      /\ pc' = [pc EXCEPT ![p] = "idle"]
      /\ blk' = [blk EXCEPT ![p] = NoBlock]
      /\ br' = [br EXCEPT ![p] = 0]
      /\ RowIds' = RowIds
  BY DEF InsertBlock, CallInv, Leave, Goto, RowIds, TypeOK
<1>2. /\ b \in Blocks \ {Genesis}
      /\ b \notin Stored
      /\ Prev[b] \in Stored
      /\ n \in Nat
  BY <1>1, InsertGoesOnTop DEF InsertBlock
<1>3. /\ Stored' = Stored \cup {b}
      /\ \A c \in Stored : branchOf'[c] = branchOf[c]
      /\ \A m \in Nat :
            OnBranch(m)' = IF m = n THEN OnBranch(m) \cup {b} ELSE OnBranch(m)
  BY <1>1, OneRowMore
<1>4. /\ pc'[p] = "idle"
      /\ \A q \in Procs \ {p} :
           pc'[q] = pc[q] /\ blk'[q] = blk[q] /\ br'[q] = br[q]
  BY <1>1 DEF TypeOK
<1>5. ASSUME NEW q \in Procs \ {p}, pc[q] \in Running
      PROVE  CallOK(q)'
  <2>1. CallOK(q) /\ Stored # {}
    BY <1>2, <1>5 DEF CallInv
  <2>2. Prev[blk[q]] \in Stored /\ blk[q] \in Blocks /\ blk[q] # Genesis
    BY <2>1, <1>5 DEF CallOK, CallHasPredecessor
  <2>3. CallHasPredecessor(q)'
    BY <2>2, <1>3, <1>4 DEF CallHasPredecessor
  <2>4. Continues(q)' <=> Continues(q)
    BY <2>2, <1>3, <1>4 DEF Continues
  <2>5. HasRival(q) => HasRival(q)'
    BY <2>2, <1>3, <1>4 DEF HasRival, BranchesByPrevhash
  <2>6. ~AboveMaxHeight(blk[q]) => ~AboveMaxHeight(blk[q])'
    BY <1>3, <1>4 DEF AboveMaxHeight
  <2>7. pc[q] = "insert" /\ OwnsFreshBranch(q) => OwnsFreshBranch(q)'
    <3> SUFFICES ASSUME pc[q] = "insert", OwnsFreshBranch(q)
                 PROVE  OwnsFreshBranch(q)'
      OBVIOUS
    <3>1. br[q] # n /\ br[q] \in Nat /\ OnBranch(br[q]) = {}
      BY <1>1 DEF OwnsFreshBranch, TypeOK
    <3>2. OnBranch(br[q])' = {}
      <4>1. \A m \in Nat : m # n /\ OnBranch(m) = {} =>
               \A c \in Blocks : branchOf'[c] # m
        BY <1>3 DEF OnBranch
      <4> QED
        BY <4>1, <3>1, <1>4 DEF OnBranch
    <3>3. br'[q] \in RowIds'
      BY <1>1, <1>4 DEF OwnsFreshBranch
    <3>4. \A r \in Procs \ {q} : pc'[r] = "insert" => br'[r] # br'[q]
      BY <1>4 DEF OwnsFreshBranch
    <3> QED
      BY <3>2, <3>3, <3>4 DEF OwnsFreshBranch
  <2> QED
    BY <2>1, <2>3, <2>4, <2>5, <2>6, <2>7, <1>4, <1>5 DEF CallOK
<1>6. CallOK(p)'
  BY <1>4, ProgramCounters DEF CallOK
<1> QED
  BY <1>4, <1>5, <1>6 DEF CallInv, CallOK

\* The start of a call, its two read-only decisions, and the return of a dead
\* process.
LEMMA CallsAfterRead ==
    ASSUME TypeOK, StoreInv, CallInv, NEW p \in Procs,
           \/ \E b \in Blocks : CallAddBlock(p, b)
           \/ ReadMaxHeight(p)
           \/ ReadCompetingBranches(p)
           \/ Restart(p)
    PROVE  CallInv'
<1>1. branchOf' = branchOf /\ branches' = branches
  BY DEF CallAddBlock, ReadMaxHeight, ReadCompetingBranches, Restart
<1>2. \A q \in Procs \ {p} :
         pc'[q] = pc[q] /\ blk'[q] = blk[q] /\ br'[q] = br[q]
  BY DEF CallAddBlock, ReadMaxHeight, ReadCompetingBranches, Restart, Goto, TypeOK
<1>3. RowIds' = RowIds
  BY <1>1 DEF RowIds
<1>4. /\ Stored' = Stored
      /\ \A c : BranchesByPrevhash(c)' = BranchesByPrevhash(c)
      /\ \A c : AboveMaxHeight(c)' <=> AboveMaxHeight(c)
  BY <1>1 DEF Stored, BranchesByPrevhash, AboveMaxHeight
<1>5. ASSUME NEW b \in Blocks, CallAddBlock(p, b)
      PROVE  CallInv'
  <2>1. pc'[p] = "height" /\ blk'[p] = b /\ br'[p] = BranchByHash(Prev[b])
    BY <1>5 DEF CallAddBlock, Goto, TypeOK
  <2>2. CallHasPredecessor(p)'
    BY <2>1, <1>4, <1>5 DEF CallHasPredecessor, CallAddBlock
  <2>3. Stored # {} => Continues(p)'
    BY <2>1, <1>1, <1>5 DEF Continues, CallAddBlock, BranchByHash
  <2>4. CallOK(p)'
    BY <2>1, <2>2, <2>3, <1>4 DEF CallOK
  <2> QED
    BY <2>1, <2>4, <1>1, <1>2, <1>3, OtherCalls
<1>6. CASE ReadMaxHeight(p)
  <2>1. /\ pc[p] = "height" /\ CallOK(p) /\ Stored # {}
        /\ blk'[p] = blk[p] /\ br'[p] = br[p]
    BY <1>6 DEF ReadMaxHeight, CallInv
  <2>2. Prev[blk[p]] \in Stored /\ blk[p] # Genesis /\ Continues(p)
    BY <2>1 DEF CallOK, Running, CallHasPredecessor
  <2>3. CallHasPredecessor(p)' /\ Continues(p)'
    BY <2>1, <2>2, <1>1, <1>4 DEF CallOK, Running, CallHasPredecessor, Continues
  <2>4. \/ pc'[p] = "competing" /\ ~AboveMaxHeight(blk[p])'
        \/ pc'[p] = "insert" /\ br'[p] = 0
        \/ pc'[p] = "restructure" /\ br'[p] # 0
    BY <1>6, <2>1, <1>4 DEF ReadMaxHeight, Goto, TypeOK
  <2>5. CallOK(p)'
    BY <2>3, <2>4 DEF CallOK
  <2>6. OnBranch(br'[p]) # {}
    BY <2>1, <2>2, UsedBranchIsNotFresh
  <2>7. \A q \in Procs : OwnsFreshBranch(q) => br'[p] # br[q]
    BY <2>6 DEF OwnsFreshBranch
  <2> QED
    BY <2>5, <2>7, <1>1, <1>2, <1>3, OtherCalls
<1>7. CASE ReadCompetingBranches(p)
  <2>1. /\ pc[p] = "competing" /\ CallOK(p)
        /\ blk'[p] = blk[p] /\ br'[p] = br[p]
    BY <1>7 DEF ReadCompetingBranches, CallInv
  <2>2. /\ Prev[blk[p]] \in Stored /\ blk[p] # Genesis /\ Continues(p)
        /\ ~AboveMaxHeight(blk[p])
    BY <2>1 DEF CallOK, Running, CallHasPredecessor
  <2>3. CallHasPredecessor(p)' /\ Continues(p)' /\ ~AboveMaxHeight(blk[p])'
    BY <2>1, <2>2, <1>1, <1>4 DEF CallOK, Running, CallHasPredecessor, Continues
  <2>4. \/ pc'[p] = "insert"
        \/ pc'[p] = "new_branch" /\ HasRival(p)'
    BY <1>7, <2>1, <2>2, <1>1, <1>4
       DEF ReadCompetingBranches, Goto, TypeOK, HasRival, Continues
  <2>5. CallOK(p)'
    BY <2>3, <2>4 DEF CallOK
  <2>6. OnBranch(br'[p]) # {}
    BY <2>1, <2>2, UsedBranchIsNotFresh
  <2>7. \A q \in Procs : OwnsFreshBranch(q) => br'[p] # br[q]
    BY <2>6 DEF OwnsFreshBranch
  <2> QED
    BY <2>5, <2>7, <1>1, <1>2, <1>3, OtherCalls
<1>8. CASE Restart(p)
  <2>1. pc'[p] = "idle"
    BY <1>8 DEF Restart, Goto, TypeOK
  <2>2. CallOK(p)'
    BY <2>1, ProgramCounters DEF CallOK
  <2> QED
    BY <2>1, <2>2, <1>1, <1>2, <1>3, OtherCalls
<1> QED
  BY <1>5, <1>6, <1>7, <1>8

------------------------------------------------------------------------------
(* The theorems *)

\* A fresh or a seeded file satisfies the invariant.
LEMMA InitIInv == Init => IInv
<1> SUFFICES ASSUME Init
             PROVE  IInv
    OBVIOUS
<1>1. TableTyped /\ StoreShape /\ BranchSpendsOnce /\ Stored \subseteq {Genesis}
  BY ShapeOfNewTable DEF Init
<1>2. TypeOK
  BY <1>1 DEF Init, TypeOK, TableTyped
<1>3. CallInv
  BY ProgramCounters DEF Init, CallInv, CallOK
<1>4. RowIds = {} /\ Len(branches) = 0
  BY DEF Init, RowIds
<1>5. \A b \in Stored : branchOf[b] = 0
  BY <1>1 DEF StoreShape, GenesisIsPrimary
<1>6. BranchRowIsTip /\ BranchNumbers
  BY <1>4, <1>5 DEF BranchRowIsTip, BranchNumbers
<1> QED
  BY <1>1, <1>2, <1>3, <1>6 DEF IInv, StoreInv

\* Every step keeps it.
LEMMA NextIInv == IInv /\ [Next]_vars => IInv'
<1> SUFFICES ASSUME IInv, [Next]_vars
             PROVE  IInv'
    OBVIOUS
<1>1. TypeOK'
  BY TypeInductive DEF IInv
<1>2. ASSUME NEW p \in Procs, NEW b \in Blocks, CallAddBlock(p, b)
      PROVE  StoreInv' /\ CallInv'
  <2>1. StoreInv'
    BY <1>2, StoreUnchanged DEF IInv, CallAddBlock
  <2> QED
    BY <1>2, <2>1, CallsAfterRead DEF IInv
<1>3. ASSUME NEW p \in Procs, Step(p)
      PROVE  StoreInv' /\ CallInv'
  <2>1. CASE CompareWithNone(p)
    BY <2>1, StoreUnchanged, CallEnds DEF IInv, CompareWithNone, Leave, Goto, Dead
  <2>2. CASE ReadMaxHeight(p)
    <3>1. StoreInv'
      BY <2>2, StoreUnchanged DEF IInv, ReadMaxHeight
    <3> QED
      BY <2>2, <3>1, CallsAfterRead DEF IInv
  <2>3. CASE RestructurePrimaryBranch(p)
    BY <2>3, StoreUnchanged, CallEnds
       DEF IInv, RestructurePrimaryBranch, Leave, Goto, Dead
  <2>4. CASE ReadCompetingBranches(p)
    <3>1. StoreInv'
      BY <2>4, StoreUnchanged DEF IInv, ReadCompetingBranches
    <3> QED
      BY <2>4, <3>1, CallsAfterRead DEF IInv
  <2>5. CASE GetNewBranchNumber(p)
    BY <2>5, StoreAfterNewBranch, CallsAfterNewBranch DEF IInv
  <2>6. CASE StatementRejected(p)
    BY <2>6, StoreUnchanged, CallEnds
       DEF IInv, StatementRejected, Leave, Goto, Dead
  <2>7. CASE InsertBlock(p)
    BY <2>7, StoreAfterInsert, CallsAfterInsert DEF IInv, CallInv
  <2>8. CASE InsertRejected(p)
    BY <2>8, StoreUnchanged, CallEnds DEF IInv, InsertRejected, Leave, Goto, Dead
  <2> QED
    BY <1>3, <2>1, <2>2, <2>3, <2>4, <2>5, <2>6, <2>7, <2>8 DEF Step
<1>4. ASSUME NEW p \in Procs, Kill(p)
      PROVE  StoreInv' /\ CallInv'
  BY <1>4, StoreUnchanged, CallEnds DEF IInv, Kill, Leave, Goto, Dead
<1>5. ASSUME NEW p \in Procs, Restart(p)
      PROVE  StoreInv' /\ CallInv'
  <2>1. StoreInv'
    BY <1>5, StoreUnchanged DEF IInv, Restart
  <2> QED
    BY <1>5, <2>1, CallsAfterRead DEF IInv
<1>6. CASE UNCHANGED vars
  <2>1. StoreInv'
    BY <1>6, StoreUnchanged DEF IInv, vars
  <2>2. CallInv'
    BY <1>6 DEF IInv, vars, CallInv, CallOK, CallHasPredecessor, Continues,
                OwnsFreshBranch, HasRival, AboveMaxHeight, BranchesByPrevhash,
                Stored, OnBranch, RowIds
  <2> QED
    BY <2>1, <2>2, <1>1 DEF IInv
<1> QED
  BY <1>1, <1>2, <1>3, <1>4, <1>5, <1>6 DEF IInv, Next

\* The invariant holds whatever the processes race on.
THEOREM Invariance == Spec => []IInv
<1> QED
  BY InitIInv, NextIInv, PTL DEF Spec

\* The tables and the locals of add_block are well typed.
THEOREM Typing == Spec => []TypeOK
<1>1. IInv => TypeOK
  BY DEF IInv
<1> QED
  BY <1>1, Invariance, PTL

\* No interleaving of add_block puts two blocks of one height on one branch.
THEOREM BranchesArePaths == Spec => []BranchIsPath
<1>1. IInv => BranchIsPath
  BY DEF IInv, StoreInv, StoreShape
<1> QED
  BY <1>1, Invariance, PTL

\* No interleaving leaves an uncle branch as the tallest one.
THEOREM UnclesStayBehind == Spec => []PrimaryIsTallest
<1>1. IInv => PrimaryIsTallest
  BY DEF IInv, StoreInv, StoreShape
<1> QED
  BY <1>1, Invariance, PTL

\* A stored block other than Genesis has a stored predecessor, and one of that
\* predecessor's children continues its branch.
THEOREM FirstChildrenContinue == Spec => []FirstChildContinues
<1>1. IInv => FirstChildContinues
  BY DEF IInv, StoreInv, StoreShape
<1> QED
  BY <1>1, Invariance, PTL

\* Table branches points at the tips of the branches in use.
THEOREM BranchRowsAreTips == Spec => []BranchRowIsTip
<1>1. IInv => BranchRowIsTip
  BY DEF IInv, StoreInv, StoreShape
<1> QED
  BY <1>1, Invariance, PTL

\* Along branch 0 no prev_hash is spent twice.
THEOREM MainChainSpendsOnce == Spec => []MainBranchSpendsOnce
<1>1. IInv => MainBranchSpendsOnce
  BY MainBranchByConstraints, TypedTable DEF IInv, StoreInv
<1> QED
  BY <1>1, Invariance, PTL

\* A step of the store is one atomic step of module BlockStore, or does not
\* touch the table of blocks.
LEMMA StepIsAtomic ==
    IInv /\ [Next]_vars => [Store!Next]_branchOf
<1> SUFFICES ASSUME IInv, [Next]_vars
             PROVE  Store!Next \/ UNCHANGED branchOf
    OBVIOUS
<1>1. ASSUME NEW p \in Procs, InsertBlock(p)
      PROVE  Store!Next
  <2>1. PICK b, n : b = blk[p] /\ n = br[p]
    OBVIOUS
  <2>2. CallOK(p) /\ pc[p] = "insert"
    BY <1>1 DEF IInv, CallInv, InsertBlock
  <2>3. /\ b \in Blocks \ {Genesis}
        /\ Prev[b] \in Stored
        /\ n \in Nat
    BY <1>1, <2>1, <2>2, InsertGoesOnTop DEF IInv, InsertBlock
  <2>4. /\ branchOf' = [branchOf EXCEPT ![b] = n]
        /\ branchOf'[b] = n
        /\ branchOf'[b] # branchOf[b]
    BY <1>1, <2>1, <2>3 DEF InsertBlock, IInv, TypeOK, Clash, Stored, Absent
  <2>5. CASE Continues(p)
    <3>1. AboveMaxHeight(b) => n = 0
      BY <2>1, <2>2 DEF CallOK, Running
    <3>2. Store!Continue(b, n)
      BY <2>1, <2>5, <3>1, SameQueries DEF Store!Continue, Continues
    <3> QED
      BY <1>1, <2>1, <2>3, <2>4, <3>2, SameQueries
         DEF InsertBlock, Store!Next, Store!Add
  <2>6. CASE ~Continues(p)
    <3>1. OwnsFreshBranch(p) /\ HasRival(p)
      BY <2>2, <2>6 DEF CallOK, Running
    <3>2. n # 0 /\ OnBranch(n) = {}
      BY <2>1, <3>1 DEF OwnsFreshBranch, RowIds, IInv, TypeOK
    <3>3. ~AboveMaxHeight(b)
      BY <2>1, <2>2, <3>2 DEF CallOK, Running
    <3>4. Store!StartBranch(b, n)
      BY <2>1, <2>3, <3>1, <3>2, <3>3, SameQueries
         DEF Store!StartBranch, Store!Rivalled, HasRival
    <3> QED
      BY <1>1, <2>1, <2>3, <2>4, <3>4, SameQueries
         DEF InsertBlock, Store!Next, Store!Add
  <2> QED
    BY <2>5, <2>6
<1> QED
  BY <1>1
     DEF Next, Step, vars, CallAddBlock, CompareWithNone, ReadMaxHeight,
         RestructurePrimaryBranch, ReadCompetingBranches, GetNewBranchNumber,
         StatementRejected, InsertRejected, Kill, Restart

\* The interleaved database transactions of add_block implement the atomic
\* step of module BlockStore.
THEOREM AddBlockIsAtomic == Spec => StoreSpec
<1>1. Init => Store!Init
  BY SameQueries DEF Init, Store!Init
<1> QED
  BY <1>1, StepIsAtomic, Invariance, PTL DEF Spec, StoreSpec, Store!Spec

\* The store implements the append-only chain of module PrimaryChain.
THEOREM PrimaryNeverDisplaced == Spec => PrimaryChainSpec
  BY AddBlockIsAtomic, StoreKeepsPrimary, PTL

\* Whatever it has read too early, a call dies only of what module StorePromises
\* tells the callers of add_block to expect: on another branch than branch 0 of
\* the swap of branches, on the branch of the predecessor of a key, and on a
\* branch of its own only after a rival has been seen next to the predecessor.
THEOREM DeathsAreForeseen == Spec => RaisesAreForeseen
<1>1. IInv /\ [Next]_vars =>
        \A p \in Procs :
           hashIsText /\ pc[p] \in Running /\ pc'[p] \in Dead \ {"Killed"}
              => AddBlockRaises(blk[p])
  <2> SUFFICES ASSUME IInv, [Next]_vars, NEW p \in Procs, hashIsText,
                      pc[p] \in Running, pc'[p] \in Dead \ {"Killed"},
                      Prev[blk[p]] \in Stored
               PROVE  \/ branchOf[Prev[blk[p]]] # 0
                      \/ Clash(blk[p], branchOf[Prev[blk[p]]])
    BY DEF AddBlockRaises
  <2>1. CallOK(p) /\ TypeOK
    BY DEF IInv, CallInv
  <2>2. PICK q \in Procs :
          \/ \E b \in Blocks : CallAddBlock(q, b)
          \/ Step(q) \/ Kill(q) \/ Restart(q)
    <3>1. pc' # pc
      BY ProgramCounters
    <3> QED
      BY <3>1 DEF Next, vars
  <2>3. /\ q = p
        /\ RestructurePrimaryBranch(p) \/ InsertRejected(p)
    <3>1. \E s : pc' = [pc EXCEPT ![q] = s]
      BY <2>2 DEF Step, CallAddBlock, CompareWithNone, ReadMaxHeight,
                  RestructurePrimaryBranch, ReadCompetingBranches,
                  GetNewBranchNumber, StatementRejected, InsertBlock,
                  InsertRejected, Kill, Restart, Leave, Goto
    <3>2. q = p
      BY <2>1, <3>1, ProgramCounters DEF TypeOK
    <3>3. pc[p] \notin Dead /\ pc'[p] \in Dead \ {"Killed"}
      BY ProgramCounters
    <3>4. ASSUME NEW s, pc' = [pc EXCEPT ![p] = s]
          PROVE  s = pc'[p]
      BY <2>1, <3>4 DEF TypeOK
    <3>5. ~Kill(p) /\ ~Restart(p) /\ \A b \in Blocks : ~CallAddBlock(p, b)
      BY <3>3, <3>4, ProgramCounters DEF Kill, Restart, CallAddBlock, Leave, Goto, Running
    <3>6. ASSUME NEW s \in Running \cup {"idle"} PROVE ~Goto(p, s)
      BY <3>3, <3>4, ProgramCounters DEF Goto, Dead
    <3>7. ~ReadMaxHeight(p) /\ ~ReadCompetingBranches(p)
      BY <3>6 DEF ReadMaxHeight, ReadCompetingBranches, Running
    <3>8. ~GetNewBranchNumber(p) /\ ~InsertBlock(p)
      BY <3>6 DEF GetNewBranchNumber, InsertBlock, Leave, Running
    <3>9. ~CompareWithNone(p) /\ ~StatementRejected(p)
      BY DEF CompareWithNone, StatementRejected
    <3> QED
      BY <2>2, <3>2, <3>5, <3>7, <3>8, <3>9 DEF Step
  <2>4. CASE RestructurePrimaryBranch(p)
    BY <2>1, <2>4 DEF RestructurePrimaryBranch, CallOK, Running, Continues
  <2>5. CASE InsertRejected(p)
    <3>1. pc[p] = "insert" /\ Clash(blk[p], br[p])
      BY <2>5 DEF InsertRejected
    <3>2. CASE Continues(p)
      BY <3>1, <3>2 DEF Continues
    <3>3. CASE HasRival(p)
      BY <3>3 DEF HasRival, BranchesByPrevhash, OnBranch, Stored, Clash
    <3> QED
      BY <2>1, <3>1, <3>2, <3>3 DEF CallOK
  <2> QED
    BY <2>3, <2>4, <2>5
<1> QED
  BY <1>1, Invariance, PTL DEF Spec, RaisesAreForeseen
==============================================================================
