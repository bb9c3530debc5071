----------------------------- MODULE Blockchain -----------------------------
(***************************************************************************)
(* The block store, crankycoin/repository/blockchain.py, as the processes  *)
(* of a full node use it: every queue worker (FullNode.worker) and every   *)
(* miner holds its own Blockchain object on one SQLite file and calls      *)
(* add_block without a common lock (blocks_lock is never taken).           *)
(*                                                                         *)
(* add_block opens a new connection per query, so it is a sequence of      *)
(* separate database transactions, and processes interleave between them.  *)
(* One action is one such database transaction with the Python that        *)
(* follows it.  An exception that add_block lets escape ends the calling   *)
(* process, because neither worker() nor mine() has a handler.             *)
(***************************************************************************)
EXTENDS StorePromises, Sequences

CONSTANTS
    Procs,        \* the processes that call add_block
    MaxBranches   \* bound: no call starts once this many branches exist

ASSUME BoundAssumption == MaxBranches \in Nat

VARIABLES
    branches,   \* table branches: row i holds the currentHash of branch i
    pc,         \* where each process is in add_block
    blk,        \* its argument, block
    br,         \* its local variable branch
    hashIsText  \* BlockHeader.hash returns text, as its docstring says; under
                \* Python 3 codecs.encode makes it return bytes instead

vars == <<branchOf, branches, pc, blk, br, hashIsText>>
locals == <<pc, blk, br>>

\* Database statements a running call still has to execute.
Running == {"height", "restructure", "competing", "new_branch", "insert"}

\* How a process can die: the exception that escaped, or a signal.
Dead == {"TypeError", "OperationalError", "AttributeError", "IntegrityError",
         "Killed"}

------------------------------------------------------------------------------
(* Queries *)

\* restructure_primary_branch walks from t to its first ancestor on branch 0 ...
ForkBase(t) ==
    CHOOSE a \in Ancestors[t] \cap OnBranch(0) :
        \A c \in Ancestors[t] \cap OnBranch(0) : Height[c] <= Height[a]

\* ... collects the blocks it passes ...
AltBranchHashes(t) ==
    {a \in Ancestors[t] : Height[a] > Height[ForkBase(t)]}

\* ... and the blocks of branch 0 from that ancestor up to t's height.
PrimaryBranchHashes(t) ==
    {c \in OnBranch(0) : Height[c] \in Height[ForkBase(t)] .. Height[t]}

\* Branches served by the last sub-query are numbered from 1: the row for
\* branch 0 is commented out of init_blockchain.sql.
RowIds == DOMAIN branches

------------------------------------------------------------------------------
(* add_block(block), one action per database transaction *)

Init ==
    /\ EmptyOrSeeded
    /\ branches = <<>>
    /\ pc = [p \in Procs |-> "idle"]
    /\ blk = [p \in Procs |-> NoBlock]
    /\ br = [p \in Procs |-> 0]
    /\ hashIsText \in BOOLEAN

\* The interpreter remains what it is.
Goto(p, step) ==
    /\ pc' = [pc EXCEPT ![p] = step]
    /\ UNCHANGED hashIsText

\* The call ends, with a return value or with the death of the process.
Leave(p, step) ==
    /\ Goto(p, step)
    /\ blk' = [blk EXCEPT ![p] = NoBlock]
    /\ br' = [br EXCEPT ![p] = 0]

\* A caller passes a block whose predecessor it has seen stored, or, finding
\* no block at all, the first one.  Whether the block itself is stored was
\* checked long before (validate_block_header), so it may be by now.
CallAddBlock(p, b) ==
    /\ pc[p] = "idle"
    /\ Len(branches) < MaxBranches
    /\ IF b = Genesis THEN Stored = {} ELSE Prev[b] \in Stored
    /\ blk' = [blk EXCEPT ![p] = b]
    /\ br' = [br EXCEPT ![p] = BranchByHash(Prev[b])]
    /\ Goto(p, "height")
    /\ UNCHANGED <<branchOf, branches>>

\* On an empty table MAX(height) is NULL and block.height > None raises.
CompareWithNone(p) ==
    /\ pc[p] = "height"
    /\ Stored = {}
    /\ Leave(p, "TypeError")
    /\ UNCHANGED <<branchOf, branches>>

\* A slip: the tallest block is inserted wherever its branch is.
NoRestructure(p) ==
    /\ pc[p] = "height"
    /\ Stored # {}
    /\ Goto(p, IF AboveMaxHeight(blk[p]) THEN "insert" ELSE "competing")
    /\ UNCHANGED <<branchOf, branches, blk, br>>

\* A slip: the main branch is restructured whenever there is another one.
RestructureIfForked(p) ==
    /\ pc[p] = "height"
    /\ Stored # {}
    /\ \/ ~AboveMaxHeight(blk[p]) /\ Goto(p, "competing")
       \/ AboveMaxHeight(blk[p]) /\ branches = <<>> /\ Goto(p, "insert")
       \/ AboveMaxHeight(blk[p]) /\ branches # <<>> /\ Goto(p, "restructure")
    /\ UNCHANGED <<branchOf, branches, blk, br>>

ReadMaxHeight(p) ==
    /\ pc[p] = "height"
    /\ Stored # {}
    /\ \/ ~AboveMaxHeight(blk[p]) /\ Goto(p, "competing")
       \/ AboveMaxHeight(blk[p]) /\ br[p] = 0 /\ Goto(p, "insert")
       \/ AboveMaxHeight(blk[p]) /\ br[p] > 0 /\ Goto(p, "restructure")
    /\ UNCHANGED <<branchOf, branches, blk, br>>

\* The hashes are joined into the IN (...) lists without quotes: SQLite
\* rejects every list that is not empty, the transaction is rolled back and
\* the exception is not in the try block of add_block.
RestructurePrimaryBranch(p) ==
    /\ pc[p] = "restructure"
    /\ \E t \in TallestBlocks(br[p]) :
          AltBranchHashes(t) \cup PrimaryBranchHashes(t) # {}
    /\ Leave(p, "OperationalError")
    /\ UNCHANGED <<branchOf, branches>>

\* A slip: every block below the tallest one opens a branch.
AlwaysNewBranch(p) ==
    /\ pc[p] = "competing"
    /\ Goto(p, "new_branch")
    /\ UNCHANGED <<branchOf, branches, blk, br>>

ReadCompetingBranches(p) ==
    /\ pc[p] = "competing"
    /\ IF br[p] \in BranchesByPrevhash(Prev[blk[p]])
       THEN Goto(p, "new_branch")
       ELSE Goto(p, "insert")
    /\ UNCHANGED <<branchOf, branches, blk, br>>

\* A slip: the number is computed, and its row written with the block only.
UncommittedBranchNumber(p) ==
    /\ pc[p] = "new_branch"
    /\ hashIsText
    /\ br' = [br EXCEPT ![p] = Len(branches) + 1]
    /\ Goto(p, "insert")
    /\ UNCHANGED <<branchOf, branches, blk>>

\* Committed on its own, before the block that is to live on the branch.
GetNewBranchNumber(p) ==
    /\ pc[p] = "new_branch"
    /\ hashIsText
    /\ branches' = Append(branches, blk[p])
    /\ br' = [br EXCEPT ![p] = Len(branches) + 1]
    /\ Goto(p, "insert")
    /\ UNCHANGED <<branchOf, blk>>

\* repr(bytes) brings quotes of its own into the statement.  SQLite rejects
\* it; the handler around the last statements then reads err.message, which no
\* Python 3 exception has.
StatementRejected(p) ==
    /\ ~hashIsText
    /\ \/ pc[p] = "new_branch" /\ Leave(p, "OperationalError")
       \/ pc[p] = "insert" /\ Leave(p, "AttributeError")
    /\ UNCHANGED <<branchOf, branches>>

\* A slip: the tip of the branch is not brought up to date.
InsertWithoutTip(p) ==
    /\ pc[p] = "insert"
    /\ hashIsText
    /\ ~Clash(blk[p], br[p])
    /\ branchOf' = [branchOf EXCEPT ![blk[p]] = br[p]]
    /\ Leave(p, "idle")
    /\ UNCHANGED branches

\* A slip: INSERT OR REPLACE.
InsertOrReplace(p) ==
    /\ pc[p] = "insert"
    /\ hashIsText
    /\ blk[p] \in Stored \/ ~Clash(blk[p], br[p])
    /\ branchOf' = [branchOf EXCEPT ![blk[p]] = br[p]]
    /\ branches' = IF br[p] \in RowIds
                   THEN [branches EXCEPT ![br[p]] = blk[p]]
                   ELSE branches
    /\ Leave(p, "idle")

\* The block, its transactions and the new tip of the branch, all or nothing.
InsertBlock(p) ==
    /\ pc[p] = "insert"
    /\ hashIsText
    /\ ~Clash(blk[p], br[p])
    /\ branchOf' = [branchOf EXCEPT ![blk[p]] = br[p]]
    /\ branches' = IF br[p] \in RowIds
                   THEN [branches EXCEPT ![br[p]] = blk[p]]
                   ELSE branches
    /\ Leave(p, "idle")

\* sqlite3.IntegrityError is not the OperationalError add_block catches.
InsertRejected(p) ==
    /\ pc[p] = "insert"
    /\ hashIsText
    /\ Clash(blk[p], br[p])
    /\ Leave(p, "IntegrityError")
    /\ UNCHANGED <<branchOf, branches>>

------------------------------------------------------------------------------
(* The processes *)

\* "mine stop", shutdown() or a database that stays locked, between any two
\* statements.
Kill(p) ==
    /\ pc[p] \in Running
    /\ Leave(p, "Killed")
    /\ UNCHANGED <<branchOf, branches>>

\* "mine start", or a start of the node.
Restart(p) ==
    /\ pc[p] \in Dead
    /\ Goto(p, "idle")
    /\ UNCHANGED <<branchOf, branches, blk, br>>

Step(p) ==
    \/ CompareWithNone(p)
    \/ ReadMaxHeight(p)
    \/ RestructurePrimaryBranch(p)
    \/ ReadCompetingBranches(p)
    \/ GetNewBranchNumber(p)
    \/ StatementRejected(p)
    \/ InsertBlock(p)
    \/ InsertRejected(p)

Next ==
    \E p \in Procs :
        \/ \E b \in Blocks : CallAddBlock(p, b)
        \/ Step(p)
        \/ Kill(p)
        \/ Restart(p)

Spec == Init /\ [][Next]_vars

------------------------------------------------------------------------------
(* Correctness *)

TypeOK ==
    /\ branchOf \in [Blocks -> Nat \cup {Absent}]
    /\ branches \in Seq(Blocks)
    /\ pc \in [Procs -> {"idle"} \cup Running \cup Dead]
    /\ blk \in [Procs -> Blocks \cup {NoBlock}]
    /\ br \in [Procs -> Nat]
    /\ hashIsText \in BOOLEAN

\* get_open_branches and prune trust table branches: a row whose branch holds
\* any block points at the highest block of that branch.
BranchRowIsTip ==
    \A n \in RowIds : OnBranch(n) # {} =>
        /\ branches[n] \in OnBranch(n)
        /\ \A b \in OnBranch(n) : Height[b] <= Height[branches[n]]

\* Under an interpreter whose hashes are text, a call dies of what module
\* StorePromises tells its callers to expect and of nothing else, however stale the
\* branch, the height and the competing branches are that it goes by.
RaisesAreForeseen ==
    [][\A p \in Procs :
          hashIsText /\ pc[p] \in Running /\ pc'[p] \in Dead \ {"Killed"}
              => AddBlockRaises(blk[p])]_vars

------------------------------------------------------------------------------
(* The inductive invariant *)

\* Every branch in use has its row.
BranchNumbers == \A b \in Stored : branchOf[b] <= Len(branches)

\* Only the first block is offered to an empty store; it never gets far.
\* Any other block has a stored predecessor.
CallHasPredecessor(p) ==
    IF blk[p] = Genesis
    THEN Stored = {} /\ pc[p] = "height"
    ELSE blk[p] \in Blocks /\ Prev[blk[p]] \in Stored

\* p is about to insert on the branch of the predecessor ...
Continues(p) == br[p] = branchOf[Prev[blk[p]]]

\* ... or on a branch number it alone has been given.
OwnsFreshBranch(p) ==
    /\ br[p] \in RowIds
    /\ OnBranch(br[p]) = {}
    /\ \A q \in Procs \ {p} : pc[q] = "insert" => br[q] # br[p]

\* A rival of the block at hand sits on the predecessor's branch.
HasRival(p) ==
    branchOf[Prev[blk[p]]] \in BranchesByPrevhash(Prev[blk[p]])

CallOK(p) == pc[p] \in Running =>
    /\ CallHasPredecessor(p)
    /\ pc[p] # "height" =>
        /\ Continues(p) \/ (pc[p] = "insert" /\ OwnsFreshBranch(p))
        /\ pc[p] = "new_branch" \/ ~Continues(p) => HasRival(p)
        /\ \/ ~AboveMaxHeight(blk[p])
           \/ pc[p] = "restructure"
           \/ pc[p] = "insert" /\ br[p] = 0
    /\ pc[p] = "height" /\ Stored # {} => Continues(p)
    /\ pc[p] = "restructure" => br[p] # 0

CallInv == \A p \in Procs : CallOK(p)

StoreInv ==
    /\ StoreShape
    /\ BranchSpendsOnce
    /\ BranchRowIsTip
    /\ BranchNumbers

IInv == TypeOK /\ StoreInv /\ CallInv

------------------------------------------------------------------------------
(* What the documents say and add_block does not do *)

\* docs/crankycoin.tex: "The node relies on the database's contraints to
\* prevent a potential double-spend."  Along the chain that ends in a stored
\* block no prev_hash is spent twice.
ChainSpendsOnce ==
    \A b \in Stored : \A c \in Ancestors[b] : ~TxClash(b, c)
==============================================================================
