----------------------------- MODULE Synchronize -----------------------------
(***************************************************************************)
(* How a node takes up blocks that a peer announces, and the blocks in     *)
(* between: BLOCK_INV in FullNode.worker, __process_block_header,          *)
(* __synchronize and __find_last_common_block of crankycoin/node.py, with  *)
(* the requests of services/api_client.py and what the peer's routes       *)
(* answer.  One action is one query or request with the Python up to the   *)
(* next one.                                                               *)
(*                                                                         *)
(* Branch 0 of the peer is a path that only grows, as is proved of it in   *)
(* BlockchainProofs; it is tallest there, so its tip's height is what      *)
(* /height/ answers.  Transactions are in BlockTree, their validation is   *)
(* in Node; a validator may refuse some blocks here.                       *)
(***************************************************************************)
EXTENDS StoreStep, Sequences

CONSTANTS
    Workers,        \* the queue workers
    MaxPeerHeight,  \* bound: how tall the peer's branch 0 grows
    PeerBlock,      \* PeerBlock[h]: the peer's block of height h
    OtherBlocks,    \* blocks of this node's miner or of other peers
    RefusedBlocks,  \* blocks that validation may refuse
    Overlap,        \* 100: blocks asked for again
    Stride,         \* 500: the heights of one round of many
    Limit,          \* 500: the heights that get_blocks_inv answers for
    MaxDepth,       \* calls of __synchronize within Python's recursion limit
    Worlds          \* the worlds, sets of circumstances, that there may be

\* What may come between a worker and the blocks.  The first four are defects
\* that the code has, whatever the state; a world without them shows what they
\* hide.
\*   route       get_block_header_by_hash of the peer calls to_dict on a tuple
\*   difficulty  calculate_hash_difficulty unpacks a list of headers
\*   columns     get_transaction_by_hash of the peer mixes up its columns: a
\*               payment so served does not verify, a coinbase follows "0"
\*   payments    a payment may end the worker: calculate_merkle_root and verify
\*               raise, and the mempool is looked up for garbage
\*   refused     the validator may refuse RefusedBlocks
\*   gone        a request to the peer may fail, at any time
\*   stops       a worker may be stopped, at any time, and started again
\*   rivals      OtherBlocks are stored, at any time, or announced by the peer
\*   pair        the workers handle announcements at the same time
Circumstances ==
    {"route", "difficulty", "columns", "payments", "refused", "gone", "stops",
     "rivals", "pair"}

PeerHeights == 1 .. MaxPeerHeight

ASSUME SynchronizeAssumption ==
    /\ MaxPeerHeight \in Nat \ {0}
    /\ PeerBlock \in [PeerHeights -> Blocks]
    /\ PeerBlock[1] = Genesis
    /\ \A h \in PeerHeights : Height[PeerBlock[h]] = h
    /\ \A h \in PeerHeights \ {1} : Prev[PeerBlock[h]] = PeerBlock[h - 1]
    /\ OtherBlocks \subseteq Blocks
    /\ \A h \in PeerHeights : PeerBlock[h] \notin OtherBlocks
    /\ RefusedBlocks \subseteq Blocks
    /\ Overlap \in Nat /\ Stride \in Nat /\ Limit \in Nat
    /\ Stride > Overlap + 1
    /\ MaxDepth \in Nat \ {0}
    /\ Worlds \subseteq SUBSET Circumstances

\* A round of many is not more than one answer of the peer; and the peer's own
\* tables hold its blocks on one branch.
ASSUME PeerAssumption ==
    /\ Stride <= Limit
    /\ \A h \in PeerHeights : ~SelfClash(PeerBlock[h])
    /\ \A g, h \in PeerHeights : g # h => ~TxClash(PeerBlock[g], PeerBlock[h])

VARIABLES
    peerHeight,   \* the height of the peer's branch 0
    pc,           \* where each worker is
    blk,          \* the block whose header it handles, or NoBlock
    frames,       \* its calls of __synchronize, the innermost last
    world         \* the circumstances of this behaviour

vars == <<branchOf, peerHeight, pc, blk, frames, world>>

\* The locals of __synchronize: current_height, end_height, the height of the
\* next of hashes_to_query, and repeat_sync.
Frames == [cur : Nat, end : Nat, next : Nat, repeat : BOOLEAN]

NewFrame == [cur |-> 0, end |-> 0, next |-> 0, repeat |-> TRUE]

StartHeight(cur) == IF cur > Overlap THEN cur - Overlap ELSE 1

Top(w) == frames[w][Len(frames[w])]
SetTop(w, f) == frames' = [frames EXCEPT ![w][Len(frames[w])] = f]

Goto(w, step) == pc' = [pc EXCEPT ![w] = step]

\* An exception ends the worker: worker() has no handler.
Die(w) ==
    /\ Goto(w, "dead")
    /\ blk' = [blk EXCEPT ![w] = NoBlock]
    /\ frames' = [frames EXCEPT ![w] = <<>>]
    /\ UNCHANGED <<branchOf, peerHeight, world>>

HasPayments(b) == \E s, t \in TxOf[b] : s # t

\* Validation may refuse b, for its header or for a transaction, or not: what
\* the node has in its mempool, and the balances, make the difference.
IsRefused(b) ==
    \/ "refused" \in world /\ b \in RefusedBlocks
    \/ "columns" \in world /\ HasPayments(b)

\* The peer serves the transactions of its branch 0 only.
FromPeer(b) == \E h \in PeerHeights : b = PeerBlock[h]

------------------------------------------------------------------------------
(* One header: worker and __process_block_header *)

\* A BLOCK_INV, of one hash that get_block_header_by_hash does not find here.
Announce(w, b) ==
    /\ pc[w] = "idle"
    /\ "pair" \notin world => \A v \in Workers : pc[v] \in {"idle", "dead"}
    /\ \/ \E h \in 1 .. peerHeight : b = PeerBlock[h]
       \/ /\ "rivals" \in world /\ b \in OtherBlocks
          /\ \E h \in 1 .. peerHeight - 1 : Prev[b] = PeerBlock[h]
    /\ b \notin Stored
    /\ Goto(w, "request")
    /\ blk' = [blk EXCEPT ![w] = b]
    /\ UNCHANGED <<branchOf, peerHeight, frames, world>>

\* request_block_header
RequestHeader(w) ==
    /\ pc[w] = "request"
    /\ "route" \notin world
    /\ Goto(w, "check")
    /\ UNCHANGED <<branchOf, peerHeight, blk, frames, world>>

\* It returns None on a status other than 200 and on a failure; hash is asked
\* of None.
NoHeader(w) ==
    /\ pc[w] = "request"
    /\ world \cap {"route", "gone"} # {}
    /\ Die(w)

\* The call of __process_block_header is over.
Return(w) ==
    /\ Goto(w, IF frames[w] = <<>> THEN "idle" ELSE "loop")
    /\ blk' = [blk EXCEPT ![w] = NoBlock]
    /\ UNCHANGED <<peerHeight, frames, world>>

\* validate_block_header returns False.
SkipHeader(w) ==
    /\ pc[w] = "check"
    /\ blk[w] \in Stored \/ IsRefused(blk[w])
    /\ Return(w)
    /\ UNCHANGED branchOf

\* request_transactions_inv returned None, of which the Merkle root is taken.
NoTransactions(w) ==
    /\ pc[w] \in {"check", "fill"}
    /\ "gone" \in world
    /\ pc[w] = "check" => blk[w] \notin Stored
    /\ Die(w)

\* Some payment raises: where the Merkle root is taken, or later.
PaymentsRaise(w) ==
    /\ pc[w] \in {"check", "fill"}
    /\ "payments" \in world /\ HasPayments(blk[w])
    /\ pc[w] = "check" => blk[w] \notin Stored
    /\ Die(w)

Unknown(w) ==
    /\ pc[w] = "check"
    /\ blk[w] \notin Stored
    /\ Prev[blk[w]] \notin Stored

\* validate_block_header returns None, and __synchronize is called.
EnterSynchronize(w) ==
    /\ Unknown(w)
    /\ Len(frames[w]) < MaxDepth
    /\ Goto(w, "height")
    /\ blk' = [blk EXCEPT ![w] = NoBlock]
    /\ frames' = [frames EXCEPT ![w] = Append(@, NewFrame)]
    /\ UNCHANGED <<branchOf, peerHeight, world>>

\* RecursionError
TooDeep(w) ==
    /\ Unknown(w)
    /\ Len(frames[w]) = MaxDepth
    /\ Die(w)

AcceptHeader(w) ==
    /\ pc[w] = "check"
    /\ blk[w] \notin Stored
    /\ Prev[blk[w]] \in Stored
    /\ "difficulty" \notin world
    /\ Goto(w, "fill")
    /\ UNCHANGED <<branchOf, peerHeight, blk, frames, world>>

DifficultyRaises(w) ==
    /\ pc[w] = "check"
    /\ blk[w] \notin Stored
    /\ Prev[blk[w]] \in Stored
    /\ "difficulty" \in world
    /\ Die(w)

\* validate_block_transactions_inv finds none of the transactions in a block,
\* and the peer serves those that are missing.
FillBlock(w) ==
    /\ pc[w] = "fill"
    /\ \A t \in TxOf[blk[w]] : ~IsStored(t)
    /\ FromPeer(blk[w])
    /\ Goto(w, "add")
    /\ UNCHANGED <<branchOf, peerHeight, blk, frames, world>>

\* validate_transaction or validate_block returns False.
RefuseBlock(w) ==
    /\ pc[w] = "fill"
    /\ IsRefused(blk[w])
    /\ Return(w)
    /\ UNCHANGED branchOf

\* It finds one, and returns one value where two are unpacked; or the peer finds
\* one on no branch 0, and request_transaction returns None.
FillRaises(w) ==
    /\ pc[w] = "fill"
    /\ (\E t \in TxOf[blk[w]] : IsStored(t)) \/ ~FromPeer(blk[w])
    /\ Die(w)

Add(w) ==
    /\ pc[w] = "add"
    /\ AddFetched(blk[w], "columns" \in world)
    /\ Return(w)

AddRaises(w) ==
    /\ pc[w] = "add"
    /\ AddFetchedRaises(blk[w], "columns" \in world)
    /\ Die(w)

------------------------------------------------------------------------------
(* Many headers: __synchronize *)

\* The call of __synchronize is over, and with it that of
\* __process_block_header that made it.
Leave(w) ==
    LET outer == SubSeq(frames[w], 1, Len(frames[w]) - 1)
    IN  /\ frames' = [frames EXCEPT ![w] = outer]
        /\ Goto(w, IF outer = <<>> THEN "idle" ELSE "loop")
        /\ UNCHANGED <<branchOf, peerHeight, blk, world>>

\* get_height, of this node
ReadHeight(w) ==
    /\ pc[w] = "height"
    /\ \E b \in Stored :
          /\ \A c \in Stored : Height[c] <= Height[b]
          /\ SetTop(w, [NewFrame EXCEPT !.cur = Height[b]])
    /\ Goto(w, "ask")
    /\ UNCHANGED <<branchOf, peerHeight, blk, world>>

\* An empty store has the height None, with which the peer's is compared.
NoHeight(w) ==
    /\ pc[w] = "height"
    /\ Stored = {}
    /\ Die(w)

\* A slip: a round ends its full stride above the current height.
EndAboveCurrent(w) ==
    /\ pc[w] = "ask"
    /\ peerHeight > Top(w).cur
    /\ LET cur == Top(w).cur
           far == cur < peerHeight - Stride
       IN  SetTop(w, [Top(w) EXCEPT
               !.end = IF far THEN cur + Stride ELSE peerHeight,
               !.repeat = far])
    /\ Goto(w, "audit")
    /\ UNCHANGED <<branchOf, peerHeight, blk, world>>

\* A slip: repeat_sync is not reset.
RepeatForEver(w) ==
    /\ pc[w] = "ask"
    /\ peerHeight > Top(w).cur
    /\ LET cur == Top(w).cur
           far == cur < peerHeight - Stride
       IN  SetTop(w, [Top(w) EXCEPT
               !.end = IF far THEN StartHeight(cur) + Stride ELSE peerHeight])
    /\ Goto(w, "audit")
    /\ UNCHANGED <<branchOf, peerHeight, blk, world>>

\* request_height
RequestHeight(w) ==
    /\ pc[w] = "ask"
    /\ peerHeight > Top(w).cur
    /\ LET cur == Top(w).cur
           far == cur < peerHeight - Stride
       IN  SetTop(w, [Top(w) EXCEPT
               !.end = IF far THEN StartHeight(cur) + Stride ELSE peerHeight,
               !.repeat = far])
    /\ Goto(w, "audit")
    /\ UNCHANGED <<branchOf, peerHeight, blk, world>>

\* The peer is not taller, or there is no answer.
NotBehind(w) ==
    /\ pc[w] = "ask"
    /\ peerHeight <= Top(w).cur \/ "gone" \in world
    /\ Leave(w)

HeightsAsked(w) == Top(w).end - StartHeight(Top(w).cur)

\* audit, which get_blocks_inv of the peer answers
Audit(w) ==
    /\ pc[w] = "audit"
    /\ HeightsAsked(w) \in 1 .. Limit
    /\ Goto(w, "find")
    /\ UNCHANGED <<branchOf, peerHeight, blk, frames, world>>

\* get_blocks_inv answers 400, so that audit returns None, over which
\* __find_last_common_block iterates.
AuditRefused(w) ==
    /\ pc[w] = "audit"
    /\ HeightsAsked(w) \notin 1 .. Limit
    /\ Die(w)

AuditFails(w) ==
    /\ pc[w] = "audit"
    /\ "gone" \in world
    /\ Die(w)

\* k is the last hash before the first one that is not stored.
IsLastCommon(w, k) ==
    /\ k \in StartHeight(Top(w).cur) .. Top(w).end
    /\ \A h \in StartHeight(Top(w).cur) .. k : PeerBlock[h] \in Stored
    /\ k < Top(w).end => PeerBlock[k + 1] \notin Stored

\* A slip: the first missing block is taken for a common one.
FindFirstMissing(w) ==
    /\ pc[w] = "find"
    /\ \E k \in PeerHeights :
          /\ IsLastCommon(w, k)
          /\ SetTop(w, [Top(w) EXCEPT !.next = k + 2])
    /\ Goto(w, "loop")
    /\ UNCHANGED <<branchOf, peerHeight, blk, world>>

\* __find_last_common_block.  What is stored stays stored, so its queries
\* together find what they would find at the time of the last.
FindLastCommon(w) ==
    /\ pc[w] = "find"
    /\ \E k \in PeerHeights :
          /\ IsLastCommon(w, k)
          /\ SetTop(w, [Top(w) EXCEPT !.next = k + 1])
    /\ Goto(w, "loop")
    /\ UNCHANGED <<branchOf, peerHeight, blk, world>>

\* "Completely out of sync with peer"
OutOfSync(w) ==
    /\ pc[w] = "find"
    /\ PeerBlock[StartHeight(Top(w).cur)] \notin Stored
    /\ Leave(w)

\* A slip: hashes_to_query is taken from its end.
NextHashFromEnd(w) ==
    /\ pc[w] = "loop"
    /\ Top(w).next <= Top(w).end
    /\ blk' = [blk EXCEPT ![w] = PeerBlock[Top(w).end]]
    /\ SetTop(w, [Top(w) EXCEPT !.end = @ - 1])
    /\ Goto(w, "request")
    /\ UNCHANGED <<branchOf, peerHeight, world>>

NextHash(w) ==
    /\ pc[w] = "loop"
    /\ Top(w).next <= Top(w).end
    /\ blk' = [blk EXCEPT ![w] = PeerBlock[Top(w).next]]
    /\ SetTop(w, [Top(w) EXCEPT !.next = @ + 1])
    /\ Goto(w, "request")
    /\ UNCHANGED <<branchOf, peerHeight, world>>

RoundDone(w) == pc[w] = "loop" /\ Top(w).next > Top(w).end

Repeat(w) ==
    /\ RoundDone(w)
    /\ Top(w).repeat
    /\ Goto(w, "height")
    /\ UNCHANGED <<branchOf, peerHeight, blk, frames, world>>

LastRoundDone(w) ==
    /\ RoundDone(w)
    /\ ~Top(w).repeat
    /\ Leave(w)

------------------------------------------------------------------------------
(* The node, and what happens around the worker *)

Step(w) ==
    \/ RequestHeader(w) \/ NoHeader(w)
    \/ SkipHeader(w) \/ NoTransactions(w) \/ PaymentsRaise(w)
    \/ EnterSynchronize(w) \/ TooDeep(w) \/ AcceptHeader(w) \/ DifficultyRaises(w)
    \/ FillBlock(w) \/ RefuseBlock(w) \/ FillRaises(w) \/ Add(w) \/ AddRaises(w)
    \/ ReadHeight(w) \/ NoHeight(w) \/ RequestHeight(w) \/ NotBehind(w)
    \/ Audit(w) \/ AuditRefused(w) \/ AuditFails(w)
    \/ FindLastCommon(w) \/ OutOfSync(w)
    \/ NextHash(w) \/ Repeat(w) \/ LastRoundDone(w)

\* shutdown() and start()
Stop(w) ==
    /\ "stops" \in world
    /\ pc[w] \notin {"idle", "dead"}
    /\ Die(w)

Start(w) ==
    /\ "stops" \in world
    /\ pc[w] = "dead"
    /\ Goto(w, "idle")
    /\ UNCHANGED <<branchOf, peerHeight, blk, frames, world>>

PeerGrows ==
    /\ peerHeight < MaxPeerHeight
    /\ peerHeight' = peerHeight + 1
    /\ UNCHANGED <<branchOf, pc, blk, frames, world>>

\* The miner, or a worker on another peer's announcement.
OtherAdds(b) ==
    /\ "rivals" \in world
    /\ AddFetched(b, b \notin OwnBlocks /\ "columns" \in world)
    /\ UNCHANGED <<peerHeight, pc, blk, frames, world>>

Init ==
    /\ EmptyOrSeeded
    /\ peerHeight \in PeerHeights
    /\ pc = [w \in Workers |-> "idle"]
    /\ blk = [w \in Workers |-> NoBlock]
    /\ frames = [w \in Workers |-> <<>>]
    /\ world \in Worlds

Next ==
    \/ PeerGrows
    \/ \E b \in OtherBlocks : OtherAdds(b)
    \/ \E w \in Workers :
          \/ \E b \in Blocks : Announce(w, b)
          \/ Step(w) \/ Stop(w) \/ Start(w)

Spec == Init /\ [][Next]_vars

\* A worker goes on for as long as it is not stopped; the peer answers.
FairSpec == Spec /\ \A w \in Workers : WF_vars(Step(w))

------------------------------------------------------------------------------
(* Correctness *)

Busy == {"request", "check", "fill", "add", "height", "ask", "audit", "find", "loop"}

InCall == {"height", "ask", "audit", "find", "loop"}

TypeOK ==
    /\ branchOf \in [Blocks -> BranchNumbers \cup {Absent}]
    /\ peerHeight \in PeerHeights
    /\ pc \in [Workers -> Busy \cup {"idle", "dead"}]
    /\ blk \in [Workers -> Blocks \cup {NoBlock}]
    /\ frames \in [Workers -> Seq(Frames)]
    /\ world \in Worlds

\* The block of height h, or one below it, may be refused.
RefusedUpTo(h) == \E g \in 1 .. h : IsRefused(PeerBlock[g])

Settled(h) == PeerBlock[h] \in Stored \/ RefusedUpTo(h)

\* A round of a synchronization leaves no gap: whatever its last common block
\* was, whatever others have stored since and however often it was called from
\* within itself, the last block of the round is stored, unless a block of the
\* peer's chain may be refused, by validate_block_header, validate_transaction
\* or validate_block.  In the last round that is the peer's tip when it was
\* asked, at or above the block whose announcement began all this.
RoundLeavesNoGap == \A w \in Workers : RoundDone(w) => Settled(Top(w).end)

\* A synchronization calls itself only if the peer's chain has a block that may
\* be refused: it then does so again and again, until the recursion limit.
NestedOnlyOnRefusal ==
    \A w \in Workers : Len(frames[w]) > 1 => RefusedUpTo(peerHeight)

\* In a build where the defects of Circumstances are mended, a worker alone with
\* a peer that answers, and whose chain passes and has no rivals, dies of one
\* thing only: of asking for more heights than get_blocks_inv answers for, by up
\* to the overlap, in its last round.  As the code is, it dies of the defects
\* long before: of every header and of every coinbase that it requests.
Quiet == world = {} /\ Stored # {}

QuietDeath ==
    [][\A w \in Workers : Quiet /\ pc[w] # "dead" /\ pc'[w] = "dead" =>
          /\ pc[w] = "audit" /\ ~Top(w).repeat
          /\ HeightsAsked(w) \in Limit + 1 .. Stride + Overlap]_vars

\* Every announcement is done with in the end, although a synchronization
\* repeats itself and calls itself.
WorkerComesBack ==
    \A w \in Workers : pc[w] \in Busy ~> pc[w] \in {"idle", "dead"}

------------------------------------------------------------------------------
(* The inductive invariant *)

PeerChainClosed ==
    \A g, h \in PeerHeights :
        g <= h /\ PeerBlock[h] \in Stored => PeerBlock[g] \in Stored

\* Up to the block before the next, or the one before that, none is left out.
FrameOK(f, done) ==
    /\ f.next \in 2 .. f.end + 1
    /\ f.end <= peerHeight
    /\ \A h \in 1 .. done : Settled(h)

\* Outer calls have handed the block before the next to an inner one.
OuterOK(w) ==
    \A i \in 1 .. Len(frames[w]) - 1 : FrameOK(frames[w][i], frames[w][i].next - 1)

HandlesHash(w) ==
    /\ FrameOK(Top(w), Top(w).next - 2)
    /\ Top(w).next > 2
    /\ blk[w] = PeerBlock[Top(w).next - 1]

WorkerOK(w) ==
    /\ pc[w] \in {"idle", "dead"} => frames[w] = <<>>
    /\ pc[w] \in {"request", "check", "fill", "add"} =>
          blk[w] \in Blocks /\ (frames[w] # <<>> => HandlesHash(w))
    /\ pc[w] \in InCall => frames[w] # <<>>
    /\ pc[w] \in {"ask", "audit", "find"} => Top(w).cur > 0
    /\ pc[w] \in {"audit", "find"} => Top(w).end \in Top(w).cur + 1 .. peerHeight
    /\ pc[w] = "loop" => FrameOK(Top(w), Top(w).next - 1)
    /\ OuterOK(w)

IInv ==
    /\ TypeOK
    /\ PeerChainClosed
    /\ NestedOnlyOnRefusal
    /\ \A w \in Workers : WorkerOK(w)

(* What QuietDeath rests on besides *)

\* What a worker knows that has the store for itself
AloneOK(w) ==
    /\ pc[w] \in {"request", "check", "fill", "add"} => FromPeer(blk[w])
    /\ pc[w] \in {"fill", "add"} => blk[w] \notin Stored /\ Prev[blk[w]] \in Stored
    /\ pc[w] = "audit" =>
          IF Top(w).repeat THEN HeightsAsked(w) = Stride
          ELSE Top(w).end <= Top(w).cur + Stride

AloneInv ==
    world = {} =>
        /\ \A b \in Stored : FromPeer(b) /\ branchOf[b] = 0
        /\ \A v, w \in Workers : pc[v] \in Busy /\ pc[w] \in Busy => v = w
        /\ \A w \in Workers : AloneOK(w)
==============================================================================
