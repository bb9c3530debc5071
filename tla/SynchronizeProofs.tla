-------------------------- MODULE SynchronizeProofs --------------------------
(***************************************************************************)
(* Theorems of Synchronize, for every set of workers and every chain of    *)
(* the peer, whatever the overlap, the stride, the limit and the recursion *)
(* limit are.                                                              *)
(***************************************************************************)
EXTENDS Synchronize, StoreProofs, SequenceTheorems

LEMMA InitIInv == Init => IInv
<1> SUFFICES ASSUME Init PROVE IInv
  OBVIOUS
<1> USE DEF Init
<1>1. branchOf \in [Blocks -> BranchNumbers \cup {Absent}] /\ Stored \subseteq {Genesis}
  BY StoreStepAssumption, BlockTreeAssumption DEF EmptyOrSeeded, Stored, Absent
<1>2. <<>> \in Seq(Frames) /\ Len(<<>>) = 0
  OBVIOUS
<1>3. TypeOK
  BY <1>1, <1>2 DEF TypeOK
<1>4. PeerChainClosed
  <2> SUFFICES ASSUME NEW g \in PeerHeights, NEW h \in PeerHeights,
                      g <= h, PeerBlock[h] \in Stored
               PROVE  PeerBlock[g] \in Stored
    BY DEF PeerChainClosed
  <2>1. h = 1
    BY <1>1, BlockTreeAssumption, SynchronizeAssumption
  <2> QED
    BY <2>1 DEF PeerHeights
<1>5. NestedOnlyOnRefusal
  BY <1>1, <1>2 DEF NestedOnlyOnRefusal
<1>6. ASSUME NEW w \in Workers PROVE WorkerOK(w)
  BY <1>2 DEF WorkerOK, InCall, OuterOK
<1> QED
  BY <1>3, <1>4, <1>5, <1>6 DEF IInv

------------------------------------------------------------------------------
(* Calls of __synchronize within one another *)

\* The innermost call is one of the frames.
LEMMA TopFrame ==
    ASSUME TypeOK, NEW w \in Workers, frames[w] # <<>>
    PROVE  /\ frames[w] \in Seq(Frames)
           /\ Len(frames[w]) \in Nat \ {0}
           /\ Top(w) \in Frames
<1>1. frames[w] \in Seq(Frames)
  BY DEF TypeOK
<1>2. Len(frames[w]) \in Nat \ {0}
  BY <1>1, EmptySeq, LenProperties
<1> QED
  BY <1>1, <1>2, LenProperties DEF Top

\* Assignments keep the locals typed.
LEMMA LocalsSet ==
    ASSUME NEW f \in Frames, NEW h \in Nat, NEW r \in BOOLEAN
    PROVE  /\ [f EXCEPT !.cur = h] \in Frames
           /\ [f EXCEPT !.cur = h].cur = h
           /\ [f EXCEPT !.end = h, !.repeat = r] \in Frames
BY DEF Frames

\* What an assignment to the locals of the innermost call changes.
LEMMA TopSet ==
    ASSUME TypeOK, NEW w \in Workers, frames[w] # <<>>,
           NEW f \in Frames, SetTop(w, f)
    PROVE  /\ frames' \in [Workers -> Seq(Frames)]
           /\ frames'[w] # <<>>
           /\ Len(frames'[w]) = Len(frames[w])
           /\ Top(w)' = f
           /\ \A i \in 1 .. Len(frames[w]) - 1 : frames'[w][i] = frames[w][i]
           /\ \A v \in Workers \ {w} : frames'[v] = frames[v]
<1> DEFINE n == Len(frames[w])
<1>1. frames[w] \in Seq(Frames) /\ n \in Nat \ {0}
  BY TopFrame
<1>2. frames'[w] = [frames[w] EXCEPT ![n] = f]
      /\ \A v \in Workers \ {w} : frames'[v] = frames[v]
  BY DEF SetTop, TypeOK
<1>3. /\ frames'[w] \in Seq(Frames)
      /\ Len(frames'[w]) = n
      /\ \A i \in 1 .. n : frames'[w][i] = IF i = n THEN f ELSE frames[w][i]
  <2> HIDE DEF n
  <2>1. n \in 1 .. Len(frames[w])
    BY <1>1 DEF n
  <2> QED
    BY <1>1, <1>2, <2>1, ExceptSeq DEF n
<1> QED
  BY <1>1, <1>2, <1>3 DEF TypeOK, SetTop, Top

\* What the end of a call leaves.
LEMMA Popped ==
    ASSUME TypeOK, NEW w \in Workers, frames[w] # <<>>,
           frames' = [frames EXCEPT ![w] = SubSeq(@, 1, Len(@) - 1)]
    PROVE  /\ frames' \in [Workers -> Seq(Frames)]
           /\ Len(frames'[w]) = Len(frames[w]) - 1
           /\ \A i \in 1 .. Len(frames[w]) - 1 : frames'[w][i] = frames[w][i]
           /\ \A v \in Workers \ {w} : frames'[v] = frames[v]
<1> DEFINE s == frames[w]
           n == Len(s) - 1
<1>1. s \in Seq(Frames) /\ Len(s) \in Nat \ {0}
  BY TopFrame
<1>2. /\ frames'[w] = SubSeq(s, 1, n)
      /\ \A v \in Workers \ {w} : frames'[v] = frames[v]
  BY DEF TypeOK
<1>3. \A i \in 1 .. n : s[i] \in Frames
  BY <1>1, LenProperties
<1>4. n \in Nat
  BY <1>1
<1>5. /\ SubSeq(s, 1, n) \in Seq(Frames)
      /\ Len(SubSeq(s, 1, n)) = IF 1 <= n THEN n - 1 + 1 ELSE 0
      /\ \A i \in 1 .. n - 1 + 1 : SubSeq(s, 1, n)[i] = s[1 + i - 1]
  <2> HIDE DEF s, n
  <2> QED
    BY <1>3, <1>4, SubSeqProperties
<1>6. /\ Len(SubSeq(s, 1, n)) = n
      /\ \A i \in 1 .. n : SubSeq(s, 1, n)[i] = s[i]
  <2> HIDE DEF s, n
  <2> QED
    BY <1>4, <1>5
<1> QED
  BY <1>2, <1>5, <1>6 DEF TypeOK

\* What a new call adds.
LEMMA Pushed ==
    ASSUME TypeOK, NEW w \in Workers, NEW f \in Frames,
           frames' = [frames EXCEPT ![w] = Append(@, f)]
    PROVE  /\ frames' \in [Workers -> Seq(Frames)]
           /\ frames'[w] # <<>>
           /\ Len(frames[w]) \in Nat
           /\ Len(frames'[w]) = Len(frames[w]) + 1
           /\ \A i \in 1 .. Len(frames[w]) : frames'[w][i] = frames[w][i]
           /\ \A v \in Workers \ {w} : frames'[v] = frames[v]
<1>1. frames[w] \in Seq(Frames)
  BY DEF TypeOK
<1>2. /\ frames'[w] = Append(frames[w], f)
      /\ \A v \in Workers \ {w} : frames'[v] = frames[v]
  BY DEF TypeOK
<1> QED
  BY <1>1, <1>2, AppendProperties, LenProperties DEF TypeOK

------------------------------------------------------------------------------
(* What others do to the store, and to the peer *)

\* One more block in the store.
LEMMA AddGrowsStore ==
    ASSUME TypeOK, NEW b \in Blocks, AddBlock(b)
    PROVE  /\ branchOf' \in [Blocks -> BranchNumbers \cup {Absent}]
           /\ Stored' = Stored \cup {b}
           /\ Prev[b] \in Stored
<1>1. PICK n \in BranchNumbers : AddOn(b, n)
  BY DEF AddBlock
<1>2. branchOf' = [branchOf EXCEPT ![b] = n] /\ Prev[b] \in Stored
  BY <1>1 DEF AddOn, Store!Add
<1>3. n # Absent
  BY StoreStepAssumption DEF Absent
<1>4. branchOf' \in [Blocks -> BranchNumbers \cup {Absent}]
  BY <1>2 DEF TypeOK
<1>5. Stored' = Stored \cup {b}
  BY <1>2, <1>3 DEF TypeOK, Stored
<1> QED
  BY <1>2, <1>4, <1>5

\* A block enters next to its predecessor, so the stored part of the peer's
\* chain stays without gaps.
LEMMA AddKeepsChainClosed ==
    ASSUME TypeOK, PeerChainClosed, NEW b \in Blocks, AddBlock(b)
    PROVE  PeerChainClosed'
<1>1. Stored' = Stored \cup {b} /\ Prev[b] \in Stored
  BY AddGrowsStore
<1> SUFFICES ASSUME NEW g \in PeerHeights, NEW h \in PeerHeights,
                    g <= h, PeerBlock[h] \in Stored'
             PROVE  PeerBlock[g] \in Stored'
  BY DEF PeerChainClosed
<1>2. CASE PeerBlock[h] \in Stored
  BY <1>1, <1>2 DEF PeerChainClosed
<1>3. CASE PeerBlock[h] = b /\ g # h
  <2>1. h \in PeerHeights \ {1} /\ h - 1 \in PeerHeights /\ g <= h - 1
    BY <1>3, SynchronizeAssumption DEF PeerHeights
  <2>2. PeerBlock[h - 1] \in Stored
    BY <1>1, <1>3, <2>1, SynchronizeAssumption
  <2> QED
    BY <1>1, <2>1, <2>2 DEF PeerChainClosed
<1> QED
  BY <1>1, <1>2, <1>3

\* Neither a growing store nor a growing peer disturbs a worker.
LEMMA WorkerUntouched ==
    ASSUME IInv, NEW w \in Workers,
           Stored \subseteq Stored', peerHeight' >= peerHeight,
           peerHeight' \in PeerHeights, world' = world,
           pc'[w] = pc[w], blk'[w] = blk[w], frames'[w] = frames[w]
    PROVE  WorkerOK(w)'
<1>1. WorkerOK(w) /\ TypeOK
  BY DEF IInv
<1>2. peerHeight \in Int /\ peerHeight' \in Int
  BY DEF IInv, TypeOK, PeerHeights
<1>3. ASSUME NEW h, Settled(h) PROVE Settled(h)'
  BY <1>3 DEF Settled, RefusedUpTo, IsRefused
<1>4. Top(w)' = Top(w)
  BY DEF Top
<1>5. ASSUME NEW f \in Frames, NEW done, FrameOK(f, done) PROVE FrameOK(f, done)'
  BY <1>2, <1>3, <1>5 DEF FrameOK, Frames
<1>6. frames[w] \in Seq(Frames) /\ frames'[w] \in Seq(Frames)
  BY DEF IInv, TypeOK
<1>7. OuterOK(w)'
  <2> SUFFICES ASSUME NEW i \in 1 .. Len(frames[w]) - 1
               PROVE  FrameOK(frames[w][i], frames[w][i].next - 1)'
    BY DEF OuterOK
  <2>1. frames[w][i] \in Frames
    BY <1>6, LenProperties
  <2> QED
    BY <1>1, <1>5, <2>1 DEF OuterOK, WorkerOK
<1>8. frames[w] # <<>> /\ HandlesHash(w) => HandlesHash(w)'
  BY <1>1, <1>4, <1>5, TopFrame DEF HandlesHash
<1>9. pc[w] = "loop" => FrameOK(Top(w), Top(w).next - 1)'
  BY <1>1, <1>4, <1>5, TopFrame DEF WorkerOK, InCall
<1>10. pc[w] \in {"audit", "find"} => Top(w).end \in Top(w).cur + 1 .. peerHeight'
  <2> SUFFICES ASSUME pc[w] \in {"audit", "find"}
               PROVE  Top(w).end \in Top(w).cur + 1 .. peerHeight'
    OBVIOUS
  <2>1. Top(w) \in Frames /\ Top(w).end \in Top(w).cur + 1 .. peerHeight
    BY <1>1, TopFrame DEF WorkerOK, InCall
  <2> QED
    BY <1>2, <2>1 DEF Frames
<1> QED
  BY <1>1, <1>4, <1>7, <1>8, <1>9, <1>10 DEF WorkerOK

LEMMA RefusedBelow ==
    ASSUME NEW g \in Nat, NEW h \in Nat, g <= h, RefusedUpTo(g)
    PROVE  RefusedUpTo(h)
BY DEF RefusedUpTo

LEMMA PeerGrowsKeepsIInv ==
    ASSUME IInv, PeerGrows
    PROVE  IInv'
<1> USE DEF PeerGrows
<1>1. TypeOK' /\ peerHeight' >= peerHeight
  BY SynchronizeAssumption DEF IInv, TypeOK, PeerHeights
<1>2. PeerChainClosed'
  BY DEF IInv, PeerChainClosed, Stored
<1>3. NestedOnlyOnRefusal'
  <2> SUFFICES ASSUME NEW w \in Workers, Len(frames[w]) > 1
               PROVE  RefusedUpTo(peerHeight)'
    BY DEF NestedOnlyOnRefusal
  <2>1. RefusedUpTo(peerHeight)
    BY DEF IInv, NestedOnlyOnRefusal
  <2> QED
    BY <1>1, <2>1 DEF RefusedUpTo, IsRefused, TypeOK, PeerHeights, IInv
<1>4. ASSUME NEW w \in Workers PROVE WorkerOK(w)'
  BY <1>1, WorkerUntouched DEF TypeOK, Stored
<1> QED
  BY <1>1, <1>2, <1>3, <1>4 DEF IInv

LEMMA OtherAddsKeepsIInv ==
    ASSUME IInv, NEW b \in OtherBlocks, OtherAdds(b)
    PROVE  IInv'
<1> USE DEF OtherAdds
<1>1. b \in Blocks /\ TypeOK /\ AddBlock(b)
  BY SynchronizeAssumption DEF IInv, AddFetched, AddBlock
<1>2. /\ branchOf' \in [Blocks -> BranchNumbers \cup {Absent}]
      /\ Stored' = Stored \cup {b}
  BY <1>1, AddGrowsStore
<1>3. TypeOK'
  BY <1>1, <1>2 DEF TypeOK
<1>4. PeerChainClosed'
  BY <1>1, AddKeepsChainClosed DEF IInv
<1>5. NestedOnlyOnRefusal'
  BY <1>2 DEF IInv, NestedOnlyOnRefusal, RefusedUpTo, IsRefused
<1>6. ASSUME NEW w \in Workers PROVE WorkerOK(w)'
  BY <1>2, <1>3, WorkerUntouched DEF TypeOK, PeerHeights
<1> QED
  BY <1>3, <1>4, <1>5, <1>6 DEF IInv

\* Steps of w that leave the other workers alone.
OthersUntouched(w) ==
    \A v \in Workers \ {w} :
        pc'[v] = pc[v] /\ blk'[v] = blk[v] /\ frames'[v] = frames[v]

\* What is left to show of a step of w that leaves the store and the peer alone.
LEMMA LocalStep ==
    ASSUME IInv, NEW w \in Workers, UNCHANGED <<branchOf, peerHeight, world>>,
           TypeOK', OthersUntouched(w), WorkerOK(w)',
           Len(frames'[w]) > 1 => RefusedUpTo(peerHeight)
    PROVE  IInv'
<1>1. PeerChainClosed'
  BY DEF IInv, PeerChainClosed, Stored
<1>2. NestedOnlyOnRefusal'
  BY DEF IInv, NestedOnlyOnRefusal, RefusedUpTo, IsRefused, OthersUntouched
<1>3. ASSUME NEW v \in Workers \ {w} PROVE WorkerOK(v)'
  BY <1>3, WorkerUntouched DEF IInv, TypeOK, Stored, OthersUntouched, PeerHeights
<1> QED
  BY <1>1, <1>2, <1>3 DEF IInv

\* An exception empties the worker's stack.
LEMMA DieKeepsIInv ==
    ASSUME IInv, NEW w \in Workers, Die(w)
    PROVE  IInv'
<1> USE DEF Die, Goto
<1>1. TypeOK
  BY DEF IInv
<1>2. <<>> \in Seq(Frames) /\ Len(<<>>) = 0
  OBVIOUS
<1>3. pc'[w] = "dead" /\ blk'[w] = NoBlock /\ frames'[w] = <<>>
  BY <1>1 DEF TypeOK
<1>4. TypeOK'
  BY <1>1, <1>2 DEF TypeOK, Busy
<1>5. WorkerOK(w)'
  BY <1>2, <1>3 DEF WorkerOK, OuterOK, InCall
<1>6. OthersUntouched(w)
  BY <1>1 DEF TypeOK, OthersUntouched
<1> QED
  BY <1>2, <1>3, <1>4, <1>5, <1>6, LocalStep

\* The exceptions that there are.
LEMMA RaisingKeepsIInv ==
    ASSUME IInv, NEW w \in Workers,
           \/ NoHeader(w) \/ NoTransactions(w) \/ PaymentsRaise(w) \/ TooDeep(w)
           \/ DifficultyRaises(w) \/ FillRaises(w) \/ AddRaises(w) \/ NoHeight(w)
           \/ AuditRefused(w) \/ AuditFails(w) \/ Stop(w)
    PROVE  IInv'
BY DieKeepsIInv
   DEF NoHeader, NoTransactions, PaymentsRaise, TooDeep, DifficultyRaises,
       FillRaises, AddRaises, NoHeight, AuditRefused, AuditFails, Stop

------------------------------------------------------------------------------
(* One header *)

LEMMA AnnounceKeepsIInv ==
    ASSUME IInv, NEW w \in Workers, NEW b \in Blocks, Announce(w, b)
    PROVE  IInv'
<1> USE DEF Announce, Goto
<1>1. TypeOK /\ WorkerOK(w) /\ frames[w] = <<>>
  BY DEF IInv, WorkerOK
<1>2. Len(frames[w]) = 0
  BY <1>1
<1>3. pc'[w] = "request" /\ blk'[w] = b
  BY <1>1 DEF TypeOK
<1>4. TypeOK'
  BY <1>1 DEF TypeOK, Busy
<1>5. WorkerOK(w)'
  BY <1>1, <1>2, <1>3 DEF WorkerOK, OuterOK, InCall
<1>6. OthersUntouched(w)
  BY <1>1 DEF TypeOK, OthersUntouched
<1> QED
  BY <1>2, <1>4, <1>5, <1>6, LocalStep

LEMMA StartKeepsIInv ==
    ASSUME IInv, NEW w \in Workers, Start(w)
    PROVE  IInv'
<1> USE DEF Start, Goto
<1>1. TypeOK /\ WorkerOK(w) /\ frames[w] = <<>>
  BY DEF IInv, WorkerOK
<1>2. Len(frames[w]) = 0
  BY <1>1
<1>3. pc'[w] = "idle"
  BY <1>1 DEF TypeOK
<1>4. TypeOK'
  BY <1>1 DEF TypeOK, Busy
<1>5. WorkerOK(w)'
  BY <1>1, <1>2, <1>3 DEF WorkerOK, OuterOK, InCall
<1>6. OthersUntouched(w)
  BY <1>1 DEF TypeOK, OthersUntouched
<1> QED
  BY <1>2, <1>4, <1>5, <1>6, LocalStep

\* Frames stay what they are when only the place of a worker changes.
LEMMA FramesUntouched ==
    ASSUME IInv, NEW w \in Workers,
           UNCHANGED <<branchOf, peerHeight, frames, world>>
    PROVE  /\ Top(w)' = Top(w)
           /\ OuterOK(w)'
           /\ \A f, done : FrameOK(f, done) => FrameOK(f, done)'
           /\ Len(frames'[w]) > 1 => RefusedUpTo(peerHeight)
BY DEF Top, IInv, WorkerOK, OuterOK, FrameOK, Settled, RefusedUpTo, IsRefused,
       Stored, NestedOnlyOnRefusal

LEMMA CheckingKeepsIInv ==
    ASSUME IInv, NEW w \in Workers,
           RequestHeader(w) \/ AcceptHeader(w) \/ FillBlock(w)
    PROVE  IInv'
<1> USE DEF RequestHeader, AcceptHeader, FillBlock, Goto
<1>1. TypeOK /\ WorkerOK(w)
  BY DEF IInv
<1>2. /\ pc[w] \in {"request", "check", "fill"}
      /\ pc'[w] \in {"check", "fill", "add"}
  BY <1>1 DEF TypeOK, WorkerOK
<1>3. TypeOK'
  BY <1>1 DEF TypeOK, Busy
<1>4. HandlesHash(w) => HandlesHash(w)'
  BY FramesUntouched DEF HandlesHash
<1>5. WorkerOK(w)'
  BY <1>1, <1>2, <1>4, FramesUntouched DEF WorkerOK, InCall
<1>6. OthersUntouched(w)
  BY <1>1 DEF TypeOK, OthersUntouched
<1> QED
  BY <1>3, <1>5, <1>6, LocalStep, FramesUntouched

\* A call of __process_block_header that returns has settled its block.
LEMMA ReturnFromHeader ==
    ASSUME TypeOK', IInv, NEW w \in Workers,
           pc[w] \in {"check", "fill", "add"}, Return(w), Stored \subseteq Stored',
           blk[w] \in Stored' \/ IsRefused(blk[w])
    PROVE  WorkerOK(w)'
<1> USE DEF Return, Goto
<1>1. TypeOK /\ WorkerOK(w)
  BY DEF IInv
<1>2. /\ pc'[w] = IF frames[w] = <<>> THEN "idle" ELSE "loop"
      /\ frames'[w] = frames[w]
      /\ Top(w)' = Top(w)
  BY <1>1 DEF TypeOK, Top
<1>3. ASSUME NEW h, Settled(h) PROVE Settled(h)'
  BY <1>3 DEF Settled, RefusedUpTo, IsRefused
<1>4. ASSUME NEW f, NEW done, FrameOK(f, done) PROVE FrameOK(f, done)'
  BY <1>3, <1>4 DEF FrameOK
<1>5. OuterOK(w)'
  BY <1>1, <1>2, <1>4 DEF WorkerOK, OuterOK
<1>6. frames[w] # <<>> => FrameOK(Top(w), Top(w).next - 1)'
  <2> SUFFICES ASSUME frames[w] # <<>>
               PROVE  FrameOK(Top(w), Top(w).next - 1)'
    OBVIOUS
  <2>1. Top(w) \in Frames /\ HandlesHash(w)
    BY <1>1, TopFrame DEF WorkerOK, Frames
  <2>2. PICK n \in Nat : n = Top(w).next
    BY <2>1 DEF Frames
  <2>3. FrameOK(Top(w), n - 2)' /\ blk[w] = PeerBlock[n - 1] /\ n > 2
    BY <1>2, <1>4, <2>2, <2>1 DEF HandlesHash
  <2>4. Settled(n - 1)'
    BY <2>3 DEF Settled, RefusedUpTo, IsRefused
  <2>5. \A h \in 1 .. n - 1 : Settled(h)'
    BY <2>3, <2>4 DEF FrameOK
  <2> QED
    BY <1>2, <2>2, <2>3, <2>5 DEF FrameOK
<1> QED
  BY <1>2, <1>5, <1>6 DEF WorkerOK, InCall

LEMMA SkippingKeepsIInv ==
    ASSUME IInv, NEW w \in Workers, SkipHeader(w) \/ RefuseBlock(w)
    PROVE  IInv'
<1> USE DEF SkipHeader, RefuseBlock
<1>1. TypeOK /\ Stored' = Stored
  BY DEF IInv, Stored
<1>2. TypeOK' /\ OthersUntouched(w)
  BY <1>1 DEF Return, Goto, TypeOK, OthersUntouched, Busy
<1>3. WorkerOK(w)'
  BY <1>1, <1>2, ReturnFromHeader
<1>4. Len(frames'[w]) > 1 => RefusedUpTo(peerHeight)
  BY DEF Return, IInv, NestedOnlyOnRefusal
<1> QED
  BY <1>2, <1>3, <1>4, LocalStep DEF Return

LEMMA AddKeepsIInv ==
    ASSUME IInv, NEW w \in Workers, Add(w)
    PROVE  IInv'
<1> USE DEF Add
<1>1. TypeOK /\ WorkerOK(w) /\ blk[w] \in Blocks /\ AddBlock(blk[w])
  BY DEF IInv, WorkerOK, AddFetched, AddBlock
<1>2. /\ branchOf' \in [Blocks -> BranchNumbers \cup {Absent}]
      /\ Stored' = Stored \cup {blk[w]}
  BY <1>1, AddGrowsStore
<1>3. TypeOK' /\ OthersUntouched(w)
  BY <1>1, <1>2 DEF Return, Goto, TypeOK, OthersUntouched, Busy
<1>4. PeerChainClosed'
  BY <1>1, AddKeepsChainClosed DEF IInv
<1>5. NestedOnlyOnRefusal'
  BY DEF Return, IInv, NestedOnlyOnRefusal, RefusedUpTo, IsRefused
<1>6. WorkerOK(w)'
  BY <1>2, <1>3, ReturnFromHeader
<1>7. ASSUME NEW v \in Workers \ {w} PROVE WorkerOK(v)'
  BY <1>2, <1>3, <1>7, WorkerUntouched
     DEF OthersUntouched, Return, TypeOK, PeerHeights
<1> QED
  BY <1>3, <1>4, <1>5, <1>6, <1>7 DEF IInv

\* The predecessor of a hash that was asked for is unknown only if a lower block
\* of the peer is refused.
LEMMA UnknownMeansRefusal ==
    ASSUME IInv, NEW w \in Workers, Unknown(w), frames[w] # <<>>
    PROVE  FrameOK(Top(w), Top(w).next - 1) /\ RefusedUpTo(peerHeight)
<1> DEFINE n == Top(w).next
           e == Top(w).end
<1>1. Top(w) \in Frames /\ HandlesHash(w) /\ n \in Nat /\ e \in Nat
  BY TopFrame DEF IInv, WorkerOK, Unknown, Frames
<1>2. FrameOK(Top(w), n - 2) /\ blk[w] = PeerBlock[n - 1] /\ n > 2
  BY <1>1 DEF HandlesHash
<1>3. peerHeight \in PeerHeights
  BY DEF IInv, TypeOK
<1>4. n - 1 <= peerHeight /\ n - 1 \in PeerHeights \ {1}
  <2>1. n <= e + 1 /\ e <= peerHeight
    BY <1>2 DEF FrameOK
  <2>2. peerHeight \in Nat /\ peerHeight <= MaxPeerHeight /\ MaxPeerHeight \in Nat
    BY <1>3, SynchronizeAssumption DEF PeerHeights
  <2>3. n - 1 <= peerHeight
    BY <1>1, <2>1, <2>2
  <2> QED
    BY <1>1, <1>2, <2>2, <2>3 DEF PeerHeights
<1>5. PeerBlock[n - 2] \notin Stored
  <2>1. Prev[PeerBlock[n - 1]] = PeerBlock[(n - 1) - 1]
    BY <1>4, SynchronizeAssumption
  <2>2. (n - 1) - 1 = n - 2
    BY <1>1
  <2> QED
    BY <1>2, <2>1, <2>2 DEF Unknown
<1>6. RefusedUpTo(n - 2)
  BY <1>1, <1>2, <1>5 DEF FrameOK, Settled
<1>7. RefusedUpTo(n - 1) /\ RefusedUpTo(peerHeight)
  BY <1>1, <1>2, <1>3, <1>4, <1>6, RefusedBelow DEF PeerHeights
<1> HIDE DEF n
<1>8. \A h \in 1 .. n - 1 : Settled(h)
  BY <1>1, <1>2, <1>7 DEF FrameOK, Settled
<1> QED
  BY <1>2, <1>7, <1>8 DEF FrameOK, n

\* The outer call has handed on a block that it settles.
LEMMA EnterSynchronizeKeepsIInv ==
    ASSUME IInv, NEW w \in Workers, EnterSynchronize(w)
    PROVE  IInv'
<1> USE DEF EnterSynchronize, Unknown, Goto
<1> DEFINE k == Len(frames[w])
<1>1. TypeOK /\ WorkerOK(w)
  BY DEF IInv
<1>2. NewFrame \in Frames
  BY DEF NewFrame, Frames
<1>3. pc'[w] = "height" /\ blk'[w] = NoBlock
  BY <1>1 DEF TypeOK
<1>4. TypeOK'
  BY <1>1, <1>2, Pushed DEF TypeOK, Busy
<1>5. OthersUntouched(w)
  BY <1>1, <1>2, Pushed DEF TypeOK, OthersUntouched
<1>6. frames[w] # <<>> =>
         FrameOK(Top(w), Top(w).next - 1) /\ RefusedUpTo(peerHeight)
  BY UnknownMeansRefusal
<1>7. OuterOK(w)'
  <2>1. k \in Nat /\ Len(frames'[w]) = k + 1
    BY <1>1, <1>2, Pushed
  <2> SUFFICES ASSUME NEW i \in 1 .. k
               PROVE  FrameOK(frames[w][i], frames[w][i].next - 1)'
    BY <1>1, <1>2, <2>1, Pushed DEF OuterOK
  <2>2. FrameOK(frames[w][i], frames[w][i].next - 1)
    <3>1. CASE i = k
      BY <1>6, <2>1, <3>1, EmptySeq DEF Top
    <3>2. CASE i # k
      BY <1>1, <2>1, <3>2 DEF WorkerOK, OuterOK
    <3> QED
      BY <3>1, <3>2
  <2> QED
    BY <2>2 DEF FrameOK, Settled, RefusedUpTo, IsRefused, Stored
<1>8. Len(frames'[w]) > 1 => RefusedUpTo(peerHeight)
  BY <1>1, <1>2, <1>6, Pushed, EmptySeq
<1>9. WorkerOK(w)'
  BY <1>1, <1>2, <1>3, <1>7, Pushed DEF WorkerOK, InCall
<1> QED
  BY <1>4, <1>5, <1>8, <1>9, LocalStep

------------------------------------------------------------------------------
(* Many headers *)

\* What is left to show of a step of w that changes the locals of its innermost
\* call.
LEMMA TopStep ==
    ASSUME IInv, NEW w \in Workers, frames[w] # <<>>,
           NEW f \in Frames, SetTop(w, f),
           UNCHANGED <<branchOf, peerHeight, world>>,
           pc' \in [Workers -> Busy \cup {"idle", "dead"}],
           blk' \in [Workers -> Blocks \cup {NoBlock}],
           \A v \in Workers \ {w} : pc'[v] = pc[v] /\ blk'[v] = blk[v],
           OuterOK(w)' => WorkerOK(w)'
    PROVE  IInv'
<1>1. TypeOK /\ WorkerOK(w)
  BY DEF IInv
<1>2. TypeOK'
  BY <1>1, TopSet DEF TypeOK
<1>3. OthersUntouched(w)
  BY <1>1, TopSet DEF OthersUntouched
<1>4. OuterOK(w)'
  BY <1>1, TopSet
     DEF WorkerOK, OuterOK, FrameOK, Settled, RefusedUpTo, IsRefused, Stored
<1>5. Len(frames'[w]) > 1 => RefusedUpTo(peerHeight)
  BY <1>1, TopSet DEF IInv, NestedOnlyOnRefusal
<1> QED
  BY <1>2, <1>3, <1>4, <1>5, LocalStep

LEMMA ReadHeightKeepsIInv ==
    ASSUME IInv, NEW w \in Workers, ReadHeight(w)
    PROVE  IInv'
<1> USE DEF Goto
<1>1. TypeOK /\ WorkerOK(w) /\ frames[w] # <<>> /\ pc[w] = "height"
  BY DEF IInv, WorkerOK, InCall, ReadHeight
<1>2. PICK b \in Stored : SetTop(w, [NewFrame EXCEPT !.cur = Height[b]])
  BY DEF ReadHeight
<1> DEFINE f == [NewFrame EXCEPT !.cur = Height[b]]
<1>3. f \in Frames /\ f.cur > 0
  <2>1. PICK h \in Nat \ {0} : h = Height[b]
    BY BlockTreeAssumption DEF Stored
  <2>2. NewFrame \in Frames
    BY DEF NewFrame, Frames
  <2>3. f = [NewFrame EXCEPT !.cur = h]
    BY <2>1
  <2>4. h \in Nat /\ h > 0
    OBVIOUS
  <2>5. /\ [NewFrame EXCEPT !.cur = h] \in Frames
        /\ [NewFrame EXCEPT !.cur = h].cur = h
    BY <2>2, <2>4, LocalsSet
  <2> HIDE DEF f
  <2> QED
    BY <2>3, <2>4, <2>5
<1>4. Top(w)' = f /\ frames'[w] # <<>>
  <2> HIDE DEF f
  <2> QED
    BY <1>1, <1>2, <1>3, TopSet DEF f
<1>5. /\ pc' \in [Workers -> Busy \cup {"idle", "dead"}]
      /\ blk' \in [Workers -> Blocks \cup {NoBlock}]
      /\ pc'[w] = "ask"
      /\ \A v \in Workers \ {w} : pc'[v] = pc[v] /\ blk'[v] = blk[v]
  BY <1>1 DEF TypeOK, ReadHeight, Busy
<1>6. OuterOK(w)' => WorkerOK(w)'
  <2> HIDE DEF f
  <2> QED
    BY <1>1, <1>3, <1>4, <1>5 DEF WorkerOK, InCall, ReadHeight
<1> HIDE DEF f
<1> QED
  BY <1>1, <1>2, <1>3, <1>5, <1>6, TopStep DEF f, ReadHeight

\* A round ends above the current height and not above the peer's.
LEMMA RequestHeightKeepsIInv ==
    ASSUME IInv, NEW w \in Workers, RequestHeight(w)
    PROVE  IInv'
<1> USE DEF Goto
<1>1. TypeOK /\ WorkerOK(w) /\ frames[w] # <<>> /\ pc[w] = "ask"
  BY DEF IInv, WorkerOK, InCall, RequestHeight
<1> DEFINE cur == Top(w).cur
           far == cur < peerHeight - Stride
           f == [Top(w) EXCEPT
                   !.end = IF far THEN StartHeight(cur) + Stride ELSE peerHeight,
                   !.repeat = far]
<1>2. Top(w) \in Frames /\ cur \in Nat /\ cur > 0
  BY <1>1, TopFrame DEF WorkerOK, Frames
<1>3. peerHeight \in Nat /\ peerHeight > cur
  BY <1>1 DEF TypeOK, PeerHeights, RequestHeight
<1>4. StartHeight(cur) \in Nat /\ Stride \in Nat
  BY <1>2, SynchronizeAssumption DEF StartHeight
<1>5. f \in Frames
  <2> DEFINE e == IF far THEN StartHeight(cur) + Stride ELSE peerHeight
  <2>1. e \in Nat
    BY <1>3, <1>4
  <2>2. far \in BOOLEAN
    OBVIOUS
  <2>3. f = [Top(w) EXCEPT !.end = e, !.repeat = far]
    OBVIOUS
  <2> HIDE DEF f, far, e
  <2> QED
    BY <1>2, <2>1, <2>2, <2>3, LocalsSet
<1>6. f.end \in cur + 1 .. peerHeight /\ f.cur = cur
  <2>1. f.cur = cur /\ f.end = IF far THEN StartHeight(cur) + Stride ELSE peerHeight
    BY <1>2 DEF Frames
  <2> HIDE DEF f, cur
  <2> QED
    BY <2>1, <1>2, <1>3, SynchronizeAssumption DEF StartHeight
<1> HIDE DEF f
<1>7. SetTop(w, f)
  BY DEF f, RequestHeight
<1>8. Top(w)' = f /\ frames'[w] # <<>>
  BY <1>1, <1>5, <1>7, TopSet
<1>9. /\ pc' \in [Workers -> Busy \cup {"idle", "dead"}]
      /\ blk' \in [Workers -> Blocks \cup {NoBlock}]
      /\ pc'[w] = "audit"
      /\ \A v \in Workers \ {w} : pc'[v] = pc[v] /\ blk'[v] = blk[v]
  BY <1>1 DEF TypeOK, RequestHeight, Busy
<1>10. OuterOK(w)' => WorkerOK(w)'
  <2>1. f.cur > 0 /\ peerHeight' = peerHeight /\ world' = world
    BY <1>2, <1>6 DEF RequestHeight
  <2>2. f.end \in f.cur + 1 .. peerHeight
    BY <1>6
  <2> QED
    BY <1>1, <1>8, <1>9, <2>1, <2>2 DEF WorkerOK, InCall
<1> QED
  BY <1>1, <1>5, <1>7, <1>9, <1>10, TopStep DEF RequestHeight

LEMMA AuditKeepsIInv ==
    ASSUME IInv, NEW w \in Workers, Audit(w)
    PROVE  IInv'
<1> USE DEF Audit, Goto
<1>1. TypeOK /\ WorkerOK(w) /\ pc'[w] = "find"
  BY DEF IInv, TypeOK
<1>2. TypeOK' /\ OthersUntouched(w)
  BY <1>1 DEF TypeOK, Busy, OthersUntouched
<1>3. WorkerOK(w)'
  BY <1>1, FramesUntouched DEF WorkerOK, InCall
<1> QED
  BY <1>2, <1>3, LocalStep, FramesUntouched

\* Below a common block nothing is left out.
LEMMA FindLastCommonKeepsIInv ==
    ASSUME IInv, NEW w \in Workers, FindLastCommon(w)
    PROVE  IInv'
<1> USE DEF Goto
<1>1. TypeOK /\ WorkerOK(w) /\ frames[w] # <<>> /\ pc[w] = "find"
  BY DEF IInv, WorkerOK, InCall, FindLastCommon
<1>2. PICK k \in PeerHeights :
          IsLastCommon(w, k) /\ SetTop(w, [Top(w) EXCEPT !.next = k + 1])
  BY DEF FindLastCommon
<1> DEFINE f == [Top(w) EXCEPT !.next = k + 1]
<1>3. Top(w) \in Frames /\ k \in Nat /\ peerHeight \in Nat
  BY <1>1, TopFrame DEF TypeOK, PeerHeights
<1>4. f \in Frames /\ f.next = k + 1 /\ f.end = Top(w).end
  BY <1>3 DEF Frames
<1>5. Top(w).cur \in Nat /\ Top(w).end \in Nat
  BY <1>3 DEF Frames
<1>6. StartHeight(Top(w).cur) \in Nat \ {0}
  BY <1>5, SynchronizeAssumption DEF StartHeight
<1>7. /\ 1 <= k /\ k <= Top(w).end /\ Top(w).end <= peerHeight
      /\ PeerBlock[k] \in Stored
  BY <1>1, <1>2, <1>3, <1>5, <1>6 DEF WorkerOK, IsLastCommon
<1>8. \A h \in 1 .. k : Settled(h)
  <2> SUFFICES ASSUME NEW h \in 1 .. k PROVE PeerBlock[h] \in Stored
    BY DEF Settled
  <2>1. h \in PeerHeights /\ h <= k
    BY SynchronizeAssumption DEF PeerHeights
  <2> QED
    BY <1>7, <2>1 DEF IInv, PeerChainClosed
<1>9. FrameOK(f, k)
  <2> HIDE DEF f
  <2> QED
    BY <1>3, <1>4, <1>5, <1>7, <1>8 DEF FrameOK
<1> HIDE DEF f
<1>10. Top(w)' = f /\ frames'[w] # <<>> /\ SetTop(w, f)
  BY <1>1, <1>2, <1>4, TopSet DEF f
<1>11. /\ pc' \in [Workers -> Busy \cup {"idle", "dead"}]
       /\ blk' \in [Workers -> Blocks \cup {NoBlock}]
       /\ pc'[w] = "loop"
       /\ \A v \in Workers \ {w} : pc'[v] = pc[v] /\ blk'[v] = blk[v]
  BY <1>1 DEF TypeOK, FindLastCommon, Busy
<1>12. FrameOK(Top(w), Top(w).next - 1)'
  <2>1. Top(w)'.next - 1 = k
    BY <1>3, <1>4, <1>10
  <2> QED
    BY <1>9, <1>10, <2>1
       DEF FrameOK, FindLastCommon, Settled, RefusedUpTo, IsRefused, Stored
<1>13. OuterOK(w)' => WorkerOK(w)'
  BY <1>1, <1>10, <1>11, <1>12 DEF WorkerOK, InCall, FindLastCommon
<1> QED
  BY <1>1, <1>4, <1>10, <1>11, <1>13, TopStep DEF FindLastCommon

LEMMA NextHashKeepsIInv ==
    ASSUME IInv, NEW w \in Workers, NextHash(w)
    PROVE  IInv'
<1> USE DEF Goto
<1>1. TypeOK /\ WorkerOK(w) /\ frames[w] # <<>> /\ pc[w] = "loop"
  BY DEF IInv, WorkerOK, InCall, NextHash
<1> DEFINE f == [Top(w) EXCEPT !.next = @ + 1]
<1>2. Top(w) \in Frames /\ peerHeight \in PeerHeights
  BY <1>1, TopFrame DEF TypeOK
<1>3. PICK n \in Nat : n = Top(w).next
  BY <1>2 DEF Frames
<1>4. f \in Frames /\ f.next = n + 1 /\ f.end = Top(w).end /\ f.end \in Nat
  BY <1>2, <1>3 DEF Frames
<1>5. FrameOK(Top(w), n - 1)
  BY <1>1, <1>3 DEF WorkerOK
<1>6. n >= 2 /\ n <= f.end /\ f.end <= peerHeight
  BY <1>3, <1>4, <1>5 DEF FrameOK, NextHash
<1>7. FrameOK(f, n - 1)
  <2> HIDE DEF f
  <2> QED
    BY <1>4, <1>5, <1>6 DEF FrameOK
<1>8. n \in PeerHeights /\ PeerBlock[n] \in Blocks
  <2>1. n \in PeerHeights
    BY <1>2, <1>4, <1>6, SynchronizeAssumption DEF PeerHeights
  <2> QED
    BY <2>1, SynchronizeAssumption
<1>9. SetTop(w, f)
  BY DEF NextHash
<1> HIDE DEF f
<1>10. Top(w)' = f /\ frames'[w] # <<>>
  BY <1>1, <1>4, <1>9, TopSet
<1>11. /\ pc' \in [Workers -> Busy \cup {"idle", "dead"}]
       /\ blk' \in [Workers -> Blocks \cup {NoBlock}]
       /\ pc'[w] = "request"
       /\ blk'[w] = PeerBlock[n]
       /\ \A v \in Workers \ {w} : pc'[v] = pc[v] /\ blk'[v] = blk[v]
  BY <1>1, <1>3, <1>8 DEF TypeOK, NextHash, Busy
<1>12. HandlesHash(w)'
  <2>1. Top(w)'.next - 2 = n - 1 /\ Top(w)'.next > 2 /\ Top(w)'.next - 1 = n
    BY <1>4, <1>6, <1>10
  <2>2. FrameOK(Top(w), Top(w).next - 2)'
    BY <1>7, <1>10, <2>1
       DEF FrameOK, NextHash, Settled, RefusedUpTo, IsRefused, Stored
  <2> QED
    BY <1>11, <2>1, <2>2 DEF HandlesHash
<1>13. OuterOK(w)' => WorkerOK(w)'
  BY <1>1, <1>8, <1>10, <1>11, <1>12 DEF WorkerOK, InCall, NextHash
<1> QED
  BY <1>1, <1>4, <1>9, <1>11, <1>13, TopStep DEF NextHash

LEMMA RepeatKeepsIInv ==
    ASSUME IInv, NEW w \in Workers, Repeat(w)
    PROVE  IInv'
<1> USE DEF Repeat, RoundDone, Goto
<1>1. TypeOK /\ WorkerOK(w) /\ pc'[w] = "height"
  BY DEF IInv, TypeOK
<1>2. TypeOK' /\ OthersUntouched(w)
  BY <1>1 DEF TypeOK, Busy, OthersUntouched
<1>3. WorkerOK(w)'
  BY <1>1, FramesUntouched DEF WorkerOK, InCall
<1> QED
  BY <1>2, <1>3, LocalStep, FramesUntouched

\* The outer call goes on where it was.
LEMMA LeaveKeepsIInv ==
    ASSUME IInv, NEW w \in Workers, pc[w] \in {"ask", "find", "loop"}, Leave(w)
    PROVE  IInv'
<1> USE DEF Leave, Goto
<1> DEFINE k == Len(frames[w])
<1>1. TypeOK /\ WorkerOK(w) /\ frames[w] # <<>>
  BY DEF IInv, WorkerOK, InCall
<1>2. frames' = [frames EXCEPT ![w] = SubSeq(@, 1, Len(@) - 1)]
  BY <1>1 DEF TypeOK
<1>3. /\ k \in Nat \ {0}
      /\ frames'[w] \in Seq(Frames)
      /\ Len(frames'[w]) = k - 1
      /\ \A i \in 1 .. k - 1 : frames'[w][i] = frames[w][i]
  BY <1>1, <1>2, TopFrame, Popped DEF TypeOK
<1>4. pc'[w] = IF frames'[w] = <<>> THEN "idle" ELSE "loop"
  BY <1>1 DEF TypeOK
<1>5. TypeOK' /\ OthersUntouched(w)
  BY <1>1, <1>2, Popped DEF TypeOK, Busy, OthersUntouched
<1>6. \A i \in 1 .. k - 1 : FrameOK(frames[w][i], frames[w][i].next - 1)'
  BY <1>1, <1>3
     DEF WorkerOK, OuterOK, FrameOK, Settled, RefusedUpTo, IsRefused, Stored
<1>7. OuterOK(w)'
  BY <1>3, <1>6 DEF OuterOK
<1>8. frames'[w] # <<>> => FrameOK(Top(w), Top(w).next - 1)'
  BY <1>3, <1>6, EmptySeq DEF Top
<1>9. WorkerOK(w)'
  BY <1>4, <1>7, <1>8 DEF WorkerOK, InCall
<1>10. Len(frames'[w]) > 1 => RefusedUpTo(peerHeight)
  BY <1>3 DEF IInv, NestedOnlyOnRefusal
<1> QED
  BY <1>5, <1>9, <1>10, LocalStep

------------------------------------------------------------------------------
(* The theorems *)

LEMMA StepKeepsIInv ==
    ASSUME IInv, NEW w \in Workers, Step(w)
    PROVE  IInv'
<1>1. CASE NotBehind(w) \/ OutOfSync(w) \/ LastRoundDone(w)
  BY <1>1, LeaveKeepsIInv DEF NotBehind, OutOfSync, LastRoundDone, RoundDone
<1> QED
  BY <1>1, RaisingKeepsIInv, CheckingKeepsIInv, SkippingKeepsIInv,
     AddKeepsIInv, EnterSynchronizeKeepsIInv, ReadHeightKeepsIInv,
     RequestHeightKeepsIInv, AuditKeepsIInv, FindLastCommonKeepsIInv,
     NextHashKeepsIInv, RepeatKeepsIInv DEF Step

LEMMA NextKeepsIInv == IInv /\ [Next]_vars => IInv'
<1> SUFFICES ASSUME IInv, [Next]_vars PROVE IInv'
  OBVIOUS
<1>1. CASE UNCHANGED vars
  BY <1>1
     DEF vars, IInv, TypeOK, PeerChainClosed, NestedOnlyOnRefusal,
         WorkerOK, HandlesHash, OuterOK, FrameOK, Settled,
         RefusedUpTo, IsRefused, Top, Stored
<1>2. CASE Next
  BY <1>2, PeerGrowsKeepsIInv, OtherAddsKeepsIInv, AnnounceKeepsIInv,
     StepKeepsIInv, RaisingKeepsIInv, StartKeepsIInv DEF Next
<1> QED
  BY <1>1, <1>2

\* The inductive invariant of a synchronization holds throughout.
THEOREM SynchronizeInvariance == Spec => []IInv
  BY InitIInv, NextKeepsIInv, PTL DEF Spec

\* Types: the locals of __synchronize stay heights, and the store's branches
\* numbers.
THEOREM SynchronizeTyping == Spec => []TypeOK
  BY SynchronizeInvariance, PTL DEF IInv

\* A block enters next to its stored predecessor only, so the stored part of
\* the peer's chain never has a gap.
THEOREM StoredChainIsClosed == Spec => []PeerChainClosed
  BY SynchronizeInvariance, PTL DEF IInv

\* A round of __synchronize ends with its last block stored, unless a block may
\* be refused.
THEOREM RoundsLeaveNoGap == Spec => []RoundLeavesNoGap
<1>1. ASSUME IInv PROVE RoundLeavesNoGap
  <2> SUFFICES ASSUME NEW w \in Workers, RoundDone(w)
               PROVE  Settled(Top(w).end)
    BY DEF RoundLeavesNoGap
  <2>1. Top(w) \in Frames /\ FrameOK(Top(w), Top(w).next - 1)
    BY <1>1, TopFrame DEF IInv, WorkerOK, InCall, RoundDone
  <2>2. Top(w).end \in 1 .. Top(w).next - 1
    BY <2>1 DEF FrameOK, RoundDone, Frames
  <2> QED
    BY <2>1, <2>2 DEF FrameOK
<1> QED
  BY <1>1, SynchronizeInvariance, PTL

\* __synchronize calls itself only when a block of the peer's chain may be
\* refused.
THEOREM NestingMeansRefusal == Spec => []NestedOnlyOnRefusal
  BY SynchronizeInvariance, PTL DEF IInv

\* The only steps that change the store are those of module BlockStore.
LEMMA AddIsStoreStep ==
    ASSUME TypeOK, NEW b \in Blocks, AddBlock(b)
    PROVE  Store!Next
<1>1. PICK n \in BranchNumbers : AddOn(b, n)
  BY DEF AddBlock
<1>2. b # Genesis
  BY <1>1, BlockTreeAssumption DEF AddOn, Stored
<1>3. branchOf'[b] = n
  BY <1>1 DEF AddOn, Store!Add, TypeOK
<1>4. branchOf[b] # n
  BY <1>1, StoreStepAssumption
     DEF AddOn, Store!Add, Store!Clash, Store!Stored, Store!Absent
<1> QED
  BY <1>1, <1>2, <1>3, <1>4 DEF AddOn, Store!Next

LEMMA OnlyAddsChangeTheStore ==
    ASSUME NEW w \in Workers, Step(w), branchOf' # branchOf
    PROVE  Add(w)
BY DEF Step, RequestHeader, NoHeader, SkipHeader, NoTransactions, PaymentsRaise,
       EnterSynchronize, TooDeep, AcceptHeader, DifficultyRaises, FillBlock,
       RefuseBlock, FillRaises, AddRaises, ReadHeight, NoHeight, RequestHeight,
       NotBehind, Audit, AuditRefused, AuditFails, FindLastCommon, OutOfSync,
       NextHash, Repeat, LastRoundDone, Leave, Die

LEMMA StepIsStoreStep ==
    IInv /\ [Next]_vars => [Store!Next]_branchOf
<1> SUFFICES ASSUME IInv, [Next]_vars, branchOf' # branchOf
             PROVE  Store!Next
  OBVIOUS
<1>1. TypeOK
  BY DEF IInv
<1>2. ASSUME NEW b \in OtherBlocks, OtherAdds(b)
      PROVE  Store!Next
  <2>1. b \in Blocks /\ AddBlock(b)
    BY <1>2, SynchronizeAssumption DEF OtherAdds, AddFetched, AddBlock
  <2> QED
    BY <1>1, <2>1, AddIsStoreStep
<1>3. ASSUME NEW w \in Workers, Step(w)
      PROVE  Store!Next
  <2>1. blk[w] \in Blocks /\ AddBlock(blk[w])
    BY <1>3, OnlyAddsChangeTheStore DEF Add, AddFetched, AddBlock, IInv, WorkerOK
  <2> QED
    BY <1>1, <2>1, AddIsStoreStep
<1>4. ASSUME NEW w \in Workers,
             Stop(w) \/ Start(w) \/ \E b \in Blocks : Announce(w, b)
      PROVE  FALSE
  BY <1>4 DEF Stop, Start, Announce, Die
<1> QED
  BY <1>2, <1>3, <1>4 DEF Next, PeerGrows, vars

\* By definition; what is proved of BlockStore holds of a store that a
\* synchronization fills.
LEMMA SynchronizeUsesStore == Spec => StoreSpec
<1>1. Init => Store!Init
  BY DEF Init, EmptyOrSeeded, Absent, Store!Init, Store!EmptyOrSeeded,
         Store!Absent
<1> QED
  BY <1>1, SynchronizeInvariance, StepIsStoreStep, PTL
     DEF Spec, StoreSpec, Store!Spec

\* Blocks that come out of order, twice, or from others in between leave every
\* branch a path, and branch 0 the tallest.
THEOREM SynchronizeKeepsShape == Spec => []StoreShape
  BY SynchronizeUsesStore, StoreHasShape, PTL

\* Nor do they ever displace a block of branch 0.
THEOREM SynchronizeNeverDisplaces == Spec => PrimaryChainSpec
  BY SynchronizeUsesStore, StoreKeepsPrimary, PTL

------------------------------------------------------------------------------
(* Deaths *)

\* Two blocks of the peer's chain do not clash, and are not siblings.
LEMMA PeerBlocksDiffer ==
    ASSUME NEW b, NEW c, FromPeer(b), FromPeer(c), b # c
    PROVE  /\ b \in Blocks /\ ~SelfClash(b) /\ ~TxClash(b, c)
           /\ Prev[b] # Prev[c]
<1>1. PICK g \in PeerHeights : b = PeerBlock[g]
  BY DEF FromPeer
<1>2. PICK h \in PeerHeights : c = PeerBlock[h]
  BY DEF FromPeer
<1>3. ASSUME NEW i \in PeerHeights, i # 1
      PROVE  /\ i - 1 \in PeerHeights
             /\ Prev[PeerBlock[i]] = PeerBlock[i - 1]
             /\ Height[PeerBlock[i - 1]] = i - 1
             /\ PeerBlock[i - 1] # NoBlock
  <2>1. i - 1 \in PeerHeights
    BY <1>3, SynchronizeAssumption DEF PeerHeights
  <2> QED
    BY <1>3, <2>1, SynchronizeAssumption, BlockTreeAssumption
<1>4. Prev[PeerBlock[1]] = NoBlock
  BY SynchronizeAssumption, BlockTreeAssumption
<1>5. g # h /\ g \in Int /\ h \in Int
  BY <1>1, <1>2 DEF PeerHeights
<1>6. Prev[b] # Prev[c]
  <2>1. CASE g = 1 \/ h = 1
    BY <1>1, <1>2, <1>3, <1>4, <1>5, <2>1
  <2>2. CASE g # 1 /\ h # 1
    <3>1. g - 1 # h - 1
      BY <1>5
    <3> QED
      BY <1>1, <1>2, <1>3, <2>2, <3>1
  <2> QED
    BY <2>1, <2>2
<1> QED
  BY <1>1, <1>2, <1>5, <1>6, PeerAssumption, SynchronizeAssumption

\* Nothing in the store is in the way of the peer's next block.
LEMMA NothingClashes ==
    ASSUME AloneInv, world = {}, NEW b, FromPeer(b), b \notin Stored,
           Prev[b] \in Stored
    PROVE  /\ \A t \in TxOf[b] : ~IsStored(t)
           /\ ~Clash(b, 0) /\ ~SelfClash(b)
           /\ ~Store!Rivalled(b)
           /\ branchOf[Prev[b]] = 0
<1>1. \A c \in Stored : FromPeer(c) /\ c # b
  BY DEF AloneInv
<1>2. \A c \in Stored : ~TxClash(b, c) /\ Prev[c] # Prev[b]
  BY <1>1, PeerBlocksDiffer
<1>3. ~SelfClash(b)
  <2>1. PICK h \in PeerHeights : b = PeerBlock[h]
    BY DEF FromPeer
  <2> QED
    BY <2>1, PeerAssumption
<1>4. \A t \in TxOf[b] : ~IsStored(t)
  BY <1>2 DEF IsStored, TxClash, SpendClash
<1>5. ~Clash(b, 0)
  <2>1. OnBranch(0) \subseteq Stored
    BY DEF OnBranch, Stored, Absent
  <2> QED
    BY <1>2, <1>3, <2>1 DEF Clash
<1>6. ~Store!Rivalled(b)
  BY <1>2 DEF Store!Rivalled, Store!BranchesByPrevhash, Store!Stored, Store!Absent,
              Stored, Absent
<1> QED
  BY <1>3, <1>4, <1>5, <1>6 DEF AloneInv

\* What is left to show of a step of w that leaves the store alone.
LEMMA AloneLocal ==
    ASSUME IInv, AloneInv, NEW w \in Workers, UNCHANGED <<branchOf, world>>,
           OthersUntouched(w),
           world = {} /\ pc'[w] \in Busy => pc[w] \in Busy /\ AloneOK(w)'
    PROVE  AloneInv'
<1> SUFFICES ASSUME world = {} PROVE AloneInv'
  BY DEF AloneInv
<1>1. \A b \in Stored' : FromPeer(b) /\ branchOf'[b] = 0
  BY DEF AloneInv, Stored
<1>2. \A u, v \in Workers : pc'[u] \in Busy /\ pc'[v] \in Busy => u = v
  BY DEF AloneInv, OthersUntouched
<1>3. AloneOK(w)'
  BY DEF AloneOK, Busy
<1>4. ASSUME NEW v \in Workers \ {w} PROVE AloneOK(v)'
  <2>1. /\ pc'[v] = pc[v] /\ blk'[v] = blk[v] /\ Top(v)' = Top(v)
        /\ HeightsAsked(v)' = HeightsAsked(v) /\ Stored' = Stored
    BY DEF OthersUntouched, Top, HeightsAsked, Stored
  <2>2. AloneOK(v)
    BY DEF AloneInv
  <2> QED
    BY <2>1, <2>2 DEF AloneOK
<1> QED
  BY <1>1, <1>2, <1>3, <1>4 DEF AloneInv

LEMMA DieKeepsAlone ==
    ASSUME IInv, AloneInv, NEW w \in Workers, Die(w)
    PROVE  AloneInv'
<1>1. /\ UNCHANGED <<branchOf, world>> /\ OthersUntouched(w)
      /\ pc'[w] = "dead"
  BY DEF Die, Goto, IInv, TypeOK, OthersUntouched
<1> QED
  BY <1>1, AloneLocal DEF Busy

LEMMA CheckingKeepsAlone ==
    ASSUME IInv, AloneInv, NEW w \in Workers,
           RequestHeader(w) \/ AcceptHeader(w) \/ FillBlock(w)
    PROVE  AloneInv'
<1> USE DEF RequestHeader, AcceptHeader, FillBlock, Goto
<1>1. TypeOK
  BY DEF IInv
<1>2. /\ UNCHANGED <<branchOf, blk, world>>
      /\ pc[w] \in {"request", "check", "fill"} /\ pc'[w] \in {"check", "fill", "add"}
      /\ \/ pc'[w] = "check"
         \/ pc[w] = "fill"
         \/ blk[w] \notin Stored /\ Prev[blk[w]] \in Stored
  BY <1>1 DEF TypeOK
<1>3. OthersUntouched(w)
  BY <1>1 DEF TypeOK, OthersUntouched
<1>4. ASSUME world = {} PROVE AloneOK(w)'
  BY <1>2, <1>4 DEF AloneInv, AloneOK, Stored
<1> QED
  BY <1>2, <1>3, <1>4, AloneLocal DEF Busy

\* Steps between a header and the next.
LEMMA WalkingKeepsAlone ==
    ASSUME IInv, AloneInv, NEW w \in Workers,
           \/ SkipHeader(w) \/ RefuseBlock(w) \/ EnterSynchronize(w) \/ ReadHeight(w)
           \/ NotBehind(w) \/ Audit(w) \/ FindLastCommon(w) \/ OutOfSync(w) \/ Repeat(w)
           \/ LastRoundDone(w)
    PROVE  AloneInv'
<1>1. TypeOK
  BY DEF IInv
<1>2. /\ UNCHANGED <<branchOf, world>>
      /\ pc[w] \in Busy
      /\ pc'[w] \in {"idle", "loop", "height", "ask", "find"}
  BY <1>1 DEF SkipHeader, RefuseBlock, EnterSynchronize, Unknown, ReadHeight,
              NotBehind, Audit, FindLastCommon, OutOfSync, Repeat, LastRoundDone, RoundDone, Return,
              Leave, Goto, TypeOK, Busy
<1>3. OthersUntouched(w)
  BY <1>1 DEF SkipHeader, RefuseBlock, EnterSynchronize, Unknown, ReadHeight,
              NotBehind, Audit, FindLastCommon, OutOfSync, Repeat, LastRoundDone, RoundDone, Return,
              Leave, Goto, SetTop, TypeOK, OthersUntouched
<1> QED
  BY <1>2, <1>3, AloneLocal DEF AloneOK

\* A round of many ends a stride above its first height; the last one ends less
\* than that above the current height.
LEMMA RequestHeightKeepsAlone ==
    ASSUME IInv, AloneInv, NEW w \in Workers, RequestHeight(w)
    PROVE  AloneInv'
<1>1. TypeOK /\ WorkerOK(w) /\ frames[w] # <<>> /\ pc[w] = "ask"
  BY DEF IInv, WorkerOK, InCall, RequestHeight
<1> DEFINE cur == Top(w).cur
           far == cur < peerHeight - Stride
           f == [Top(w) EXCEPT
                   !.end = IF far THEN StartHeight(cur) + Stride ELSE peerHeight,
                   !.repeat = far]
<1>2. Top(w) \in Frames /\ cur \in Nat
  BY <1>1, TopFrame DEF Frames
<1>3. peerHeight \in Nat
  BY <1>1 DEF TypeOK, PeerHeights
<1>4. StartHeight(cur) \in Nat /\ Stride \in Nat
  BY <1>2, SynchronizeAssumption DEF StartHeight
<1>5. f \in Frames
  <2> DEFINE e == IF far THEN StartHeight(cur) + Stride ELSE peerHeight
  <2>1. e \in Nat
    BY <1>3, <1>4
  <2>2. far \in BOOLEAN
    OBVIOUS
  <2>3. f = [Top(w) EXCEPT !.end = e, !.repeat = far]
    OBVIOUS
  <2> HIDE DEF f, far, e
  <2> QED
    BY <1>2, <2>1, <2>2, <2>3, LocalsSet
<1>6. /\ f.cur = cur /\ f.repeat = far
      /\ f.end = IF far THEN StartHeight(cur) + Stride ELSE peerHeight
  BY <1>2 DEF Frames
<1>7. SetTop(w, f)
  BY DEF RequestHeight
<1> HIDE DEF f, cur
<1>8. Top(w)' = f
  BY <1>1, <1>5, <1>7, TopSet
<1>9. IF f.repeat THEN f.end - StartHeight(f.cur) = Stride
      ELSE f.end <= f.cur + Stride
  <2>1. CASE far
    <3>1. f.repeat /\ f.end = StartHeight(f.cur) + Stride
      BY <1>6, <2>1
    <3> QED
      BY <1>4, <1>6, <3>1
  <2>2. CASE ~far
    <3>1. peerHeight <= f.cur + Stride
      BY <1>2, <1>3, <1>4, <1>6, <2>2
    <3>2. ~f.repeat /\ f.end = peerHeight
      <4> HIDE DEF far
      <4> QED
        BY <1>6, <2>2
    <3> QED
      BY <3>1, <3>2
  <2> QED
    BY <2>1, <2>2
<1>10. /\ UNCHANGED <<branchOf, world>> /\ OthersUntouched(w)
       /\ pc'[w] = "audit"
  BY <1>1 DEF RequestHeight, Goto, SetTop, TypeOK, OthersUntouched
<1>11. AloneOK(w)'
  BY <1>8, <1>9, <1>10 DEF AloneOK, HeightsAsked
<1> QED
  BY <1>1, <1>10, <1>11, AloneLocal DEF Busy

LEMMA NextHashKeepsAlone ==
    ASSUME IInv, AloneInv, NEW w \in Workers, NextHash(w)
    PROVE  AloneInv'
<1>1. TypeOK /\ WorkerOK(w) /\ frames[w] # <<>> /\ pc[w] = "loop"
  BY DEF IInv, WorkerOK, InCall, NextHash
<1>2. Top(w) \in Frames /\ peerHeight \in PeerHeights
  BY <1>1, TopFrame DEF TypeOK
<1>3. PICK n \in Nat : n = Top(w).next
  BY <1>2 DEF Frames
<1>4. n \in PeerHeights
  <2>1. n >= 2 /\ n <= Top(w).end /\ Top(w).end <= peerHeight /\ Top(w).end \in Nat
    BY <1>1, <1>2, <1>3 DEF WorkerOK, FrameOK, NextHash, Frames
  <2> QED
    BY <1>2, <2>1, SynchronizeAssumption DEF PeerHeights
<1>5. /\ UNCHANGED <<branchOf, world>> /\ OthersUntouched(w)
      /\ pc'[w] = "request" /\ blk'[w] = PeerBlock[n]
  BY <1>1, <1>3 DEF NextHash, Goto, SetTop, TypeOK, OthersUntouched
<1>6. AloneOK(w)'
  BY <1>4, <1>5 DEF AloneOK, FromPeer
<1> QED
  BY <1>1, <1>5, <1>6, AloneLocal DEF Busy

\* The only block that is stored is the peer's next, on branch 0.
LEMMA AddKeepsAlone ==
    ASSUME IInv, AloneInv, NEW w \in Workers, Add(w)
    PROVE  AloneInv'
<1> SUFFICES ASSUME world = {} PROVE AloneInv'
  BY DEF AloneInv, Add, Return
<1> DEFINE b == blk[w]
<1>1. TypeOK /\ pc[w] = "add" /\ AloneOK(w) /\ b \in Blocks
  BY DEF IInv, WorkerOK, AloneInv, Add
<1>2. FromPeer(b) /\ b \notin Stored /\ Prev[b] \in Stored
  BY <1>1 DEF AloneOK
<1>3. PICK n \in BranchNumbers : AddOn(b, n)
  BY DEF Add, AddFetched
<1>4. branchOf' = [branchOf EXCEPT ![b] = 0]
  BY <1>2, <1>3, NothingClashes DEF AddOn, Store!Add, Store!Continue, Store!StartBranch
<1>5. \A c \in Stored' : FromPeer(c) /\ branchOf'[c] = 0
  BY <1>1, <1>2, <1>4 DEF AloneInv, Stored, TypeOK
<1>6. /\ pc'[w] \in {"idle", "loop"} /\ OthersUntouched(w)
  BY <1>1 DEF Add, Return, Goto, TypeOK, OthersUntouched
<1>7. ASSUME NEW v \in Workers PROVE pc'[v] \in Busy => v = w
  BY <1>1, <1>6, <1>7 DEF AloneInv, OthersUntouched, Busy
<1>8. ASSUME NEW v \in Workers PROVE AloneOK(v)'
  BY <1>6, <1>7 DEF AloneOK, Busy
<1> QED
  BY <1>5, <1>7, <1>8 DEF AloneInv

\* A worker takes up an announcement while no other is at work.
LEMMA AnnounceKeepsAlone ==
    ASSUME IInv, AloneInv, NEW w \in Workers, NEW b \in Blocks, Announce(w, b)
    PROVE  AloneInv'
<1> SUFFICES ASSUME world = {} PROVE AloneInv'
  BY DEF AloneInv, Announce
<1>1. TypeOK
  BY DEF IInv
<1>2. FromPeer(b)
  BY <1>1, SynchronizeAssumption DEF Announce, FromPeer, TypeOK, PeerHeights
<1>3. /\ branchOf' = branchOf /\ pc'[w] = "request" /\ blk'[w] = b
      /\ OthersUntouched(w)
  BY <1>1 DEF Announce, Goto, TypeOK, OthersUntouched
<1>4. \A v \in Workers \ {w} : pc'[v] \in {"idle", "dead"}
  BY <1>3 DEF Announce, OthersUntouched
<1>5. ASSUME NEW v \in Workers PROVE AloneOK(v)'
  BY <1>2, <1>3, <1>4 DEF AloneOK
<1> QED
  BY <1>3, <1>4, <1>5 DEF AloneInv, Stored, Busy

LEMMA RaisingDies ==
    ASSUME NEW w \in Workers,
           \/ NoHeader(w) \/ NoTransactions(w) \/ PaymentsRaise(w) \/ TooDeep(w)
           \/ DifficultyRaises(w) \/ FillRaises(w) \/ AddRaises(w) \/ NoHeight(w)
           \/ AuditRefused(w) \/ AuditFails(w) \/ Stop(w)
    PROVE  Die(w)
BY DEF NoHeader, NoTransactions, PaymentsRaise, TooDeep, DifficultyRaises,
       FillRaises, AddRaises, NoHeight, AuditRefused, AuditFails, Stop

LEMMA NextKeepsAlone == IInv /\ AloneInv /\ [Next]_vars => AloneInv'
<1> SUFFICES ASSUME IInv, AloneInv, [Next]_vars PROVE AloneInv'
  OBVIOUS
<1>1. CASE UNCHANGED vars
  BY <1>1 DEF vars, AloneInv, AloneOK, HeightsAsked, Top, Stored
<1>2. CASE PeerGrows
  BY <1>2 DEF PeerGrows, AloneInv, AloneOK, HeightsAsked, Top, Stored
<1>3. ASSUME NEW b \in OtherBlocks, OtherAdds(b) PROVE AloneInv'
  BY <1>3 DEF OtherAdds, AloneInv
<1>4. ASSUME NEW w \in Workers, Start(w) PROVE AloneInv'
  BY <1>4 DEF Start, AloneInv
<1>5. ASSUME NEW w \in Workers, Step(w) \/ Stop(w) PROVE AloneInv'
  BY <1>5, RaisingDies, DieKeepsAlone, CheckingKeepsAlone, WalkingKeepsAlone,
     RequestHeightKeepsAlone, NextHashKeepsAlone, AddKeepsAlone DEF Step
<1> QED
  BY <1>1, <1>2, <1>3, <1>4, <1>5, AnnounceKeepsAlone DEF Next

LEMMA InitAlone == Init => AloneInv
<1> SUFFICES ASSUME Init PROVE AloneInv
  OBVIOUS
<1>1. \A b \in Stored : b = Genesis /\ branchOf[b] = 0
  BY DEF Init, EmptyOrSeeded, Stored, Absent
<1>2. FromPeer(Genesis)
  BY SynchronizeAssumption DEF FromPeer, PeerHeights
<1>3. \A w \in Workers : pc[w] = "idle"
  BY DEF Init
<1> QED
  BY <1>1, <1>2, <1>3 DEF AloneInv, AloneOK, Busy

\* In a quiet world one exception is left.
LEMMA QuietRaise ==
    ASSUME IInv, AloneInv, Quiet, NEW w \in Workers,
           \/ NoHeader(w) \/ NoTransactions(w) \/ PaymentsRaise(w) \/ TooDeep(w)
           \/ DifficultyRaises(w) \/ FillRaises(w) \/ AddRaises(w) \/ NoHeight(w)
           \/ AuditRefused(w) \/ AuditFails(w) \/ Stop(w)
    PROVE  AuditRefused(w)
<1>1. WorkerOK(w) /\ AloneOK(w) /\ world = {} /\ Stored # {}
  BY DEF IInv, AloneInv, Quiet
<1>2. ~TooDeep(w)
  <2> SUFFICES ASSUME TooDeep(w) PROVE FALSE
    OBVIOUS
  <2>1. frames[w] # <<>>
    <3> SUFFICES ASSUME frames[w] = <<>> PROVE FALSE
      OBVIOUS
    <3>1. Len(frames[w]) = 0
      BY EmptySeq
    <3> QED
      BY <3>1, SynchronizeAssumption DEF TooDeep
  <2>2. RefusedUpTo(peerHeight)
    BY <2>1, UnknownMeansRefusal DEF TooDeep
  <2> QED
    BY <1>1, <2>2 DEF RefusedUpTo, IsRefused
<1>3. ASSUME pc[w] \in {"fill", "add"}
      PROVE  /\ \A t \in TxOf[blk[w]] : ~IsStored(t)
             /\ FromPeer(blk[w])
             /\ ~AddBlockRaises(blk[w])
  <2>1. FromPeer(blk[w]) /\ blk[w] \notin Stored /\ Prev[blk[w]] \in Stored
    BY <1>1, <1>3 DEF AloneOK
  <2> QED
    BY <1>1, <2>1, NothingClashes DEF AddBlockRaises
<1>4. ~FillRaises(w) /\ ~AddRaises(w)
  BY <1>1, <1>3 DEF FillRaises, AddRaises, AddFetchedRaises
<1> QED
  BY <1>1, <1>2, <1>4
     DEF NoHeader, NoTransactions, PaymentsRaise, DifficultyRaises, NoHeight,
         AuditFails, Stop

LEMMA QuietDeathIsRefusal ==
    ASSUME IInv, AloneInv, [Next]_vars, NEW w \in Workers,
           Quiet, pc[w] # "dead", pc'[w] = "dead"
    PROVE  /\ pc[w] = "audit" /\ ~Top(w).repeat
           /\ HeightsAsked(w) \in Limit + 1 .. Stride + Overlap
<1>1. TypeOK /\ WorkerOK(w) /\ AloneOK(w)
  BY DEF IInv, AloneInv, Quiet
<1>2. PICK v \in Workers : Step(v) \/ Stop(v)
  BY <1>1 DEF Next, vars, PeerGrows, OtherAdds, Announce, Start, Goto, TypeOK
<1>3. \/ NoHeader(v) \/ NoTransactions(v) \/ PaymentsRaise(v) \/ TooDeep(v)
      \/ DifficultyRaises(v) \/ FillRaises(v) \/ AddRaises(v) \/ NoHeight(v)
      \/ AuditRefused(v) \/ AuditFails(v) \/ Stop(v)
  <2>1. ASSUME RequestHeader(v) \/ AcceptHeader(v) \/ FillBlock(v)
        PROVE  FALSE
    BY <1>1, <2>1 DEF RequestHeader, AcceptHeader, FillBlock, Goto, TypeOK
  <2>2. ASSUME \/ SkipHeader(v) \/ RefuseBlock(v) \/ EnterSynchronize(v) \/ ReadHeight(v)
               \/ NotBehind(v) \/ Audit(v) \/ FindLastCommon(v) \/ OutOfSync(v)
               \/ Repeat(v) \/ LastRoundDone(v) \/ Add(v)
        PROVE  FALSE
    BY <1>1, <2>2
       DEF SkipHeader, RefuseBlock, EnterSynchronize, ReadHeight, NotBehind, Audit,
           FindLastCommon, OutOfSync, Repeat, LastRoundDone, Add, Return, Leave,
           Goto, TypeOK
  <2>3. ASSUME RequestHeight(v) \/ NextHash(v)
        PROVE  FALSE
    BY <1>1, <2>3 DEF RequestHeight, NextHash, Goto, TypeOK
  <2> QED
    BY <1>2, <2>1, <2>2, <2>3 DEF Step
<1>4. Die(v) /\ AuditRefused(v)
  BY <1>3, RaisingDies, QuietRaise
<1>5. v = w
  BY <1>1, <1>4 DEF Die, Goto, TypeOK
<1>6. pc[w] = "audit" /\ HeightsAsked(w) \notin 1 .. Limit
  BY <1>4, <1>5 DEF AuditRefused
<1> DEFINE cur == Top(w).cur
           end == Top(w).end
<1>7. cur \in Nat /\ end \in Nat /\ cur > 0 /\ end > cur
  <2>1. Top(w) \in Frames /\ cur > 0 /\ end \in cur + 1 .. peerHeight
    BY <1>1, <1>6, TopFrame DEF WorkerOK, InCall
  <2>2. cur \in Nat /\ end \in Nat
    BY <2>1 DEF Frames
  <2> HIDE DEF cur, end
  <2> QED
    BY <2>1, <2>2
<1>8. IF Top(w).repeat THEN HeightsAsked(w) = Stride ELSE end <= cur + Stride
  BY <1>1, <1>6 DEF AloneOK
<1>9. HeightsAsked(w) = end - StartHeight(cur)
  BY DEF HeightsAsked
<1> HIDE DEF cur, end
<1>10. /\ StartHeight(cur) \in Nat /\ StartHeight(cur) <= cur
       /\ cur <= StartHeight(cur) + Overlap
       /\ Overlap \in Nat /\ Stride \in Nat /\ Limit \in Nat
       /\ Stride <= Limit /\ Stride > 0
  BY <1>7, SynchronizeAssumption, PeerAssumption DEF StartHeight
<1>11. ~Top(w).repeat
  BY <1>6, <1>8, <1>10
<1> QED
  BY <1>6, <1>7, <1>8, <1>9, <1>10, <1>11

\* With the defects mended, a worker left alone with an honest peer that answers
\* dies of nothing but a last round of more heights than the peer answers for.
THEOREM QuietDeathsAreRefusals == Spec => QuietDeath
<1>1. IInv /\ AloneInv /\ [Next]_vars =>
         [\A w \in Workers : Quiet /\ pc[w] # "dead" /\ pc'[w] = "dead" =>
            /\ pc[w] = "audit" /\ ~Top(w).repeat
            /\ HeightsAsked(w) \in Limit + 1 .. Stride + Overlap]_vars
  BY QuietDeathIsRefusal
<1>2. Spec => []AloneInv
  BY InitAlone, NextKeepsAlone, SynchronizeInvariance, PTL DEF Spec
<1> QED
  BY <1>1, <1>2, SynchronizeInvariance, PTL DEF Spec, QuietDeath
==============================================================================
