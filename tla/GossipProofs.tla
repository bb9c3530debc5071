---------------------------- MODULE GossipProofs ----------------------------
(***************************************************************************)
(* Theorems of Gossip, for every set of nodes and workers, whatever peers  *)
(* each node has and whoever mines which block.                            *)
(***************************************************************************)
EXTENDS Gossip, TLAPS

LEMMA MessageParts ==
    /\ \A n, p \in Nodes, b \in Blocks :
          /\ <<n, p, b>> \in Messages
          /\ From(<<n, p, b>>) = n /\ To(<<n, p, b>>) = p /\ Blk(<<n, p, b>>) = b
    /\ \A m \in Messages :
          /\ m = <<From(m), To(m), Blk(m)>>
          /\ From(m) \in Nodes /\ To(m) \in Nodes /\ Blk(m) \in Blocks
BY DEF Messages, From, To, Blk

LEMMA WorkersAreNoPlaces ==
    \A w \in Workers : w \notin Places /\ Me(w) \in Nodes
BY GossipAssumption DEF Me

LEMMA InitIInv == Init => IInv
<1> SUFFICES ASSUME Init PROVE IInv
  OBVIOUS
<1> USE DEF Init
<1>1. TypeOK
  BY DEF TypeOK, Places
<1>2. AnnouncedOnce
  BY WorkersAreNoPlaces, MessageParts
     DEF AnnouncedOnce, OwnUnderWay, Fresh, Broadcasts, Places
<1>3. ASSUME NEW w \in Workers PROVE WorkerOK(w)
  BY DEF WorkerOK, Busy
<1>4. DealtRight /\ ClosedHasTaken /\ LossNeedsCompany
  BY WorkersAreNoPlaces DEF DealtRight, ClosedHasTaken, LossNeedsCompany, Places
<1> QED
  BY <1>1, <1>2, <1>3, <1>4 DEF IInv

------------------------------------------------------------------------------
(* Steps that announce nothing *)

\* No message leaves its sender, no message of a miner comes up, and no worker
\* begins a broadcast.
Quiet ==
    /\ known' = known
    /\ \A m \in Messages : at[m] = "unsent" => at'[m] = "unsent"
    /\ \A n \in Nodes, b \in Blocks : OwnUnderWay(n, b)' => OwnUnderWay(n, b)
    /\ \A w \in Workers, n \in Nodes, b \in Blocks :
          Broadcasts(w, n, b)' => Broadcasts(w, n, b)

LEMMA QuietSteps ==
    ASSUME AnnouncedOnce, Quiet
    PROVE  AnnouncedOnce'
BY MessageParts DEF AnnouncedOnce, Quiet, Fresh

\* A worker that does nothing stays as it should be.
LEMMA WorkerUntouched ==
    ASSUME TypeOK, NEW w \in Workers, WorkerOK(w),
           pc'[w] = pc[w], msg'[w] = msg[w], todo'[w] = todo[w],
           \A m \in Messages : at[m] = "unsent" => at'[m] = "unsent"
    PROVE  WorkerOK(w)'
<1>1. pc[w] \in {"post", "answer"} =>
         \A p \in todo[w] : <<Me(w), p, Blk(msg[w])>> \in Messages
  BY WorkersAreNoPlaces, MessageParts DEF WorkerOK, Busy, TypeOK
<1> QED
  BY <1>1 DEF WorkerOK

\* The same messages have been taken, and none is lost or dealt anew.
LEMMA MessagesUntouched ==
    ASSUME DealtRight, ClosedHasTaken, LossNeedsCompany,
           at' = at, closed' \subseteq closed, world' = world
    PROVE  DealtRight' /\ ClosedHasTaken' /\ LossNeedsCompany'
BY DEF DealtRight, ClosedHasTaken, LossNeedsCompany

LEMMA RunningKeepsIInv ==
    ASSUME IInv,
           \/ \E n \in Nodes : ProxyStarts(n) \/ ProxyFails(n) \/ Start(n)
           \/ \E w \in Workers : Notice(w)
    PROVE  IInv'
<1> USE DEF ProxyStarts, ProxyFails, Start, Notice
<1>1. /\ UNCHANGED <<at, pc, msg, todo, known, world>>
      /\ closed' \subseteq closed
  OBVIOUS
<1>2. TypeOK'
  BY DEF IInv, TypeOK
<1>3. AnnouncedOnce'
  BY <1>1, QuietSteps DEF IInv, Quiet, OwnUnderWay, Broadcasts
<1>4. ASSUME NEW w \in Workers PROVE WorkerOK(w)'
  BY <1>1, WorkerUntouched DEF IInv
<1> QED
  BY <1>1, <1>2, <1>3, <1>4, MessagesUntouched DEF IInv

\* Steps of w that tell nobody of anything.
LEMMA IdlingKeepsIInv ==
    ASSUME IInv, NEW w \in Workers,
           \/ Dequeue(w) \/ Look(w) \/ Fetch(w) \/ Refuse(w) \/ FetchRaises(w)
           \/ AddRaises(w)
           \/ Answered(w) \/ PostsDone(w) \/ \E p \in Nodes : PostRefused(w, p)
    PROVE  IInv'
<1> USE DEF Dequeue, Look, Fetch, Refuse, FetchRaises, AddRaises, Answered,
            PostsDone, PostRefused, IsNext, Idle, Goto
<1>1. UNCHANGED <<at, closed, known, world>>
  OBVIOUS
<1>2. TypeOK /\ WorkerOK(w)
  BY DEF IInv
<1>3. TypeOK'
  BY <1>2 DEF TypeOK, Busy
<1>4. \A v \in Workers \ {w} :
         pc'[v] = pc[v] /\ msg'[v] = msg[v] /\ todo'[v] = todo[v]
  BY <1>2 DEF TypeOK
<1>5. \/ pc'[w] \in {"open", "out", "dead"}
      \/ /\ pc[w] \in Busy
         /\ pc'[w] \in {"fetch", "add"} \/ (pc'[w] = "post" /\ pc[w] \in {"post", "answer"})
         /\ msg'[w] = msg[w]
         /\ todo'[w] \subseteq todo[w]
  BY <1>2 DEF TypeOK, Busy
<1>6. ASSUME NEW v \in Workers, NEW n \in Nodes, NEW b \in Blocks,
             Broadcasts(v, n, b)'
      PROVE  Broadcasts(v, n, b)
  BY <1>4, <1>5, <1>6 DEF Broadcasts
<1>7. AnnouncedOnce'
  BY <1>1, <1>6, QuietSteps DEF IInv, Quiet, OwnUnderWay
<1>8. WorkerOK(w)'
  BY <1>1, <1>2, <1>5 DEF WorkerOK, Busy
<1>9. ASSUME NEW v \in Workers \ {w} PROVE WorkerOK(v)'
  BY <1>1, <1>2, <1>4, <1>9, WorkerUntouched DEF IInv
<1> QED
  BY <1>1, <1>3, <1>7, <1>8, <1>9, MessagesUntouched DEF IInv

\* A message moves on in the proxy.
LEMMA CarryKeepsIInv ==
    ASSUME IInv, NEW m \in Messages, Carry(m)
    PROVE  IInv'
<1> USE DEF Carry, Enqueued, Deal
<1>1. UNCHANGED <<closed, pc, msg, todo, known, world>> /\ TypeOK
  BY DEF IInv
<1>2. PICK place \in {"waiting", "lost"} \cup Workers :
          /\ at' = [at EXCEPT ![m] = place]
          /\ place \in Workers => Me(place) = To(m)
          /\ place = "lost" => \E w \in closed : To(m) = Me(w)
  <2>1. CASE Enqueued(m)
    BY <2>1, WorkersAreNoPlaces DEF Places
  <2>2. ASSUME NEW w \in Workers, Deal(m, w)
        PROVE  \E place \in {w, "lost"} :
                  /\ at' = [at EXCEPT ![m] = place]
                  /\ To(m) = Me(w)
                  /\ place = "lost" => w \in closed
    BY <2>2, WorkersAreNoPlaces DEF Places
  <2> HIDE DEF Enqueued, Deal
  <2> QED
    BY <2>1, <2>2, WorkersAreNoPlaces DEF Places
<1>3. at[m] \in {"pending", "waiting"}
  OBVIOUS
<1>4. /\ at'[m] = place
      /\ \A k \in Messages \ {m} : at'[k] = at[k]
  BY <1>1, <1>2 DEF TypeOK
<1>5. TypeOK'
  BY <1>1, <1>2 DEF TypeOK, Places
<1>6. AnnouncedOnce'
  <2>1. \A k \in Messages : at[k] = "unsent" => at'[k] = "unsent"
    BY <1>3, <1>4
  <2>2. ASSUME NEW n \in Nodes, NEW b \in Blocks, OwnUnderWay(n, b)'
        PROVE  OwnUnderWay(n, b)
    BY <1>3, <1>4, <2>2, MessageParts DEF OwnUnderWay
  <2> QED
    BY <1>1, <2>1, <2>2, QuietSteps DEF IInv, Quiet, Broadcasts
<1>7. ASSUME NEW w \in Workers PROVE WorkerOK(w)'
  BY <1>1, <1>3, <1>4, <1>7, WorkerUntouched DEF IInv
<1>8. DealtRight'
  BY <1>2, <1>4, WorkersAreNoPlaces DEF IInv, DealtRight, Places
<1>9. \A k \in Messages : at[k] = "taken" => at'[k] = "taken"
  BY <1>3, <1>4
<1>10. ClosedHasTaken'
  BY <1>1, <1>9 DEF IInv, ClosedHasTaken
<1>11. LossNeedsCompany'
  <2> SUFFICES ASSUME "stops" \notin world, NEW k \in Messages, at'[k] = "lost"
               PROVE  \E l \in Messages \ {k} : To(l) = To(k) /\ at'[l] = "taken"
    BY <1>1 DEF LossNeedsCompany
  <2>1. CASE k = m /\ place = "lost"
    BY <1>2, <1>3, <1>9, <2>1 DEF IInv, ClosedHasTaken
  <2>2. CASE at[k] = "lost"
    BY <1>9, <2>2 DEF IInv, LossNeedsCompany
  <2> QED
    BY <1>4, <2>1, <2>2
<1> QED
  BY <1>5, <1>6, <1>7, <1>8, <1>10, <1>11 DEF IInv

\* Processes that end lose what they hold; what was taken stays taken.
LEMMA StoppingKeepsIInv ==
    ASSUME IInv, NEW n \in Nodes, StopMiner(n) \/ Stop(n)
    PROVE  IInv'
<1>1. TypeOK /\ DealtRight /\ "stops" \in world' /\ known' = known
  BY DEF IInv, StopMiner, Stop
<1>2. /\ at' \in [Messages -> Places \cup Workers]
      /\ \A m \in Messages : at'[m] \in {at[m], "lost"}
      /\ \A m \in Messages : at[m] \in {"unsent", "taken"} => at'[m] = at[m]
  <2>1. CASE StopMiner(n)
    <3>1. PICK b \in Blocks :
              /\ at[<<n, n, b>>] = "pending"
              /\ at' = [at EXCEPT ![<<n, n, b>>] = "lost"]
      BY <2>1 DEF StopMiner
    <3>2. "lost" \in Places /\ at \in [Messages -> Places \cup Workers]
      BY <1>1 DEF TypeOK, Places
    <3> QED
      BY <3>1, <3>2
  <2>2. CASE Stop(n)
    BY <1>1, <2>2, WorkersAreNoPlaces DEF Stop, Held, TypeOK, Places
  <2> QED
    BY <2>1, <2>2
<1>3. ASSUME NEW w \in Workers
      PROVE  \/ pc'[w] = pc[w] /\ msg'[w] = msg[w] /\ todo'[w] = todo[w]
             \/ pc'[w] = "out" /\ msg'[w] = NoMessage /\ todo'[w] = {}
  <2>1. CASE StopMiner(n)
    BY <2>1 DEF StopMiner
  <2>2. CASE Stop(n)
    BY <2>2 DEF Stop
  <2> QED
    BY <2>1, <2>2
<1>4. TypeOK'
  <2>1. /\ pc' \in [Workers -> Busy \cup {"out", "open", "dead"}]
        /\ msg' \in [Workers -> Messages \cup {NoMessage}]
        /\ todo' \in [Workers -> SUBSET Nodes]
    BY <1>1 DEF StopMiner, Stop, TypeOK
  <2> QED
    BY <1>1, <1>2, <2>1 DEF StopMiner, Stop, TypeOK
<1>5. AnnouncedOnce'
  <2>1. ASSUME NEW p \in Nodes, NEW b \in Blocks, OwnUnderWay(p, b)'
        PROVE  OwnUnderWay(p, b)
    BY <1>2, <2>1, MessageParts, WorkersAreNoPlaces DEF OwnUnderWay, Places
  <2>2. ASSUME NEW w \in Workers, NEW p \in Nodes, NEW b \in Blocks,
               Broadcasts(w, p, b)'
        PROVE  Broadcasts(w, p, b)
    BY <1>3, <2>2 DEF Broadcasts
  <2> QED
    BY <1>1, <1>2, <2>1, <2>2, QuietSteps DEF IInv, Quiet
<1>6. ASSUME NEW w \in Workers PROVE WorkerOK(w)'
  <2>1. CASE pc'[w] = "out"
    BY <2>1 DEF WorkerOK, Busy
  <2>2. CASE pc'[w] = pc[w] /\ msg'[w] = msg[w] /\ todo'[w] = todo[w]
    BY <1>1, <1>2, <2>2, WorkerUntouched DEF IInv
  <2> QED
    BY <1>3, <2>1, <2>2
<1>7. DealtRight'
  BY <1>1, <1>2, WorkersAreNoPlaces DEF DealtRight, Places
<1>8. ClosedHasTaken' /\ LossNeedsCompany'
  BY <1>1 DEF ClosedHasTaken, LossNeedsCompany
<1> QED
  BY <1>4, <1>5, <1>6, <1>7, <1>8 DEF IInv

------------------------------------------------------------------------------
(* Steps that announce *)

LEMMA MineKeepsIInv ==
    ASSUME IInv, NEW b \in Blocks, Mine(b)
    PROVE  IInv'
<1> USE DEF Mine
<1> DEFINE n == MinedBy[b]
           own == <<n, n, b>>
<1>1. TypeOK /\ n \in Nodes /\ own \in Messages
  BY GossipAssumption, MessageParts DEF IInv
<1>2. at[own] = "unsent" /\ Fresh(n, b)
  BY <1>1 DEF IInv, AnnouncedOnce
<1>3. /\ at'[own] = "pending"
      /\ \A m \in Messages \ {own} : at'[m] = at[m]
      /\ known'[n] = known[n] \cup {b}
      /\ \A p \in Nodes \ {n} : known'[p] = known[p]
  BY <1>1 DEF TypeOK
<1>4. TypeOK'
  BY <1>1 DEF TypeOK, Places
<1>5. AnnouncedOnce'
  <2> SUFFICES ASSUME NEW p \in Nodes, NEW c \in Blocks
               PROVE  /\ c \notin known'[p] =>
                             at'[<<p, p, c>>] = "unsent" /\ Fresh(p, c)'
                      /\ OwnUnderWay(p, c)' => Fresh(p, c)'
                      /\ \A w, v \in Workers :
                            Broadcasts(w, p, c)' /\ Broadcasts(v, p, c)' => w = v
    BY DEF AnnouncedOnce
  <2>1. Fresh(p, c) => Fresh(p, c)'
    BY <1>3, MessageParts DEF Fresh, Broadcasts
  <2>2. \A w \in Workers : Broadcasts(w, p, c)' <=> Broadcasts(w, p, c)
    BY DEF Broadcasts
  <2>3. CASE p = n /\ c = b
    BY <1>2, <1>3, <2>1, <2>2, <2>3 DEF IInv, AnnouncedOnce
  <2>4. CASE ~(p = n /\ c = b)
    <3>1. at'[<<p, p, c>>] = at[<<p, p, c>>]
      BY <1>3, <2>4, MessageParts
    <3>2. c \notin known'[p] => c \notin known[p]
      BY <1>3
    <3> QED
      BY <2>1, <2>2, <3>1, <3>2 DEF IInv, AnnouncedOnce, OwnUnderWay
  <2> QED
    BY <2>3, <2>4
<1>6. ASSUME NEW w \in Workers PROVE WorkerOK(w)'
  <2>1. WorkerOK(w)
    BY DEF IInv
  <2>2. pc[w] \in {"post", "answer"} =>
           \A p \in todo[w] : <<Me(w), p, Blk(msg[w])>> \in Messages \ {own}
    BY <1>1, <2>1, GossipAssumption, MessageParts, WorkersAreNoPlaces
       DEF WorkerOK, Busy, TypeOK
  <2> QED
    BY <1>3, <2>1, <2>2 DEF WorkerOK
<1>7. DealtRight' /\ ClosedHasTaken' /\ LossNeedsCompany'
  BY <1>2, <1>3, WorkersAreNoPlaces
     DEF IInv, DealtRight, ClosedHasTaken, LossNeedsCompany, Places
<1> QED
  BY <1>4, <1>5, <1>6, <1>7 DEF IInv

\* The worker that takes the miner's message becomes the one that broadcasts.
LEMMA ReceiveKeepsIInv ==
    ASSUME IInv, NEW w \in Workers, Receive(w)
    PROVE  IInv'
<1> USE DEF Receive, Goto
<1>1. TypeOK /\ Me(w) \in Nodes
  BY WorkersAreNoPlaces DEF IInv
<1>2. PICK m \in Messages :
          /\ at[m] = w
          /\ at' = [k \in Messages |-> IF k = m THEN "taken"
                                       ELSE IF at[k] = w THEN "lost" ELSE at[k]]
          /\ msg' = [msg EXCEPT ![w] = m]
          /\ IF From(m) = To(m)
             THEN /\ pc' = [pc EXCEPT ![w] = "post"]
                  /\ todo' = [todo EXCEPT ![w] = PeersOf[Me(w)]]
             ELSE pc' = [pc EXCEPT ![w] = "look"] /\ UNCHANGED todo
  OBVIOUS
<1>3. To(m) = Me(w)
  BY <1>2 DEF IInv, DealtRight
<1>4. /\ at'[m] = "taken"
      /\ \A k \in Messages \ {m} : at'[k] = IF at[k] = w THEN "lost" ELSE at[k]
      /\ \A k \in Messages : at[k] \in {"unsent", "taken"} => at'[k] = at[k]
  BY <1>2, WorkersAreNoPlaces DEF Places
<1>5. /\ msg'[w] = m
      /\ From(m) = To(m) => pc'[w] = "post" /\ todo'[w] = PeersOf[Me(w)]
      /\ From(m) # To(m) => pc'[w] = "look"
      /\ \A v \in Workers \ {w} :
            pc'[v] = pc[v] /\ msg'[v] = msg[v] /\ todo'[v] = todo[v]
  BY <1>1, <1>2 DEF TypeOK
<1>6. TypeOK'
  <2>1. at' \in [Messages -> Places \cup Workers]
    BY <1>1, <1>2 DEF TypeOK, Places
  <2>2. /\ pc' \in [Workers -> Busy \cup {"out", "open", "dead"}]
        /\ msg' \in [Workers -> Messages \cup {NoMessage}]
        /\ todo' \in [Workers -> SUBSET Nodes]
    BY <1>1, <1>2, GossipAssumption DEF TypeOK, Busy
  <2> QED
    BY <1>1, <2>1, <2>2 DEF TypeOK
<1>7. ASSUME NEW v \in Workers, NEW n \in Nodes, NEW b \in Blocks,
             Broadcasts(v, n, b)', ~Broadcasts(v, n, b)
      PROVE  v = w /\ m = <<n, n, b>> /\ OwnUnderWay(n, b)
  <2>1. v = w /\ Me(w) = n /\ Blk(m) = b /\ From(m) = To(m)
    BY <1>5, <1>7 DEF Broadcasts
  <2> QED
    BY <1>2, <1>3, <2>1, MessageParts DEF OwnUnderWay
<1>8. AnnouncedOnce'
  <2> SUFFICES ASSUME NEW n \in Nodes, NEW b \in Blocks
               PROVE  /\ b \notin known[n] =>
                             at'[<<n, n, b>>] = "unsent" /\ Fresh(n, b)'
                      /\ OwnUnderWay(n, b)' => Fresh(n, b)'
                      /\ \A u, v \in Workers :
                            Broadcasts(u, n, b)' /\ Broadcasts(v, n, b)' => u = v
    BY DEF AnnouncedOnce
  <2>1. OwnUnderWay(n, b)' => OwnUnderWay(n, b) /\ m # <<n, n, b>>
    BY <1>4, MessageParts, WorkersAreNoPlaces DEF OwnUnderWay, Places
  <2>2. Fresh(n, b) /\ m # <<n, n, b>> => Fresh(n, b)'
    BY <1>4, <1>7, MessageParts DEF Fresh
  <2>3. at[<<n, n, b>>] = "unsent" => m # <<n, n, b>>
    BY <1>2, WorkersAreNoPlaces DEF Places
  <2>4. OwnUnderWay(n, b) => \A v \in Workers : ~Broadcasts(v, n, b)
    BY DEF IInv, AnnouncedOnce, Fresh
  <2>5. \A u, v \in Workers :
           Broadcasts(u, n, b)' /\ Broadcasts(v, n, b)' => u = v
    BY <1>7, <2>4 DEF IInv, AnnouncedOnce
  <2> QED
    BY <1>4, <2>1, <2>2, <2>3, <2>5, MessageParts DEF IInv, AnnouncedOnce
<1>9. WorkerOK(w)'
  <2>1. CASE From(m) = To(m)
    <3> DEFINE b == Blk(m)
               n == Me(w)
    <3>1. m = <<n, n, b>> /\ b \in Blocks
      BY <1>3, <2>1, MessageParts
    <3>2. Fresh(n, b)
      BY <1>1, <1>2, <3>1 DEF IInv, AnnouncedOnce, OwnUnderWay
    <3>3. \A p \in PeersOf[n] : at'[<<n, p, b>>] = "unsent"
      BY <1>1, <1>4, <3>1, <3>2, GossipAssumption, MessageParts DEF Fresh
    <3> QED
      BY <1>3, <1>5, <2>1, <3>3 DEF WorkerOK, Busy
  <2>2. CASE From(m) # To(m)
    BY <1>3, <1>5, <2>2 DEF WorkerOK, Busy
  <2> QED
    BY <2>1, <2>2
<1>10. ASSUME NEW v \in Workers \ {w} PROVE WorkerOK(v)'
  BY <1>1, <1>4, <1>5, <1>10, WorkerUntouched DEF IInv
<1>11. DealtRight'
  BY <1>4, WorkersAreNoPlaces DEF IInv, DealtRight, Places
<1>12. ClosedHasTaken'
  BY <1>3, <1>4 DEF IInv, ClosedHasTaken
<1>13. LossNeedsCompany'
  <2> SUFFICES ASSUME "stops" \notin world, NEW k \in Messages, at'[k] = "lost"
               PROVE  \E l \in Messages \ {k} : To(l) = To(k) /\ at'[l] = "taken"
    BY DEF LossNeedsCompany
  <2>1. CASE at[k] = w
    BY <1>3, <1>4, <2>1 DEF IInv, DealtRight
  <2>2. CASE at[k] = "lost"
    BY <1>4, <2>2 DEF IInv, LossNeedsCompany
  <2> QED
    BY <1>4, <2>1, <2>2
<1> QED
  BY <1>6, <1>8, <1>9, <1>10, <1>11, <1>12, <1>13 DEF IInv

LEMMA AddKeepsIInv ==
    ASSUME IInv, NEW w \in Workers, Add(w)
    PROVE  IInv'
<1> USE DEF Add, Goto
<1> DEFINE n == Me(w)
           b == Blk(msg[w])
<1>1. TypeOK /\ n \in Nodes /\ WorkerOK(w)
  BY WorkersAreNoPlaces DEF IInv
<1>2. msg[w] \in Messages /\ To(msg[w]) = n /\ b \in Blocks
  BY <1>1, MessageParts DEF WorkerOK, Busy
<1>3. at[<<n, n, b>>] = "unsent" /\ Fresh(n, b)
  BY <1>1, <1>2 DEF IInv, AnnouncedOnce
<1>4. /\ pc'[w] = "post" /\ msg'[w] = msg[w] /\ todo'[w] = PeersOf[n]
      /\ \A v \in Workers \ {w} :
            pc'[v] = pc[v] /\ msg'[v] = msg[v] /\ todo'[v] = todo[v]
      /\ known'[n] = known[n] \cup {b}
      /\ \A p \in Nodes \ {n} : known'[p] = known[p]
  BY <1>1 DEF TypeOK
<1>5. TypeOK'
  BY <1>1, <1>2, GossipAssumption DEF TypeOK, Busy
<1>6. ASSUME NEW v \in Workers, NEW p \in Nodes, NEW c \in Blocks,
             Broadcasts(v, p, c)', ~Broadcasts(v, p, c)
      PROVE  v = w /\ p = n /\ c = b
  BY <1>4, <1>6 DEF Broadcasts
<1>7. AnnouncedOnce'
  <2> SUFFICES ASSUME NEW p \in Nodes, NEW c \in Blocks
               PROVE  /\ c \notin known'[p] =>
                             at[<<p, p, c>>] = "unsent" /\ Fresh(p, c)'
                      /\ OwnUnderWay(p, c) => Fresh(p, c)'
                      /\ \A u, v \in Workers :
                            Broadcasts(u, p, c)' /\ Broadcasts(v, p, c)' => u = v
    BY DEF AnnouncedOnce, OwnUnderWay
  <2>1. CASE p = n /\ c = b
    <3>1. ~OwnUnderWay(p, c)
      BY <1>3, <2>1, WorkersAreNoPlaces DEF OwnUnderWay, Places
    <3>2. \A v \in Workers : ~Broadcasts(v, p, c)
      BY <1>3, <2>1 DEF Fresh
    <3> QED
      BY <1>4, <1>6, <2>1, <3>1, <3>2
  <2>2. CASE ~(p = n /\ c = b)
    <3>1. c \notin known'[p] => c \notin known[p]
      BY <1>4
    <3>2. Fresh(p, c) => Fresh(p, c)'
      BY <1>6, <2>2 DEF Fresh
    <3> QED
      BY <1>6, <2>2, <3>1, <3>2 DEF IInv, AnnouncedOnce
  <2> QED
    BY <2>1, <2>2
<1>8. WorkerOK(w)'
  <2>1. \A p \in PeersOf[n] : at[<<n, p, b>>] = "unsent"
    BY <1>1, <1>3, GossipAssumption DEF Fresh
  <2> QED
    BY <1>2, <1>4, <2>1 DEF WorkerOK, Busy
<1>9. ASSUME NEW v \in Workers \ {w} PROVE WorkerOK(v)'
  BY <1>1, <1>4, <1>9, WorkerUntouched DEF IInv
<1> QED
  BY <1>5, <1>7, <1>8, <1>9, MessagesUntouched DEF IInv

LEMMA PostKeepsIInv ==
    ASSUME IInv, NEW w \in Workers, NEW p \in Nodes, Post(w, p)
    PROVE  IInv'
<1> USE DEF Post, IsNext, Goto
<1> DEFINE n == Me(w)
           b == Blk(msg[w])
           sent == <<n, p, b>>
<1>1. TypeOK /\ n \in Nodes /\ WorkerOK(w)
  BY WorkersAreNoPlaces DEF IInv
<1>2. /\ msg[w] \in Messages /\ To(msg[w]) = n /\ b \in Blocks
      /\ sent \in Messages
      /\ at[sent] = "unsent"
      /\ p # n
  BY <1>1, MessageParts, GossipAssumption DEF WorkerOK, Busy
<1>3. Broadcasts(w, n, b)
  BY DEF Broadcasts
<1>4. /\ at'[sent] = "pending"
      /\ \A m \in Messages \ {sent} : at'[m] = at[m]
      /\ pc'[w] = "answer" /\ msg'[w] = msg[w] /\ todo'[w] = todo[w] \ {p}
      /\ \A v \in Workers \ {w} :
            pc'[v] = pc[v] /\ msg'[v] = msg[v] /\ todo'[v] = todo[v]
  BY <1>1, <1>2 DEF TypeOK
<1>5. TypeOK'
  BY <1>1 DEF TypeOK, Busy, Places
<1>6. \A v \in Workers, q \in Nodes, c \in Blocks :
         Broadcasts(v, q, c)' <=> Broadcasts(v, q, c)
  BY <1>4 DEF Broadcasts
<1>7. AnnouncedOnce'
  <2> SUFFICES ASSUME NEW q \in Nodes, NEW c \in Blocks
               PROVE  /\ c \notin known[q] =>
                             at'[<<q, q, c>>] = "unsent" /\ Fresh(q, c)'
                      /\ OwnUnderWay(q, c)' => Fresh(q, c)'
                      /\ \A u, v \in Workers :
                            Broadcasts(u, q, c)' /\ Broadcasts(v, q, c)' => u = v
    BY DEF AnnouncedOnce
  <2>1. at'[<<q, q, c>>] = at[<<q, q, c>>]
    BY <1>2, <1>4, MessageParts
  <2>2. Fresh(q, c) => Fresh(q, c)'
    <3> SUFFICES ASSUME Fresh(q, c) PROVE Fresh(q, c)'
      OBVIOUS
    <3>1. ~(q = n /\ c = b)
      BY <1>3 DEF Fresh
    <3>2. \A r \in Nodes : <<q, r, c>> \in Messages \ {sent}
      BY <3>1, MessageParts
    <3> QED
      BY <1>4, <1>6, <3>2 DEF Fresh
  <2> QED
    BY <1>6, <2>1, <2>2 DEF IInv, AnnouncedOnce, OwnUnderWay
<1>8. ASSUME NEW v \in Workers, NEW q \in todo'[v], pc[v] \in {"post", "answer"}
      PROVE  at'[<<Me(v), q, Blk(msg[v])>>] = "unsent"
  <2>1. /\ q \in todo[v] /\ q \in Nodes /\ Me(v) \in Nodes
        /\ msg[v] \in Messages /\ Blk(msg[v]) \in Blocks
        /\ at[<<Me(v), q, Blk(msg[v])>>] = "unsent"
    BY <1>1, <1>4, <1>8, WorkersAreNoPlaces, MessageParts
       DEF IInv, WorkerOK, Busy, TypeOK
  <2>2. CASE Me(v) = n /\ Blk(msg[v]) = b
    <3>1. v = w
      BY <1>1, <1>2, <1>3, <1>8, <2>2 DEF IInv, AnnouncedOnce, Broadcasts
    <3>2. q # p
      BY <1>4, <3>1
    <3> QED
      BY <1>4, <2>1, <3>2, MessageParts
  <2>3. CASE ~(Me(v) = n /\ Blk(msg[v]) = b)
    BY <1>4, <2>1, <2>3, MessageParts
  <2> QED
    BY <2>2, <2>3
<1>9. ASSUME NEW v \in Workers PROVE WorkerOK(v)'
  BY <1>4, <1>8 DEF IInv, WorkerOK, Busy
<1>10. \A m \in Messages :
          at'[m] \in {"taken", "lost"} \cup Workers \/ at[m] = "taken" => at'[m] = at[m]
  BY <1>2, <1>4, WorkersAreNoPlaces DEF Places
<1>11. DealtRight'
  BY <1>10 DEF IInv, DealtRight
<1>12. ClosedHasTaken'
  BY <1>10 DEF IInv, ClosedHasTaken
<1>13. LossNeedsCompany'
  BY <1>10 DEF IInv, LossNeedsCompany
<1> QED
  BY <1>5, <1>7, <1>9, <1>11, <1>12, <1>13 DEF IInv

------------------------------------------------------------------------------
(* The theorems *)

LEMMA NextKeepsIInv == IInv /\ [Next]_vars => IInv'
<1> SUFFICES ASSUME IInv, [Next]_vars PROVE IInv'
  OBVIOUS
<1>1. CASE UNCHANGED vars
  BY <1>1
     DEF vars, IInv, TypeOK, AnnouncedOnce, OwnUnderWay, Fresh, Broadcasts,
         WorkerOK, DealtRight, ClosedHasTaken, LossNeedsCompany
<1>2. CASE Next
  BY <1>2, CarryKeepsIInv, RunningKeepsIInv, IdlingKeepsIInv, ReceiveKeepsIInv,
     AddKeepsIInv, PostKeepsIInv, MineKeepsIInv, StoppingKeepsIInv
     DEF Next, Work, Run
<1> QED
  BY <1>1, <1>2

\* The inductive invariant of queue, workers and inbox holds throughout.
THEOREM GossipInvariance == Spec => []IInv
  BY InitIInv, NextKeepsIInv, PTL DEF Spec

\* A message is lost only together with one that is taken, unless a node is
\* stopped.
THEOREM LossesNeedCompany == Spec => []LossNeedsCompany
  BY GossipInvariance, PTL DEF IInv

\* The announcement of a block by a node has one token at most.
THEOREM BlocksAreAnnouncedOnce == Spec => []AnnouncedOnce
  BY GossipInvariance, PTL DEF IInv

\* A message that is taken or lost stays so, and one under way was sent once.
LEMMA StepIsDelivered ==
    IInv /\ [Next]_vars => [Delivered!Next]_Fate
<1> SUFFICES ASSUME IInv, [Next]_vars
             PROVE  Delivered!Next \/ Fate' = Fate
  OBVIOUS
<1> DEFINE Moves(m) == \/ Fate'[m] = Fate[m]
                       \/ Fate[m] = "unsent" /\ Fate'[m] = "under way"
                       \/ /\ Fate[m] = "under way"
                          /\ Fate'[m] \in {"taken", "lost"}
<1>1. TypeOK /\ TypeOK'
  BY NextKeepsIInv DEF IInv
<1>2. Fate' \in [Messages -> Delivered!Fates]
  BY DEF Fate, Delivered!Fates
<1>3. ASSUME NEW m \in Messages, at'[m] = at[m] PROVE Moves(m)
  BY <1>3 DEF Fate
<1>4. ASSUME NEW m \in Messages, at[m] = "unsent", at'[m] = "pending" PROVE Moves(m)
  BY <1>4 DEF Fate
<1>5. ASSUME NEW m \in Messages, at[m] \in {"pending", "waiting"} \cup Workers,
             at'[m] \notin {"unsent"}
      PROVE  Moves(m)
  BY <1>1, <1>5, WorkersAreNoPlaces DEF Fate, TypeOK, Places
<1> HIDE DEF Moves
<1>6. ASSUME NEW k \in Messages, Carry(k), NEW m \in Messages PROVE Moves(m)
  <2>1. CASE m = k
    BY <1>1, <1>5, <1>6, <2>1, WorkersAreNoPlaces
       DEF Carry, Enqueued, Deal, TypeOK, Places
  <2>2. CASE m # k
    BY <1>1, <1>3, <1>6, <2>2 DEF Carry, Enqueued, Deal, TypeOK
  <2> QED
    BY <2>1, <2>2
<1>7. ASSUME NEW w \in Workers, Receive(w), NEW m \in Messages PROVE Moves(m)
  <2>1. CASE at[m] = w
    BY <1>1, <1>5, <1>7, <2>1, WorkersAreNoPlaces DEF Receive, TypeOK, Places
  <2>2. CASE at[m] # w
    BY <1>1, <1>3, <1>7, <2>2, WorkersAreNoPlaces DEF Receive, TypeOK, Places
  <2> QED
    BY <2>1, <2>2
<1>8. ASSUME NEW w \in Workers, NEW p \in Nodes, Post(w, p), NEW m \in Messages
      PROVE  Moves(m)
  <2> DEFINE sent == <<Me(w), p, Blk(msg[w])>>
  <2>1. sent \in Messages /\ at[sent] = "unsent"
    BY <1>1, <1>8, MessageParts, WorkersAreNoPlaces
       DEF Post, IsNext, IInv, WorkerOK, Busy
  <2>2. at'[sent] = "pending" /\ \A k \in Messages \ {sent} : at'[k] = at[k]
    BY <1>1, <1>8, <2>1 DEF Post, TypeOK
  <2> QED
    BY <1>3, <1>4, <2>1, <2>2
<1>9. ASSUME NEW b \in Blocks, Mine(b), NEW m \in Messages PROVE Moves(m)
  <2> DEFINE own == <<MinedBy[b], MinedBy[b], b>>
  <2>1. own \in Messages /\ at[own] = "unsent"
    BY <1>9, GossipAssumption, MessageParts DEF Mine, IInv, AnnouncedOnce
  <2>2. at'[own] = "pending" /\ \A k \in Messages \ {own} : at'[k] = at[k]
    BY <1>1, <1>9, <2>1 DEF Mine, TypeOK
  <2> QED
    BY <1>3, <1>4, <2>1, <2>2
<1>10. ASSUME NEW n \in Nodes, StopMiner(n) \/ Stop(n), NEW m \in Messages
       PROVE  Moves(m)
  <2>1. \/ at'[m] = at[m]
        \/ at'[m] = "lost" /\ at[m] \in {"pending", "waiting"} \cup Workers
    <3>1. CASE StopMiner(n)
      BY <1>1, <3>1 DEF StopMiner, TypeOK
    <3>2. CASE Stop(n)
      BY <3>2 DEF Stop, Held
    <3> QED
      BY <1>10, <3>1, <3>2
  <2> QED
    BY <1>3, <1>5, <2>1
<1>11. CASE at' = at
  BY <1>11 DEF Fate
<1>12. ASSUME at' # at, NEW m \in Messages PROVE Moves(m)
  <2>1. ASSUME NEW w \in Workers, Work(w)
        PROVE  Receive(w) \/ \E p \in Nodes : Post(w, p)
    BY <1>12, <2>1
       DEF Work, Dequeue, Look, Fetch, Refuse, FetchRaises, Add, AddRaises,
           PostRefused, Answered, PostsDone
  <2>2. ASSUME NEW w \in Workers, Notice(w) PROVE FALSE
    BY <1>12, <2>2 DEF Notice
  <2>3. ASSUME NEW n \in Nodes, Run(n) \/ Start(n) PROVE FALSE
    BY <1>12, <2>3 DEF Run, ProxyStarts, ProxyFails, Start
  <2> QED
    BY <1>6, <1>7, <1>8, <1>9, <1>10, <1>12, <2>1, <2>2, <2>3 DEF Next, vars
<1>13. (\A m \in Messages : Moves(m)) => Delivered!Next
  BY <1>2 DEF Moves, Delivered!Next, Delivered!Send, Delivered!End
<1> QED
  BY <1>11, <1>12, <1>13

\* Whatever workers handle at once and whoever stops: a node announces a block
\* to a peer at most once, and the message is taken at most once.
THEOREM GossipDeliversOnce == Spec => DeliverySpec
<1>1. Init => Delivered!Init
  BY DEF Init, Fate, Delivered!Init
<1> QED
  BY <1>1, GossipInvariance, StepIsDelivered, PTL
     DEF Spec, DeliverySpec, Delivered!Spec

------------------------------------------------------------------------------
(* Deaths *)

\* A taken message from a peer is about a block that the peer has stored, and
\* then its miner has stored it too.
LEMMA TakenIsKnown ==
    ASSUME IInv, TwinInv, NEW m \in Messages, at[m] = "taken", From(m) # To(m)
    PROVE  Blk(m) \in known[MinedBy[Blk(m)]]
<1> DEFINE n == From(m)
           p == To(m)
           b == Blk(m)
<1>1. n \in Nodes /\ p \in Nodes \ {n} /\ b \in Blocks /\ at[<<n, p, b>>] = "taken"
  BY MessageParts
<1> HIDE DEF n, p, b
<1>2. b \in known[n]
  BY <1>1 DEF IInv, AnnouncedOnce, Fresh
<1>3. b \in known[MinedBy[b]]
  BY <1>1, <1>2 DEF TwinInv, KnownToMiner
<1> QED
  BY <1>3 DEF b

\* No message is taken and no block stored.  A worker may go on with its
\* message, to fetch a block only if its node has not stored it.
TwinQuiet ==
    /\ known' = known /\ world' = world
    /\ world \subseteq {"clash"} /\ up = Nodes => up' = Nodes
    /\ \A m \in Messages : at[m] = "taken" => at'[m] = "taken"
    /\ \A w \in Workers :
          /\ pc'[w] \in Busy => pc[w] \in Busy /\ msg'[w] = msg[w]
          /\ pc'[w] \in {"look", "fetch", "add"} => Told(w)
          /\ pc'[w] \in {"fetch", "add"} =>
                pc[w] \in {"fetch", "add"} \/ Blk(msg[w]) \notin known[Me(w)]

LEMMA QuietKeepsTwin ==
    ASSUME IInv, TwinInv, TwinQuiet
    PROVE  TwinInv'
<1>1. (world \subseteq {"clash"} => up = Nodes)' /\ KnownToMiner'
  BY DEF TwinInv, TwinQuiet, KnownToMiner
<1>2. ASSUME NEW w \in Workers PROVE TakenOK(w)'
  <2>1. TakenOK(w) /\ WorkerOK(w)
    BY DEF TwinInv, IInv
  <2>2. pc'[w] \in Busy => at'[msg'[w]] = "taken"
    BY <2>1 DEF TwinQuiet, TakenOK, WorkerOK
  <2>3. Told(w)' => From(msg'[w]) # Me(w)
    BY <2>1 DEF TwinQuiet, TakenOK, Told, Busy
  <2>4. ASSUME NEW v \in Workers, pc'[w] \in Busy, pc'[v] \in Busy, msg'[v] = msg'[w]
        PROVE  v = w
    BY <2>1, <2>4 DEF TwinQuiet, TakenOK
  <2> QED
    BY <2>2, <2>3, <2>4 DEF TakenOK
<1>3. ASSUME NEW w \in Workers PROVE NewsOrTwin(w)'
  <2> SUFFICES ASSUME pc'[w] \in {"fetch", "add"}
               PROVE  /\ MinedBy[Blk(msg[w])] # Me(w)
                      /\ Blk(msg[w]) \in known[Me(w)] =>
                            \E v \in Ours(Me(w)) : v # w
    BY DEF NewsOrTwin, TwinQuiet, Busy
  <2>1. CASE pc[w] \in {"fetch", "add"}
    BY <2>1 DEF TwinInv, NewsOrTwin
  <2>2. CASE Blk(msg[w]) \notin known[Me(w)]
    <3>1. Told(w) /\ pc[w] \in Busy
      BY DEF TwinQuiet, Busy
    <3>2. /\ msg[w] \in Messages /\ To(msg[w]) = Me(w)
          /\ at[msg[w]] = "taken" /\ From(msg[w]) # Me(w)
      BY <3>1 DEF IInv, WorkerOK, TwinInv, TakenOK
    <3> QED
      BY <2>2, <3>2, TakenIsKnown
  <2> QED
    BY <2>1, <2>2 DEF TwinQuiet
<1>4. BroughtByMessage'
  <2> SUFFICES ASSUME NEW n \in Nodes, NEW b \in Blocks,
                      b \in known[n], MinedBy[b] # n
               PROVE  \E k \in Messages :
                         /\ To(k) = n /\ Blk(k) = b /\ at'[k] = "taken"
                         /\ \A w \in Workers : Told(w)' => msg'[w] # k
    BY DEF BroughtByMessage, TwinQuiet
  <2>1. PICK k \in Messages :
            /\ To(k) = n /\ Blk(k) = b /\ at[k] = "taken"
            /\ \A w \in Workers : Told(w) => msg[w] # k
    BY DEF TwinInv, BroughtByMessage
  <2>2. \A w \in Workers : Told(w)' => Told(w) /\ msg'[w] = msg[w]
    BY DEF TwinQuiet, Told, Busy
  <2> QED
    BY <2>1, <2>2 DEF TwinQuiet
<1> QED
  BY <1>1, <1>2, <1>3, <1>4 DEF TwinInv

LEMMA RunningIsTwinQuiet ==
    ASSUME IInv, TwinInv,
           \/ \E m \in Messages : Carry(m)
           \/ \E n \in Nodes : Run(n) \/ StopMiner(n) \/ Stop(n) \/ Start(n)
           \/ \E w \in Workers : Notice(w)
    PROVE  TwinQuiet
<1>1. TypeOK
  BY DEF IInv
<1>2. CASE \/ \E n \in Nodes : Run(n) \/ Start(n)
           \/ \E w \in Workers : Notice(w)
  BY <1>2
     DEF TwinQuiet, Told, Busy, Run, ProxyStarts, ProxyFails, Start, Notice
<1>3. ASSUME NEW m \in Messages, Carry(m) PROVE TwinQuiet
  <2>1. UNCHANGED <<up, pc, msg, known, world>>
    BY <1>3 DEF Carry, Enqueued, Deal
  <2>2. /\ at[m] \in {"pending", "waiting"}
        /\ \A k \in Messages \ {m} : at'[k] = at[k]
    BY <1>1, <1>3 DEF Carry, Enqueued, Deal, TypeOK
  <2> QED
    BY <2>1, <2>2 DEF TwinQuiet, Told, Busy
<1>4. ASSUME NEW n \in Nodes, StopMiner(n) PROVE TwinQuiet
  <2>1. UNCHANGED <<up, pc, msg, known, world>>
    BY <1>4 DEF StopMiner
  <2>2. \A k \in Messages : at[k] = "taken" => at'[k] = "taken"
    BY <1>1, <1>4, MessageParts DEF StopMiner, TypeOK
  <2> QED
    BY <2>1, <2>2 DEF TwinQuiet, Told, Busy
<1>5. ASSUME NEW n \in Nodes, Stop(n) PROVE TwinQuiet
  <2>1. /\ known' = known /\ world' = world /\ "stops" \in world
        /\ \A w \in Workers : \/ pc'[w] = "out"
                              \/ pc'[w] = pc[w] /\ msg'[w] = msg[w]
    BY <1>5 DEF Stop
  <2>2. \A k \in Messages : at[k] = "taken" => at'[k] = "taken"
    BY <1>5, WorkersAreNoPlaces DEF Stop, Held, Places
  <2> QED
    BY <2>1, <2>2 DEF TwinQuiet, Told, Busy
<1> QED
  BY <1>2, <1>3, <1>4, <1>5

LEMMA WorkIsTwinQuiet ==
    ASSUME IInv, TwinInv, NEW w \in Workers,
           \/ Dequeue(w) \/ Look(w) \/ Fetch(w) \/ Refuse(w) \/ FetchRaises(w)
           \/ AddRaises(w)
           \/ \E p \in Nodes : Post(w, p) \/ PostRefused(w, p)
           \/ Answered(w) \/ PostsDone(w)
    PROVE  TwinQuiet
<1> USE DEF Dequeue, Look, Fetch, Refuse, FetchRaises, AddRaises, Answered,
            PostsDone, Post, PostRefused, IsNext, Idle, Goto
<1>1. TypeOK /\ WorkerOK(w)
  BY DEF IInv
<1>2. UNCHANGED <<up, known, world>>
  OBVIOUS
<1>3. \A v \in Workers \ {w} : pc'[v] = pc[v] /\ msg'[v] = msg[v]
  BY <1>1 DEF TypeOK
<1>4. \/ pc'[w] \in {"out", "open", "dead"}
      \/ /\ pc[w] \in Busy /\ msg'[w] = msg[w]
         /\ \/ pc'[w] \in {"post", "answer"}
            \/ pc'[w] = pc[w]
            \/ /\ pc'[w] \in {"fetch", "add"} /\ pc[w] \in {"look", "fetch"}
               /\ Blk(msg[w]) \notin known[Me(w)]
  BY <1>1 DEF TypeOK, Busy
<1>5. \A m \in Messages : at[m] = "taken" => at'[m] = "taken"
  <2>1. CASE at' = at
    BY <2>1
  <2>2. ASSUME NEW p \in Nodes, Post(w, p)
        PROVE  \A m \in Messages : at[m] = "taken" => at'[m] = "taken"
    <3>1. at[<<Me(w), p, Blk(msg[w])>>] = "unsent"
      BY <1>1, <2>2 DEF WorkerOK
    <3> QED
      BY <1>1, <2>2, <3>1 DEF TypeOK
  <2> QED
    BY <2>1, <2>2
<1> HIDE DEF Dequeue, Look, Fetch, Refuse, FetchRaises, AddRaises, Answered,
            PostsDone,  Post, PostRefused, IsNext, Idle, Goto
<1> QED
  BY <1>2, <1>3, <1>4, <1>5 DEF TwinQuiet, Told, Busy

\* The worker that takes a message is the only one at work on it.
LEMMA ReceiveKeepsTwin ==
    ASSUME IInv, TwinInv, NEW w \in Workers, Receive(w)
    PROVE  TwinInv'
<1>1. TypeOK
  BY DEF IInv
<1>2. PICK m \in Messages :
          /\ at[m] = w
          /\ at' = [k \in Messages |-> IF k = m THEN "taken"
                                       ELSE IF at[k] = w THEN "lost" ELSE at[k]]
          /\ msg' = [msg EXCEPT ![w] = m]
          /\ pc' = [pc EXCEPT ![w] = IF From(m) = To(m) THEN "post" ELSE "look"]
  BY DEF Receive, Goto
<1>3. UNCHANGED <<up, known, world>>
  BY DEF Receive
<1>4. /\ at[m] # "taken" /\ at'[m] = "taken"
      /\ \A k \in Messages : at[k] = "taken" => at'[k] = "taken"
  BY <1>2, WorkersAreNoPlaces DEF Places
<1>5. /\ msg'[w] = m
      /\ pc'[w] = IF From(m) = To(m) THEN "post" ELSE "look"
      /\ \A v \in Workers \ {w} : pc'[v] = pc[v] /\ msg'[v] = msg[v]
  BY <1>1, <1>2 DEF TypeOK
<1>6. \A v \in Workers : pc[v] \in Busy =>
         msg[v] \in Messages /\ at[msg[v]] = "taken" /\ msg[v] # m
  BY <1>4 DEF IInv, WorkerOK, TwinInv, TakenOK
<1>7. To(m) = Me(w)
  BY <1>2 DEF IInv, DealtRight
<1>8. ASSUME NEW v \in Workers PROVE TakenOK(v)'
  <2>1. CASE v = w
    BY <1>4, <1>5, <1>6, <1>7, <2>1 DEF TakenOK, Told
  <2>2. CASE v # w
    <3>1. TakenOK(v)
      BY DEF TwinInv
    <3> QED
      BY <1>4, <1>5, <1>6, <2>2, <3>1 DEF TakenOK, Told
  <2> QED
    BY <2>1, <2>2
<1>9. ASSUME NEW v \in Workers PROVE NewsOrTwin(v)'
  BY <1>3, <1>5 DEF NewsOrTwin, TwinInv
<1>10. BroughtByMessage'
  <2> SUFFICES ASSUME NEW n \in Nodes, NEW b \in Blocks,
                      b \in known[n], MinedBy[b] # n
               PROVE  \E k \in Messages :
                         /\ To(k) = n /\ Blk(k) = b /\ at'[k] = "taken"
                         /\ \A v \in Workers : Told(v)' => msg'[v] # k
    BY <1>3 DEF BroughtByMessage
  <2>1. PICK k \in Messages :
            /\ To(k) = n /\ Blk(k) = b /\ at[k] = "taken"
            /\ \A v \in Workers : Told(v) => msg[v] # k
    BY DEF TwinInv, BroughtByMessage
  <2> QED
    BY <1>4, <1>5, <2>1 DEF Told
<1> QED
  BY <1>3, <1>8, <1>9, <1>10 DEF TwinInv, KnownToMiner

\* The message of a worker that stores its block is the one that brought it, and
\* this worker the twin of those that are still at the block.
LEMMA AddKeepsTwin ==
    ASSUME IInv, TwinInv, NEW w \in Workers, Add(w)
    PROVE  TwinInv'
<1> DEFINE n == Me(w)
           b == Blk(msg[w])
<1>1. TypeOK /\ WorkerOK(w) /\ TakenOK(w) /\ NewsOrTwin(w) /\ n \in Nodes
  BY WorkersAreNoPlaces DEF IInv, TwinInv
<1>2. /\ pc[w] = "add" /\ UNCHANGED <<at, up, msg, world>>
      /\ pc'[w] = "post"
      /\ \A v \in Workers \ {w} : pc'[v] = pc[v]
      /\ known'[n] = known[n] \cup {b}
      /\ \A p \in Nodes \ {n} : known'[p] = known[p]
  BY <1>1 DEF Add, Goto, TypeOK
<1>3. /\ msg[w] \in Messages /\ To(msg[w]) = n /\ b \in Blocks
      /\ at[msg[w]] = "taken" /\ From(msg[w]) # n
  BY <1>1, <1>2, MessageParts DEF WorkerOK, TakenOK, Told, Busy
<1>4. b \in known[MinedBy[b]] /\ MinedBy[b] \in Nodes
  BY <1>3, TakenIsKnown, GossipAssumption
<1>5. KnownToMiner'
  <2>1. \A c \in Blocks : known[MinedBy[c]] \subseteq known'[MinedBy[c]]
    BY <1>2, GossipAssumption
  <2> QED
    BY <1>2, <1>4, <2>1 DEF TwinInv, KnownToMiner
<1>6. ASSUME NEW v \in Workers PROVE TakenOK(v)'
  <2>1. TakenOK(v)
    BY DEF TwinInv
  <2>2. \A u \in Workers : /\ pc'[u] \in Busy => pc[u] \in Busy
                           /\ Told(u)' => Told(u)
    BY <1>2 DEF Told, Busy
  <2> QED
    BY <1>2, <2>1, <2>2 DEF TakenOK
<1>7. ASSUME NEW v \in Workers PROVE NewsOrTwin(v)'
  <2> SUFFICES ASSUME pc'[v] \in {"fetch", "add"}
               PROVE  /\ MinedBy[Blk(msg[v])] # Me(v)
                      /\ Blk(msg[v]) \in known'[Me(v)] =>
                            \E u \in Ours(Me(v)) : u # v
    BY <1>2 DEF NewsOrTwin
  <2>1. v # w /\ pc[v] \in {"fetch", "add"} /\ NewsOrTwin(v)
    BY <1>2 DEF TwinInv
  <2>2. CASE Me(v) = n
    BY <2>1, <2>2 DEF NewsOrTwin, Ours, Me
  <2>3. CASE Me(v) # n
    BY <1>2, <2>1, <2>3, WorkersAreNoPlaces DEF NewsOrTwin
  <2> QED
    BY <2>2, <2>3
<1>8. BroughtByMessage'
  <2> SUFFICES ASSUME NEW p \in Nodes, NEW c \in Blocks,
                      c \in known'[p], MinedBy[c] # p
               PROVE  \E k \in Messages :
                         /\ To(k) = p /\ Blk(k) = c /\ at[k] = "taken"
                         /\ \A v \in Workers : Told(v)' => msg[v] # k
    BY <1>2 DEF BroughtByMessage
  <2>1. \A v \in Workers : Told(v)' => Told(v) /\ v # w
    BY <1>2 DEF Told
  <2>2. CASE c \in known[p]
    <3>1. PICK k \in Messages :
              /\ To(k) = p /\ Blk(k) = c /\ at[k] = "taken"
              /\ \A v \in Workers : Told(v) => msg[v] # k
      BY <2>2 DEF TwinInv, BroughtByMessage
    <3> QED
      BY <2>1, <3>1
  <2>3. CASE c \notin known[p]
    <3>1. p = n /\ c = b
      BY <1>2, <2>3
    <3>2. \A v \in Workers : Told(v)' => msg[v] # msg[w]
      BY <1>1, <1>2, <2>1 DEF TakenOK, Told, Busy
    <3> QED
      BY <1>3, <3>1, <3>2
  <2> QED
    BY <2>2, <2>3
<1> QED
  BY <1>2, <1>5, <1>6, <1>7, <1>8 DEF TwinInv

\* A worker that fetches a block is not at the node that mines it.
LEMMA MineKeepsTwin ==
    ASSUME IInv, TwinInv, NEW b \in Blocks, Mine(b)
    PROVE  TwinInv'
<1> DEFINE n == MinedBy[b]
           own == <<n, n, b>>
<1>1. TypeOK /\ n \in Nodes /\ own \in Messages
  BY GossipAssumption, MessageParts DEF IInv
<1>2. /\ UNCHANGED <<up, pc, msg, world>>
      /\ \A m \in Messages : at[m] = "taken" => at'[m] = "taken"
      /\ known'[n] = known[n] \cup {b}
      /\ \A p \in Nodes \ {n} : known'[p] = known[p]
  <2>1. at[own] = "unsent"
    BY <1>1 DEF Mine, IInv, AnnouncedOnce
  <2> QED
    BY <1>1, <2>1 DEF Mine, TypeOK
<1>3. KnownToMiner'
  <2>1. \A c \in Blocks : known[MinedBy[c]] \subseteq known'[MinedBy[c]]
    BY <1>1, <1>2, GossipAssumption
  <2> QED
    BY <1>1, <1>2, <2>1 DEF TwinInv, KnownToMiner
<1>4. ASSUME NEW v \in Workers PROVE TakenOK(v)'
  BY <1>2 DEF TwinInv, TakenOK, Told, IInv, WorkerOK
<1>5. ASSUME NEW v \in Workers PROVE NewsOrTwin(v)'
  BY <1>1, <1>2, WorkersAreNoPlaces DEF TwinInv, NewsOrTwin
<1>6. BroughtByMessage'
  <2> SUFFICES ASSUME NEW p \in Nodes, NEW c \in Blocks,
                      c \in known'[p], MinedBy[c] # p
               PROVE  \E k \in Messages :
                         /\ To(k) = p /\ Blk(k) = c /\ at'[k] = "taken"
                         /\ \A v \in Workers : Told(v) => msg[v] # k
    BY <1>2 DEF BroughtByMessage, Told
  <2>1. c \in known[p]
    BY <1>1, <1>2
  <2> QED
    BY <1>2, <2>1 DEF TwinInv, BroughtByMessage
<1> QED
  BY <1>2, <1>3, <1>4, <1>5, <1>6 DEF TwinInv

LEMMA InitTwin == Init => TwinInv
BY DEF Init, TwinInv, KnownToMiner, BroughtByMessage, TakenOK, NewsOrTwin, Told, Busy

LEMMA NextKeepsTwin == IInv /\ TwinInv /\ [Next]_vars => TwinInv'
<1> SUFFICES ASSUME IInv, TwinInv, [Next]_vars PROVE TwinInv'
  OBVIOUS
<1>1. CASE UNCHANGED vars
  BY <1>1, QuietKeepsTwin DEF vars, TwinQuiet, Told, Busy
<1>2. CASE Next
  BY <1>2, RunningIsTwinQuiet, WorkIsTwinQuiet, QuietKeepsTwin,
     ReceiveKeepsTwin, AddKeepsTwin, MineKeepsTwin DEF Next, Work
<1> QED
  BY <1>1, <1>2

\* No step but AddRaises kills a worker while nodes run, headers arrive and the
\* block does not clash with others.
LEMMA DeathHasTwin ==
    ASSUME IInv, TwinInv, [Next]_vars, NEW w \in Workers,
           pc[w] # "dead", pc'[w] = "dead",
           world \subseteq {"clash"}, ~MayClash(Blk(msg[w]))
    PROVE  /\ Blk(msg[w]) \in known[Me(w)]
           /\ \E v \in Ours(Me(w)) \ {w}, k \in Messages \ {msg[w]} :
                 To(k) = Me(w) /\ Blk(k) = Blk(msg[w]) /\ at[k] = "taken"
<1>1. TypeOK /\ WorkerOK(w) /\ TakenOK(w) /\ NewsOrTwin(w) /\ Me(w) \in Nodes
  BY WorkersAreNoPlaces DEF IInv, TwinInv
<1>2. FetchRaises(w) \/ AddRaises(w)
  <2>1. ASSUME NEW v \in Workers, Work(v) PROVE FetchRaises(w) \/ AddRaises(w)
    <3> USE DEF Dequeue, Receive, Look, Fetch, Refuse, FetchRaises, Add, AddRaises,
                Post, PostRefused, Answered, PostsDone, Idle, Goto
    <3>1. v = w
      BY <1>1, <2>1 DEF Work, TypeOK
    <3>2. CASE Receive(w)
      BY <1>1, <3>2 DEF TypeOK
    <3> QED
      BY <1>1, <2>1, <3>1, <3>2 DEF Work, TypeOK
  <2>2. CASE pc' = pc
    BY <2>2
  <2>3. ASSUME NEW n \in Nodes, Stop(n) PROVE FALSE
    BY <2>3 DEF Stop
  <2> QED
    BY <2>1, <2>2, <2>3
       DEF Next, vars, Carry, Enqueued, Deal, Notice, Mine, Run, ProxyStarts,
           ProxyFails, StopMiner, Start
<1>3. pc[w] \in Busy /\ msg[w] \in Messages /\ From(msg[w]) \in Nodes
      /\ Blk(msg[w]) \in Blocks
  BY <1>1, <1>2, MessageParts DEF FetchRaises, AddRaises, Busy, WorkerOK
<1>4. ~FetchRaises(w)
  BY <1>3 DEF FetchRaises, TwinInv
<1>5. pc[w] = "add" /\ Blk(msg[w]) \in known[Me(w)]
  BY <1>2, <1>4 DEF AddRaises
<1>6. MinedBy[Blk(msg[w])] # Me(w) /\ \E v \in Ours(Me(w)) : v # w
  BY <1>1, <1>5 DEF NewsOrTwin
<1>7. PICK k \in Messages :
          /\ To(k) = Me(w) /\ Blk(k) = Blk(msg[w]) /\ at[k] = "taken"
          /\ \A v \in Workers : Told(v) => msg[v] # k
  BY <1>1, <1>3, <1>5, <1>6 DEF TwinInv, BroughtByMessage
<1>8. msg[w] # k
  BY <1>5, <1>7 DEF Told
<1> QED
  BY <1>5, <1>6, <1>7, <1>8

\* But for the defect, for lost peers, for queues that fail and for blocks that
\* may clash with others, a worker dies only of a block that its node was told of
\* twice and has stored.
THEOREM DeathsNeedTwins == Spec => DeathNeedsTwin
<1>1. IInv /\ TwinInv /\ [Next]_vars =>
         [\A w \in Workers :
             (/\ pc[w] # "dead" /\ pc'[w] = "dead"
              /\ world \subseteq {"clash"} /\ ~MayClash(Blk(msg[w])))
             => /\ Blk(msg[w]) \in known[Me(w)]
                /\ \E v \in Ours(Me(w)) \ {w}, k \in Messages \ {msg[w]} :
                      To(k) = Me(w) /\ Blk(k) = Blk(msg[w]) /\ at[k] = "taken"]_vars
  BY DeathHasTwin
<1>2. Spec => []TwinInv
  BY InitTwin, NextKeepsTwin, GossipInvariance, PTL DEF Spec
<1> QED
  BY <1>1, <1>2, GossipInvariance, PTL DEF Spec, DeathNeedsTwin
==============================================================================
