------------------------------- MODULE Gossip -------------------------------
(***************************************************************************)
(* How nodes tell one another of a new block: the miner's own message,     *)
(* broadcast_block_inv of services/api_client.py, the inbox of             *)
(* routes/permissioned.py, the queue of services/queue.py, and BLOCK_INV   *)
(* and BLOCK_HEADER in FullNode.worker of crankycoin/node.py.  There is    *)
(* one message at most for a sender, a receiver and a block.               *)
(*                                                                         *)
(* Here the predecessor of a block is stored, and how a block is validated *)
(* is in Node and Synchronize; it may be refused, or end the worker.  The  *)
(* server of a node that is up is busy with its inbox at most; in Peers it *)
(* may be stuck in a handshake as well.                                    *)
(***************************************************************************)
EXTENDS FiniteSets

CONSTANTS
    Nodes,
    Workers,   \* the queue workers of all nodes
    NodeOf,    \* NodeOf[w]: the node of worker w
    PeersOf,   \* PeersOf[n]: table peers of node n
    Blocks,    \* the blocks that are mined
    MinedBy,   \* MinedBy[b]: the node that mines b
    Clashing,  \* blocks that have a transaction or a prev_hash in common with
               \* others, or a transaction that a node may not accept
    Worlds     \* the worlds, sets of circumstances, that there may be

\* What may go wrong.  The first is a defect that the code has, whatever the
\* state; a world without it shows what it hides.
\*   header   no announced header gets through: the peer's route for it raises
\*   clash    a node may refuse a block of Clashing, or a worker may die of it
\*   stops    a node or its miner may be stopped, at any time, and started again
\*   fails    start_queue may fail, because its address is taken
Circumstances == {"header", "clash", "stops", "fails"}

Messages == Nodes \X Nodes \X Blocks
From(m) == m[1]
To(m) == m[2]
Blk(m) == m[3]

Places == {"unsent", "pending", "waiting", "taken", "lost"}

ASSUME GossipAssumption ==
    /\ NodeOf \in [Workers -> Nodes]
    /\ PeersOf \in [Nodes -> SUBSET Nodes]
    /\ \A n \in Nodes : n \notin PeersOf[n]
    /\ MinedBy \in [Blocks -> Nodes]
    /\ Clashing \subseteq Blocks
    /\ Workers \cap Places = {}
    /\ Worlds \subseteq SUBSET Circumstances

VARIABLES
    at,         \* where each message is: pending with the process that enqueues
                \* it, waiting in the proxy, dealt to the socket of a worker, ...
    up,         \* the nodes that run
    proxy,      \* the proxy of each node: "starting", "on" or "failed"
    closed,     \* workers whose proxy has not noticed that they closed a socket
    pc,         \* where each worker is
    msg,        \* the message it took last, if it is at work
    todo,       \* the peers that it has yet to post to
    known,      \* the blocks that each node has stored
    world       \* the circumstances of this behaviour

vars == <<at, up, proxy, closed, pc, msg, todo, known, world>>

NoMessage == <<>>

Ours(n) == {w \in Workers : NodeOf[w] = n}
Me(w) == NodeOf[w]

\* The server of n is one thread: it answers nobody while enqueue blocks.
Enqueuing(n) == \E m \in Messages : To(m) = n /\ From(m) # n /\ at[m] = "pending"
Answers(n) == n \in up /\ ~Enqueuing(n)

\* What the transactions of b lead to depends on what is stored and pooled.
MayClash(b) == "clash" \in world /\ b \in Clashing

Goto(w, step) == pc' = [pc EXCEPT ![w] = step]

------------------------------------------------------------------------------
(* The queue *)

ProxyStarts(n) ==
    /\ n \in up
    /\ proxy[n] = "starting"
    /\ proxy' = [proxy EXCEPT ![n] = "on"]
    /\ UNCHANGED <<at, up, closed, pc, msg, todo, known, world>>

\* "could not start queue"
ProxyFails(n) ==
    /\ "fails" \in world
    /\ n \in up
    /\ proxy[n] = "starting"
    /\ proxy' = [proxy EXCEPT ![n] = "failed"]
    /\ UNCHANGED <<at, up, closed, pc, msg, todo, known, world>>

\* A slip: enqueue waits until a worker is there to take the message.
HandOver(m) ==
    /\ at[m] = "pending"
    /\ proxy[To(m)] = "on"
    /\ \E w \in Ours(To(m)) : pc[w] = "open"
    /\ at' = [at EXCEPT ![m] = "waiting"]
    /\ UNCHANGED <<up, proxy, closed, pc, msg, todo, known, world>>

\* enqueue returns when its context is terminated, which waits until the proxy
\* has the message.
Enqueued(m) ==
    /\ at[m] = "pending"
    /\ proxy[To(m)] = "on"
    /\ at' = [at EXCEPT ![m] = "waiting"]
    /\ UNCHANGED <<up, proxy, closed, pc, msg, todo, known, world>>

\* A slip: a proxy that publishes, and drops what nobody listens for.
Publish(m, w) ==
    /\ at[m] = "waiting" /\ To(m) = Me(w)
    /\ at' = [at EXCEPT ![m] = IF pc[w] = "open" THEN w ELSE "lost"]
    /\ UNCHANGED <<up, proxy, closed, pc, msg, todo, known, world>>

\* The proxy deals a message to any socket that it takes for open, and drops
\* what it deals to one that is not.
Deal(m, w) ==
    /\ at[m] = "waiting" /\ To(m) = Me(w)
    /\ \/ pc[w] = "open" /\ at' = [at EXCEPT ![m] = w]
       \/ w \in closed /\ at' = [at EXCEPT ![m] = "lost"]
    /\ UNCHANGED <<up, proxy, closed, pc, msg, todo, known, world>>

Notice(w) ==
    /\ w \in closed
    /\ closed' = closed \ {w}
    /\ UNCHANGED <<at, up, proxy, pc, msg, todo, known, world>>

------------------------------------------------------------------------------
(* The miner *)

\* add_block, and the call of enqueue
Mine(b) ==
    LET n == MinedBy[b]
    IN  /\ n \in up
        /\ b \notin known[n]
        /\ \A c \in Blocks : at[<<n, n, c>>] # "pending"
        /\ known' = [known EXCEPT ![n] = @ \cup {b}]
        /\ at' = [at EXCEPT ![<<n, n, b>>] = "pending"]
        /\ UNCHANGED <<up, proxy, closed, pc, msg, todo, world>>

------------------------------------------------------------------------------
(* A worker *)

\* The worker is done with its message, or died of it.
Idle(w, step) ==
    /\ Goto(w, step)
    /\ msg' = [msg EXCEPT ![w] = NoMessage]
    /\ todo' = [todo EXCEPT ![w] = {}]

\* dequeue opens a new socket.
Dequeue(w) ==
    /\ Me(w) \in up
    /\ pc[w] = "out"
    /\ Goto(w, "open")
    /\ UNCHANGED <<at, up, proxy, closed, msg, todo, known, world>>

\* A slip: a message of this node's own is handled like a peer's.
ReceiveAny(w) ==
    /\ pc[w] = "open"
    /\ \E m \in Messages :
          /\ at[m] = w
          /\ at' = [k \in Messages |-> IF k = m THEN "taken"
                                       ELSE IF at[k] = w THEN "lost" ELSE at[k]]
          /\ msg' = [msg EXCEPT ![w] = m]
    /\ Goto(w, "look")
    /\ closed' = closed \cup {w}
    /\ UNCHANGED <<up, proxy, todo, known, world>>

\* dequeue returns one message and closes its socket, with what else is in it.
\* A message of this node's own miner is broadcast as it is.
Receive(w) ==
    /\ pc[w] = "open"
    /\ \E m \in Messages :
          /\ at[m] = w
          /\ at' = [k \in Messages |-> IF k = m THEN "taken"
                                       ELSE IF at[k] = w THEN "lost" ELSE at[k]]
          /\ msg' = [msg EXCEPT ![w] = m]
          /\ IF From(m) = To(m)
             THEN Goto(w, "post") /\ todo' = [todo EXCEPT ![w] = PeersOf[Me(w)]]
             ELSE Goto(w, "look") /\ UNCHANGED todo
    /\ closed' = closed \cup {w}
    /\ UNCHANGED <<up, proxy, known, world>>

\* BLOCK_INV: get_block_header_by_hash finds the block, or not.
Look(w) ==
    /\ pc[w] = "look"
    /\ IF Blk(msg[w]) \in known[Me(w)]
       THEN Idle(w, "out")
       ELSE Goto(w, "fetch") /\ UNCHANGED <<msg, todo>>
    /\ UNCHANGED <<at, up, proxy, closed, known, world>>

\* The requests for the header and the transactions, and the validator, which
\* returns False if the block has been stored since.
Fetch(w) ==
    /\ pc[w] = "fetch"
    /\ Answers(From(msg[w]))
    /\ "header" \notin world
    /\ IF Blk(msg[w]) \in known[Me(w)]
       THEN Idle(w, "out")
       ELSE Goto(w, "add") /\ UNCHANGED <<msg, todo>>
    /\ UNCHANGED <<at, up, proxy, closed, known, world>>

\* A slip: a request to a server that is busy times out.
FetchTimesOut(w) ==
    /\ pc[w] = "fetch"
    /\ \/ ~Answers(From(msg[w]))
       \/ Answers(From(msg[w])) /\ "header" \in world
    /\ Idle(w, "dead")
    /\ UNCHANGED <<at, up, proxy, closed, known, world>>

\* A slip: a request to a host that is down hangs.
FetchHangs(w) ==
    /\ pc[w] = "fetch"
    /\ Answers(From(msg[w])) /\ "header" \in world
    /\ Idle(w, "dead")
    /\ UNCHANGED <<at, up, proxy, closed, known, world>>

\* A transaction of the block does not pass, or the reward is not due.
Refuse(w) ==
    /\ pc[w] = "fetch"
    /\ Answers(From(msg[w]))
    /\ "header" \notin world /\ MayClash(Blk(msg[w]))
    /\ Idle(w, "out")
    /\ UNCHANGED <<at, up, proxy, closed, known, world>>

\* request_block_header returned None, whose hash is asked for; or some
\* transaction of the block is stored, of which
\* validate_block_transactions_inv returns one value where two are unpacked.
FetchRaises(w) ==
    /\ pc[w] = "fetch"
    /\ \/ From(msg[w]) \notin up
       \/ Answers(From(msg[w])) /\ ("header" \in world \/ MayClash(Blk(msg[w])))
    /\ Idle(w, "dead")
    /\ UNCHANGED <<at, up, proxy, closed, known, world>>

\* A slip: a block that was stored in the meantime is broadcast once more.
AddAndBroadcastAgain(w) ==
    /\ pc[w] = "add"
    /\ known' = [known EXCEPT ![Me(w)] = @ \cup {Blk(msg[w])}]
    /\ Goto(w, "post")
    /\ todo' = [todo EXCEPT ![w] = PeersOf[Me(w)]]
    /\ UNCHANGED <<at, up, proxy, closed, msg, world>>

Add(w) ==
    /\ pc[w] = "add"
    /\ Blk(msg[w]) \notin known[Me(w)]
    /\ known' = [known EXCEPT ![Me(w)] = @ \cup {Blk(msg[w])}]
    /\ Goto(w, "post")
    /\ todo' = [todo EXCEPT ![w] = PeersOf[Me(w)]]
    /\ UNCHANGED <<at, up, proxy, closed, msg, world>>

\* A slip: any other block is in the way of a new one, a rival, say.
AddRaisesOnRival(w) ==
    /\ pc[w] = "add"
    /\ known[Me(w)] # {}
    /\ Idle(w, "dead")
    /\ UNCHANGED <<at, up, proxy, closed, known, world>>

\* IntegrityError: another worker has added the block since, or its rows break a
\* key.
AddRaises(w) ==
    /\ pc[w] = "add"
    /\ Blk(msg[w]) \in known[Me(w)] \/ MayClash(Blk(msg[w]))
    /\ Idle(w, "dead")
    /\ UNCHANGED <<at, up, proxy, closed, known, world>>

\* get_all_peers fixes some order of the peers.
IsNext(w, p) == p \in todo[w] /\ p = CHOOSE q \in todo[w] : TRUE

\* A slip: a peer is posted to again and again.
PostAgain(w, p) ==
    /\ pc[w] = "post"
    /\ IsNext(w, p)
    /\ Answers(p) /\ Me(w) \in PeersOf[p]
    /\ at' = [at EXCEPT ![<<Me(w), p, Blk(msg[w])>>] = "pending"]
    /\ Goto(w, "answer")
    /\ UNCHANGED <<up, proxy, closed, msg, todo, known, world>>

\* broadcast_block_inv posts to the inbox of p, which enqueues what comes from
\* its peers.
Post(w, p) ==
    /\ pc[w] = "post"
    /\ IsNext(w, p)
    /\ Answers(p) /\ Me(w) \in PeersOf[p]
    /\ at' = [at EXCEPT ![<<Me(w), p, Blk(msg[w])>>] = "pending"]
    /\ todo' = [todo EXCEPT ![w] = @ \ {p}]
    /\ Goto(w, "answer")
    /\ UNCHANGED <<up, proxy, closed, msg, known, world>>

\* 401, or no connection
PostRefused(w, p) ==
    /\ pc[w] = "post"
    /\ IsNext(w, p)
    /\ p \notin up \/ (Answers(p) /\ Me(w) \notin PeersOf[p])
    /\ todo' = [todo EXCEPT ![w] = @ \ {p}]
    /\ UNCHANGED <<at, up, proxy, closed, pc, msg, known, world>>

\* Has any of this worker's posts yet to be enqueued?
Unanswered(w) ==
    \E p \in PeersOf[Me(w)] : at[<<Me(w), p, Blk(msg[w])>>] = "pending"

\* The inbox answers when enqueue has returned, or is stopped before.
Answered(w) ==
    /\ pc[w] = "answer"
    /\ ~Unanswered(w)
    /\ Goto(w, "post")
    /\ UNCHANGED <<at, up, proxy, closed, msg, todo, known, world>>

PostsDone(w) ==
    /\ pc[w] = "post"
    /\ todo[w] = {}
    /\ Idle(w, "out")
    /\ UNCHANGED <<at, up, proxy, closed, known, world>>

------------------------------------------------------------------------------
(* Nodes that stop and start *)

\* mine stop, while enqueue of the miner blocks
StopMiner(n) ==
    /\ "stops" \in world
    /\ \E b \in Blocks :
          /\ at[<<n, n, b>>] = "pending"
          /\ at' = [at EXCEPT ![<<n, n, b>>] = "lost"]
    /\ UNCHANGED <<up, proxy, closed, pc, msg, todo, known, world>>

\* Messages that a node's processes hold in memory
Held(n) ==
    {m \in Messages : To(m) = n /\ at[m] \in {"pending", "waiting"} \cup Workers}

\* quit: shutdown() of the miner and of the node
Stop(n) ==
    /\ "stops" \in world
    /\ n \in up
    /\ up' = up \ {n}
    /\ proxy' = [proxy EXCEPT ![n] = "starting"]
    /\ at' = [m \in Messages |-> IF m \in Held(n) THEN "lost" ELSE at[m]]
    /\ closed' = closed \ Ours(n)
    /\ pc' = [w \in Workers |-> IF w \in Ours(n) THEN "out" ELSE pc[w]]
    /\ msg' = [w \in Workers |-> IF w \in Ours(n) THEN NoMessage ELSE msg[w]]
    /\ todo' = [w \in Workers |-> IF w \in Ours(n) THEN {} ELSE todo[w]]
    /\ UNCHANGED <<known, world>>

Start(n) ==
    /\ n \notin up
    /\ up' = up \cup {n}
    /\ UNCHANGED <<at, proxy, closed, pc, msg, todo, known, world>>

------------------------------------------------------------------------------

Init ==
    /\ at = [m \in Messages |-> "unsent"]
    /\ up = Nodes
    /\ proxy = [n \in Nodes |-> "starting"]
    /\ closed = {}
    /\ pc = [w \in Workers |-> "out"]
    /\ msg = [w \in Workers |-> NoMessage]
    /\ todo = [w \in Workers |-> {}]
    /\ known = [n \in Nodes |-> {}]
    /\ world \in Worlds

Work(w) ==
    \/ Dequeue(w) \/ Receive(w) \/ Look(w) \/ Fetch(w) \/ Refuse(w)
    \/ FetchRaises(w) \/ Add(w) \/ AddRaises(w)
    \/ \E p \in Nodes : Post(w, p) \/ PostRefused(w, p)
    \/ Answered(w) \/ PostsDone(w)

Carry(m) == Enqueued(m) \/ \E w \in Workers : Deal(m, w)

Run(n) == ProxyStarts(n) \/ ProxyFails(n)

Next ==
    \/ \E m \in Messages : Carry(m)
    \/ \E w \in Workers : Work(w) \/ Notice(w)
    \/ \E b \in Blocks : Mine(b)
    \/ \E n \in Nodes : Run(n) \/ StopMiner(n) \/ Stop(n) \/ Start(n)

Spec == Init /\ [][Next]_vars

\* Processes go on until they are stopped, and the sockets of one machine are
\* served.
FairSpec ==
    /\ Spec
    /\ \A m \in Messages : WF_vars(Carry(m))
    /\ \A w \in Workers : WF_vars(Work(w))
    /\ \A n \in Nodes : WF_vars(Run(n))

------------------------------------------------------------------------------
(* Correctness *)

Busy == {"look", "fetch", "add", "post", "answer"}

TypeOK ==
    /\ at \in [Messages -> Places \cup Workers]
    /\ up \subseteq Nodes
    /\ proxy \in [Nodes -> {"starting", "on", "failed"}]
    /\ closed \subseteq Workers
    /\ pc \in [Workers -> Busy \cup {"out", "open", "dead"}]
    /\ msg \in [Workers -> Messages \cup {NoMessage}]
    /\ todo \in [Workers -> SUBSET Nodes]
    /\ known \in [Nodes -> SUBSET Blocks]
    /\ world \in Worlds

Fate == [m \in Messages |->
            IF at[m] \in {"unsent", "taken", "lost"} THEN at[m] ELSE "under way"]

Delivered == INSTANCE Delivery WITH fate <- Fate

\* A node announces a block to a peer once, ever, however many announcements of
\* it its workers handle at the same time; and the queue deals no message twice.
DeliverySpec == Delivered!Spec

\* Unless somebody stops a node, a message is lost only to another one that a
\* worker of the same node has taken: a message that comes alone arrives.
LossNeedsCompany ==
    "stops" \notin world =>
        \A m \in Messages : at[m] = "lost" =>
            \E k \in Messages \ {m} : To(k) = To(m) /\ at[k] = "taken"

\* But for the defect, for lost peers and for queues that fail, a worker dies
\* only of a block whose rows may clash with others, or of one that another
\* worker of its node was told of by another peer and has stored: of a block that
\* is good in itself, and alone, there is no other way.
DeathNeedsTwin ==
    [][\A w \in Workers :
          (/\ pc[w] # "dead" /\ pc'[w] = "dead"
           /\ world \subseteq {"clash"} /\ ~MayClash(Blk(msg[w])))
          => /\ Blk(msg[w]) \in known[Me(w)]
             /\ \E v \in Ours(Me(w)) \ {w}, k \in Messages \ {msg[w]} :
                   To(k) = Me(w) /\ Blk(k) = Blk(msg[w]) /\ at[k] = "taken"]_vars

Deaf(n) == \A w \in Ours(n) : pc[w] = "dead"

\* Unless some queue fails, no request and no post blocks a worker for ever,
\* although servers and workers of several nodes wait for one another.
WorkersComeBack ==
    \A w \in Workers :
        "fails" \notin world /\ pc[w] \in Busy ~> pc[w] \in {"out", "open", "dead"}

\* Unless some queue fails, every message is taken or lost in the end, or all
\* workers of its node are dead.
MessagesEnd ==
    \A m \in Messages :
        "fails" \notin world /\ at[m] # "unsent" ~>
            at[m] \in {"taken", "lost"} \/ Deaf(To(m))

\* A peer learns of a block, unless one of the two messages that bring it was
\* lost, or no worker is left to send or to take it.
Neighbours(n, p) == p \in PeersOf[n] /\ n \in PeersOf[p]

NeighbourLearns ==
    \A n, p \in Nodes, b \in Blocks :
        Neighbours(n, p) /\ world = {} /\ b \in known[n] ~>
            \/ b \in known[p]
            \/ "lost" \in {at[<<n, n, b>>], at[<<n, p, b>>]}
            \/ Deaf(n) \/ Deaf(p)

------------------------------------------------------------------------------
(* The inductive invariant *)

\* A worker that has a block to announce
Broadcasts(w, n, b) ==
    pc[w] \in {"post", "answer"} /\ Me(w) = n /\ Blk(msg[w]) = b

\* The miner's own message, before it is taken
OwnUnderWay(n, b) == at[<<n, n, b>>] \in {"pending", "waiting"} \cup Workers

\* At most one token for the announcement of b by n: n has yet to store b, the
\* miner's message is under way, or one worker broadcasts it.
Fresh(n, b) ==
    /\ \A p \in Nodes \ {n} : at[<<n, p, b>>] = "unsent"
    /\ \A w \in Workers : ~Broadcasts(w, n, b)

AnnouncedOnce ==
    \A n \in Nodes, b \in Blocks :
        /\ b \notin known[n] => at[<<n, n, b>>] = "unsent" /\ Fresh(n, b)
        /\ OwnUnderWay(n, b) => Fresh(n, b)
        /\ \A w, v \in Workers : Broadcasts(w, n, b) /\ Broadcasts(v, n, b) => w = v

WorkerOK(w) ==
    /\ pc[w] \in Busy => msg[w] \in Messages /\ To(msg[w]) = Me(w)
    /\ pc[w] \in {"post", "answer"} =>
          /\ todo[w] \subseteq PeersOf[Me(w)]
          /\ \A p \in todo[w] : at[<<Me(w), p, Blk(msg[w])>>] = "unsent"

\* A worker's socket is closed because it has taken a message.
ClosedHasTaken ==
    "stops" \notin world =>
        \A w \in closed : \E k \in Messages : To(k) = Me(w) /\ at[k] = "taken"

DealtRight == \A m \in Messages : at[m] \in Workers => Me(at[m]) = To(m)

IInv ==
    /\ TypeOK
    /\ AnnouncedOnce
    /\ \A w \in Workers : WorkerOK(w)
    /\ DealtRight
    /\ ClosedHasTaken
    /\ LossNeedsCompany

(* What DeathNeedsTwin rests on besides *)

\* Workers that were told of a block by a peer and have yet to announce it
Told(w) == pc[w] \in {"look", "fetch", "add"}

\* No two workers are at work on one message.
TakenOK(w) ==
    /\ pc[w] \in Busy => at[msg[w]] = "taken"
    /\ Told(w) => From(msg[w]) # Me(w)
    /\ \A v \in Workers :
          pc[w] \in Busy /\ pc[v] \in Busy /\ msg[v] = msg[w] => v = w

\* A block is news to a worker that fetches it, or another worker has added it.
NewsOrTwin(w) ==
    pc[w] \in {"fetch", "add"} =>
        /\ MinedBy[Blk(msg[w])] # Me(w)
        /\ Blk(msg[w]) \in known[Me(w)] => \E v \in Ours(Me(w)) : v # w

KnownToMiner ==
    \A n \in Nodes, b \in Blocks : b \in known[n] => b \in known[MinedBy[b]]

\* Some message brought the block of another node, and is done with.
BroughtByMessage ==
    \A n \in Nodes, b \in Blocks :
        b \in known[n] /\ MinedBy[b] # n =>
            \E k \in Messages :
                /\ To(k) = n /\ Blk(k) = b /\ at[k] = "taken"
                /\ \A w \in Workers : Told(w) => msg[w] # k

TwinInv ==
    /\ world \subseteq {"clash"} => up = Nodes
    /\ KnownToMiner
    /\ BroughtByMessage
    /\ \A w \in Workers : TakenOK(w) /\ NewsOrTwin(w)
==============================================================================
