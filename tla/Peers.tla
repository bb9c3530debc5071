-------------------------------- MODULE Peers --------------------------------
(***************************************************************************)
(* How nodes get to know each other: the table peers of every node         *)
(* (repository/peers.py), the check of peers that its main process runs    *)
(* once at every start (discover_peers and check_peers_full), and the      *)
(* handshake that its HTTP server answers (POST /connect/ of               *)
(* routes/public.py).                                                      *)
(*                                                                         *)
(* The server handles one request at a time and no request has a timeout,  *)
(* so a client waits for as long as the server it asks is busy; the        *)
(* handler of /connect/ itself asks the server of the initiator.           *)
(***************************************************************************)
EXTENDS Integers, FiniteSets

CONSTANTS
    Nodes,       \* the full nodes
    NoNode,      \* no node
    Networks,    \* the cases: which network each node is configured for ...
    Tables,      \* ... and which peers its table holds at first
    Settled,     \* bound: the nodes that have been started before
    Restless,    \* bound: the nodes that are stopped and started again
    MinPeers, MaxPeers,
    Threshold    \* DOWNTIME_THRESHOLD

ASSUME PeersAssumption ==
    /\ IsFiniteSet(Nodes)
    /\ NoNode \notin Nodes
    /\ Settled \subseteq Nodes /\ Restless \subseteq Nodes
    /\ Tables \subseteq [Nodes -> SUBSET Nodes]
    /\ MinPeers \in Nat /\ MaxPeers \in Nat /\ MinPeers <= MaxPeers
    /\ Threshold \in Nat \ {0}

VARIABLES
    network,   \* config['network'] of every node
    seeds,     \* seeds[n]: the peers in the table of n at first
    downtime,  \* downtime[n][p]: column of row p in the table of n, or Absent
    up,        \* the nodes whose server accepts connections
    main,      \* where the main process of each node is
    todo,      \* the nodes it has not asked yet
    found,     \* the nodes it has discovered
    at,        \* the node it is in touch with
    serving    \* the initiator whose /connect/ each server handles, or NoNode

check == <<main, todo, found, at>>
vars == <<network, seeds, downtime, up, main, todo, found, at, serving>>

Absent == -1

------------------------------------------------------------------------------
(* The table *)

Rows(n) == {p \in Nodes : downtime[n][p] # Absent}

\* get_peers_count counts what is not down for good ...
Counted(n) == {p \in Rows(n) : downtime[n][p] < Threshold}

\* ... and get_all_peers lists MAX_PEERS rows, the least down ones first.
AllPeers(n) ==
    {S \in SUBSET Rows(n) :
        /\ \/ S = Rows(n) /\ Cardinality(S) <= MaxPeers
           \/ Cardinality(S) = MaxPeers
        /\ \A s \in S, r \in Rows(n) \ S : downtime[n][s] <= downtime[n][r]}

\* A slip: a host that is added again is marked down once more.
AddPeerAgain(n, p) == downtime' = [downtime EXCEPT ![n][p] = @ + 1]

\* add_peer leaves a row alone that is there.
AddPeer(n, p) ==
    downtime' = [downtime EXCEPT ![n][p] = IF @ = Absent THEN 0 ELSE @]

\* record_downtime updates a row that is there.  Above the threshold only the
\* order of the rows would still change, and it does not here.
RecordDowntime(n, p) ==
    downtime' = [downtime EXCEPT
        ![n][p] = IF @ # Absent /\ @ < Threshold THEN @ + 1 ELSE @]

------------------------------------------------------------------------------
(* The server *)

\* An idle server answers GET /status/ and GET /nodes/ at once.
Answers(p) == p \in up /\ serving[p] = NoNode

\* /connect/: the peers are counted before the initiator is asked for its
\* status, and not again before it is added.
ReceiveConnect(p, n) ==
    /\ Answers(p)
    /\ main[n] = "post" /\ at[n] = p
    /\ IF Cardinality(Counted(p)) < MaxPeers /\ network[n] = network[p]
       THEN /\ serving' = [serving EXCEPT ![p] = n]
            /\ main' = [main EXCEPT ![n] = "wait"]
       ELSE /\ main' = [main EXCEPT ![n] = "refused"]
            /\ UNCHANGED serving
    /\ UNCHANGED <<network, seeds, downtime, up, todo, found, at>>

\* The answer goes to the process that posted, if it is still there.
Answer(p, step) ==
    /\ serving' = [serving EXCEPT ![p] = NoNode]
    /\ main' = LET n == serving[p]
               IN IF main[n] = "wait" /\ at[n] = p
                  THEN [main EXCEPT ![n] = step] ELSE main

PingAnswered(p) ==
    /\ p \in up /\ serving[p] # NoNode
    /\ Answers(serving[p])
    /\ AddPeer(p, serving[p])
    /\ Answer(p, "add")
    /\ UNCHANGED <<network, seeds, up, todo, found, at>>

\* A slip: a host that does not answer is pinged until it does.
PingAgain(p) ==
    /\ p \in up /\ serving[p] # NoNode
    /\ serving[p] \notin up
    /\ UNCHANGED vars

PingFails(p) ==
    /\ p \in up /\ serving[p] # NoNode
    /\ serving[p] \notin up
    /\ Answer(p, "refused")
    /\ UNCHANGED <<network, seeds, downtime, up, todo, found, at>>

------------------------------------------------------------------------------
(* The main process *)

Goto(n, step) == main' = [main EXCEPT ![n] = step]

\* Back to the loop over the peers.
Continue(n) == Goto(n, "check") /\ at' = [at EXCEPT ![n] = NoNode]

\* FullNode.start: the server is started just before, as a process of its own.
Start(n) ==
    /\ main[n] = "off"
    /\ Goto(n, "nodes")
    /\ \E S \in AllPeers(n) :
          todo' = [todo EXCEPT ![n] = S] /\ found' = [found EXCEPT ![n] = S]
    /\ UNCHANGED <<network, seeds, downtime, up, at, serving>>

ServerUp(n) ==
    /\ main[n] # "off" /\ n \notin up
    /\ up' = up \cup {n}
    /\ UNCHANGED <<network, seeds, downtime, check, serving>>

\* discover_peers: each peer of the table is asked for its own.
AskNodes(n) ==
    /\ main[n] = "nodes"
    /\ \E p \in todo[n] :
          /\ Answers(p)
          /\ todo' = [todo EXCEPT ![n] = @ \ {p}]
          /\ \E S \in AllPeers(p) : found' = [found EXCEPT ![n] = @ \cup S]
    /\ UNCHANGED <<network, seeds, downtime, up, main, at, serving>>

AskNodesFails(n) ==
    /\ main[n] = "nodes"
    /\ \E p \in todo[n] \ up :
          /\ RecordDowntime(n, p)
          /\ todo' = [todo EXCEPT ![n] = @ \ {p}]
    /\ UNCHANGED <<network, seeds, up, main, found, at, serving>>

\* The minimum is compared once, before the loop of check_peers ...
BeginCheck(n) ==
    /\ main[n] = "nodes" /\ todo[n] = {}
    /\ IF Cardinality(Counted(n)) < MinPeers
       THEN Goto(n, "check") /\ todo' = [todo EXCEPT ![n] = found[n] \ {n}]
       ELSE Goto(n, "running") /\ UNCHANGED todo
    /\ found' = [found EXCEPT ![n] = {}]
    /\ UNCHANGED <<network, seeds, downtime, up, at, serving>>

\* A slip: the maximum is left to the recipients.
NextPeerAnyway(n) ==
    /\ main[n] = "check"
    /\ \E p \in todo[n] :
          /\ at' = [at EXCEPT ![n] = p]
          /\ todo' = [todo EXCEPT ![n] = @ \ {p}]
    /\ Goto(n, "status")
    /\ UNCHANGED <<network, seeds, downtime, up, found, serving>>

\* ... which ends at the maximum.
NextPeer(n) ==
    /\ main[n] = "check"
    /\ Cardinality(Counted(n)) < MaxPeers
    /\ \E p \in todo[n] :
          /\ at' = [at EXCEPT ![n] = p]
          /\ todo' = [todo EXCEPT ![n] = @ \ {p}]
    /\ Goto(n, "status")
    /\ UNCHANGED <<network, seeds, downtime, up, found, serving>>

EndCheck(n) ==
    /\ main[n] = "check"
    /\ todo[n] = {} \/ Cardinality(Counted(n)) >= MaxPeers
    /\ Goto(n, "running")
    /\ todo' = [todo EXCEPT ![n] = {}]
    /\ UNCHANGED <<network, seeds, downtime, up, found, at, serving>>

\* A peer that has a row is not asked to connect.
StatusMatches(n) ==
    /\ main[n] = "status"
    /\ Answers(at[n]) /\ network[at[n]] = network[n]
    /\ IF at[n] \in Rows(n) THEN Continue(n)
       ELSE Goto(n, "post") /\ UNCHANGED at
    /\ UNCHANGED <<network, seeds, downtime, up, todo, found, serving>>

\* The statement of remove_peer has a quote too many: the exception is none of
\* requests' and ends the main process, with the server left running.
StatusDiffers(n) ==
    /\ main[n] = "status"
    /\ Answers(at[n]) /\ network[at[n]] # network[n]
    /\ IF at[n] \in Rows(n)
       THEN Goto(n, "dead") /\ UNCHANGED at
       ELSE Continue(n)
    /\ UNCHANGED <<network, seeds, downtime, up, todo, found, serving>>

\* A slip: a request that takes long counts as failed.
RequestTimesOut(n) ==
    /\ main[n] \in {"status", "post", "wait"}
    /\ RecordDowntime(n, at[n])
    /\ Continue(n)
    /\ UNCHANGED <<network, seeds, up, todo, found, serving>>

\* The connection is refused, or lost with the server that had accepted it.
RequestFails(n) ==
    /\ \/ main[n] \in {"status", "post"} /\ at[n] \notin up
       \/ main[n] = "wait" /\ serving[at[n]] # n
    /\ RecordDowntime(n, at[n])
    /\ Continue(n)
    /\ UNCHANGED <<network, seeds, up, todo, found, serving>>

Accepted(n) ==
    /\ main[n] = "add"
    /\ AddPeer(n, at[n])
    /\ Continue(n)
    /\ UNCHANGED <<network, seeds, up, todo, found, serving>>

\* A slip: the answer is not looked at.
AddedAnyway(n) ==
    /\ main[n] = "refused"
    /\ AddPeer(n, at[n])
    /\ Continue(n)
    /\ UNCHANGED <<network, seeds, up, todo, found, serving>>

Refused(n) ==
    /\ main[n] = "refused"
    /\ Continue(n)
    /\ UNCHANGED <<network, seeds, downtime, up, todo, found, serving>>

------------------------------------------------------------------------------
(* The network *)

\* A worker that broadcasts finds a peer down.
BroadcastFails(n) ==
    /\ main[n] # "off"
    /\ \E S \in AllPeers(n) : \E p \in S \ up : RecordDowntime(n, p)
    /\ UNCHANGED <<network, seeds, up, check, serving>>

\* All processes of the node, its server with a request at hand included.
Stop(n) ==
    /\ n \in Restless
    /\ main[n] # "off"
    /\ Goto(n, "off")
    /\ todo' = [todo EXCEPT ![n] = {}]
    /\ found' = [found EXCEPT ![n] = {}]
    /\ at' = [at EXCEPT ![n] = NoNode]
    /\ up' = up \ {n}
    /\ serving' = [serving EXCEPT ![n] = NoNode]
    /\ UNCHANGED <<network, seeds, downtime>>

Init ==
    /\ network \in Networks
    /\ seeds \in Tables
    /\ downtime = [n \in Nodes |->
                      [p \in Nodes |-> IF p \in seeds[n] THEN 0 ELSE Absent]]
    /\ up = Settled
    /\ main = [n \in Nodes |-> IF n \in Settled THEN "running" ELSE "off"]
    /\ todo = [n \in Nodes |-> {}]
    /\ found = [n \in Nodes |-> {}]
    /\ at = [n \in Nodes |-> NoNode]
    /\ serving = [n \in Nodes |-> NoNode]

MainStep(n) ==
    \/ AskNodes(n) \/ AskNodesFails(n)
    \/ BeginCheck(n) \/ NextPeer(n) \/ EndCheck(n)
    \/ StatusMatches(n) \/ StatusDiffers(n) \/ RequestFails(n)
    \/ Accepted(n) \/ Refused(n)
    \/ \E p \in Nodes : ReceiveConnect(p, n)

ServerStep(n) == PingAnswered(n) \/ PingFails(n)

Next ==
    \E n \in Nodes :
        \/ Start(n) \/ ServerUp(n) \/ Stop(n) \/ BroadcastFails(n)
        \/ MainStep(n) \/ ServerStep(n)

Spec == Init /\ [][Next]_vars

\* Processes go on when they can.  A connection waits in the backlog of a
\* server, first come first served, so a server that is idle again and again
\* gets to it.
FairSpec ==
    /\ Spec
    /\ \A n \in Nodes :
          /\ WF_vars(ServerUp(n))
          /\ SF_vars(ServerStep(n))
          /\ SF_vars(MainStep(n))

------------------------------------------------------------------------------
(* Correctness *)

TypeOK ==
    /\ network \in Networks /\ seeds \in Tables
    /\ downtime \in [Nodes -> [Nodes -> 0 .. Threshold \cup {Absent}]]
    /\ up \subseteq Nodes
    /\ main \in [Nodes -> {"off", "nodes", "check", "status", "post", "wait",
                           "refused", "add", "running", "dead"}]
    /\ todo \in [Nodes -> SUBSET Nodes]
    /\ found \in [Nodes -> SUBSET Nodes]
    /\ at \in [Nodes -> Nodes \cup {NoNode}]
    /\ serving \in [Nodes -> Nodes \cup {NoNode}]

\* Main process and server of a node both count the peers long before they add
\* one, so the maximum can be exceeded, by one peer and never by more.
OverrunByOne ==
    \A n \in Nodes :
        \/ Rows(n) = seeds[n]
        \/ Cardinality(Counted(n)) <= MaxPeers + 1

\* A full node that a full node has taken up knows it too, or has just been
\* told so: only then may both post to the inbox of the other.
KnownToEachOther ==
    \A n, p \in Nodes \ Restless :
        p \in Rows(n) \ seeds[n] =>
            n \in Rows(p) \/ (main[p] = "add" /\ at[p] = n)

------------------------------------------------------------------------------
(* The inductive invariant *)

\* From its look at the count until it adds a peer or gives up, the main process
\* holds a place in the table, and so does the server while it pings.
InTouch == {"status", "post", "wait", "refused", "add"}

Places(n) ==
    (IF main[n] \in InTouch THEN 1 ELSE 0)
        + (IF serving[n] # NoNode THEN 1 ELSE 0)

\* A table that was too large from the start is left alone.
PlacesOK(n) ==
    \/ Rows(n) = seeds[n] /\ Places(n) = 0
    \/ Cardinality(Counted(n)) + Places(n) <= MaxPeers + 1

\* The other side of each handshake that is under way.
HandshakeOK(n) ==
    /\ main[n] \in InTouch => at[n] \in Nodes
    /\ main[n] = "add" => n \in Rows(at[n])
    /\ serving[n] \in Nodes \ Restless =>
          main[serving[n]] = "wait" /\ at[serving[n]] = n

IInv ==
    /\ TypeOK
    /\ \A n \in Nodes : PlacesOK(n) /\ HandshakeOK(n)
    /\ KnownToEachOther

------------------------------------------------------------------------------
(* Liveness *)

\* Servers that wait for one another.
Ring == \E S \in (SUBSET Nodes) \ {{}} : \A s \in S : serving[s] \in S

\* The check of peers holds up the start of a node, and it comes to an end,
\* whoever else starts or stops, unless servers ping each other in a ring.
StartsUnlessRing ==
    \A n \in Nodes :
        main[n] \notin {"running", "dead", "off"}
            ~> main[n] \in {"running", "dead", "off"} \/ Ring

------------------------------------------------------------------------------
(* What the documents say and the nodes do not do *)

\* docs/crankycoin.tex: "If they are identical and the recipient has not
\* exceeded its maximum peer threshold, it adds the initiator to its peer list
\* and returns an accepted status code."  A recipient that has found so gives
\* an answer.
HandshakeIsAnswered ==
    \A n \in Nodes : main[n] = "wait" ~> main[n] # "wait"
==============================================================================
