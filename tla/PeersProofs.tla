----------------------------- MODULE PeersProofs -----------------------------
(***************************************************************************)
(* Proofs about module Peers, for any number of nodes, any limits and any  *)
(* first tables.                                                           *)
(***************************************************************************)
EXTENDS Peers, FiniteSetTheorems, TLAPS

------------------------------------------------------------------------------
(* The table *)

\* What is counted is a finite set, so its cardinality is a number.
LEMMA CountedIsFinite ==
    ASSUME NEW n \in Nodes
    PROVE  IsFiniteSet(Counted(n)) /\ Cardinality(Counted(n)) \in Nat
<1>1. IsFiniteSet(Counted(n))
  BY PeersAssumption, FS_Subset DEF Counted, Rows
<1> QED
  BY <1>1, FS_CardinalityType

\* A set with at most one more element has a cardinality larger by at most one.
LEMMA OneMore ==
    ASSUME NEW S, NEW T, NEW x, IsFiniteSet(S), T \subseteq S \cup {x}
    PROVE  IsFiniteSet(T) /\ Cardinality(T) <= Cardinality(S) + 1
<1>1. /\ IsFiniteSet(S \cup {x})
      /\ Cardinality(S \cup {x}) = Cardinality(S)
            \/ Cardinality(S \cup {x}) = Cardinality(S) + 1
  BY FS_AddElement
<1>2. /\ IsFiniteSet(T)
      /\ Cardinality(T) <= Cardinality(S \cup {x})
  BY <1>1, FS_Subset
<1>3. Cardinality(S) \in Nat /\ Cardinality(T) \in Nat
  BY <1>2, FS_CardinalityType
<1> QED
  BY <1>1, <1>2, <1>3

\* Adding p to the table of n touches no other table, loses no row, gives p one
\* and counts at most p in addition.
LEMMA AfterAddPeer ==
    ASSUME NEW n \in Nodes, NEW p \in Nodes, TypeOK, AddPeer(n, p)
    PROVE  /\ downtime' \in [Nodes -> [Nodes -> 0 .. Threshold \cup {Absent}]]
           /\ Rows(n)' = Rows(n) \cup {p}
           /\ Cardinality(Counted(n))' <= Cardinality(Counted(n)) + 1
           /\ \A m \in Nodes \ {n} :
                 Rows(m)' = Rows(m) /\ Counted(m)' = Counted(m)
<1>1. downtime' \in [Nodes -> [Nodes -> 0 .. Threshold \cup {Absent}]]
  BY PeersAssumption DEF AddPeer, TypeOK, Absent
<1>2. Rows(n)' = Rows(n) \cup {p}
  BY DEF AddPeer, TypeOK, Rows, Absent
<1>3. Counted(n)' \subseteq Counted(n) \cup {p}
  BY DEF AddPeer, TypeOK, Counted, Rows, Absent
<1>4. Cardinality(Counted(n)') <= Cardinality(Counted(n)) + 1
  BY <1>3, CountedIsFinite, OneMore
<1>5. \A m \in Nodes \ {n} : Rows(m)' = Rows(m) /\ Counted(m)' = Counted(m)
  BY DEF AddPeer, TypeOK, Counted, Rows
<1> QED
  BY <1>1, <1>2, <1>4, <1>5

\* A recorded downtime changes no row into another one and counts none anew.
LEMMA AfterRecordDowntime ==
    ASSUME NEW n \in Nodes, NEW p \in Nodes, TypeOK, RecordDowntime(n, p)
    PROVE  /\ downtime' \in [Nodes -> [Nodes -> 0 .. Threshold \cup {Absent}]]
           /\ \A m \in Nodes :
                 /\ Rows(m)' = Rows(m)
                 /\ Cardinality(Counted(m))' <= Cardinality(Counted(m))
<1>1. downtime' \in [Nodes -> [Nodes -> 0 .. Threshold \cup {Absent}]]
  BY PeersAssumption DEF RecordDowntime, TypeOK, Absent
<1>2. ASSUME NEW m \in Nodes
      PROVE  /\ Rows(m)' = Rows(m)
             /\ Cardinality(Counted(m))' <= Cardinality(Counted(m))
  <2>1. Rows(m)' = Rows(m)
    BY PeersAssumption DEF RecordDowntime, TypeOK, Rows, Absent
  <2>2. Counted(m)' \subseteq Counted(m)
    BY PeersAssumption DEF RecordDowntime, TypeOK, Counted, Rows, Absent
  <2>3. Cardinality(Counted(m)') <= Cardinality(Counted(m))
    BY <2>2, CountedIsFinite, FS_Subset
  <2> QED
    BY <2>1, <2>3
<1> QED
  BY <1>1, <1>2

------------------------------------------------------------------------------
(* Steps *)

\* Every step keeps the types.
LEMMA TypeInductive == IInv /\ [Next]_vars => TypeOK'
<1> SUFFICES ASSUME IInv, [Next]_vars PROVE TypeOK'
  OBVIOUS
<1> USE DEF IInv
<1>1. ASSUME NEW n \in Nodes, Start(n) PROVE TypeOK'
  BY <1>1 DEF TypeOK, Start, Goto, AllPeers, Rows
<1>2. ASSUME NEW n \in Nodes, ServerUp(n) PROVE TypeOK'
  BY <1>2 DEF TypeOK, ServerUp, check
<1>3. ASSUME NEW n \in Nodes, Stop(n) PROVE TypeOK'
  BY <1>3 DEF TypeOK, Stop, Goto
<1>4. ASSUME NEW n \in Nodes, BroadcastFails(n) PROVE TypeOK'
  <2>1. PICK p \in Nodes : RecordDowntime(n, p)
    BY <1>4 DEF BroadcastFails, AllPeers, Rows
  <2> QED
    BY <1>4, <2>1, AfterRecordDowntime DEF TypeOK, BroadcastFails, check
<1>5. ASSUME NEW n \in Nodes, AskNodes(n) PROVE TypeOK'
  BY <1>5 DEF TypeOK, AskNodes, AllPeers, Rows
<1>6. ASSUME NEW n \in Nodes, AskNodesFails(n) PROVE TypeOK'
  <2>1. PICK p \in Nodes : /\ RecordDowntime(n, p)
                           /\ todo' = [todo EXCEPT ![n] = @ \ {p}]
    BY <1>6 DEF AskNodesFails, TypeOK
  <2> QED
    BY <1>6, <2>1, AfterRecordDowntime DEF TypeOK, AskNodesFails
<1>7. ASSUME NEW n \in Nodes, BeginCheck(n) PROVE TypeOK'
  <2>1. todo' \in [Nodes -> SUBSET Nodes]
    BY <1>7 DEF TypeOK, BeginCheck
  <2>2. \E step \in {"check", "running"} : Goto(n, step)
    BY <1>7 DEF BeginCheck
  <2> QED
    BY <1>7, <2>1, <2>2 DEF TypeOK, BeginCheck, Goto
<1>8. ASSUME NEW n \in Nodes, NextPeer(n) PROVE TypeOK'
  BY <1>8 DEF TypeOK, NextPeer, Goto
<1>9. ASSUME NEW n \in Nodes, EndCheck(n) PROVE TypeOK'
  BY <1>9 DEF TypeOK, EndCheck, Goto
<1>10. ASSUME NEW n \in Nodes, StatusMatches(n) PROVE TypeOK'
  BY <1>10 DEF TypeOK, StatusMatches, Goto, Continue
<1>11. ASSUME NEW n \in Nodes, StatusDiffers(n) PROVE TypeOK'
  BY <1>11 DEF TypeOK, StatusDiffers, Goto, Continue
<1>12. ASSUME NEW n \in Nodes, RequestFails(n) PROVE TypeOK'
  <2>1. at[n] \in Nodes
    BY <1>12 DEF RequestFails, HandshakeOK, InTouch
  <2> QED
    BY <1>12, <2>1, AfterRecordDowntime DEF TypeOK, RequestFails, Goto, Continue
<1>13. ASSUME NEW n \in Nodes, Accepted(n) PROVE TypeOK'
  <2>1. at[n] \in Nodes
    BY <1>13 DEF Accepted, HandshakeOK, InTouch
  <2> QED
    BY <1>13, <2>1, AfterAddPeer DEF TypeOK, Accepted, Goto, Continue
<1>14. ASSUME NEW n \in Nodes, Refused(n) PROVE TypeOK'
  BY <1>14 DEF TypeOK, Refused, Goto, Continue
<1>15. ASSUME NEW n \in Nodes, NEW p \in Nodes, ReceiveConnect(p, n)
       PROVE  TypeOK'
  BY <1>15 DEF TypeOK, ReceiveConnect
<1>16. ASSUME NEW p \in Nodes, PingAnswered(p) PROVE TypeOK'
  <2>1. serving[p] \in Nodes
    BY <1>16 DEF PingAnswered, TypeOK
  <2> QED
    BY <1>16, <2>1, AfterAddPeer DEF TypeOK, PingAnswered, Answer
<1>17. ASSUME NEW p \in Nodes, PingFails(p) PROVE TypeOK'
  BY <1>17 DEF TypeOK, PingFails, Answer
<1>18. CASE UNCHANGED vars
  BY <1>18 DEF TypeOK, vars, check
<1> QED
  BY <1>1, <1>2, <1>3, <1>4, <1>5, <1>6, <1>7, <1>8, <1>9, <1>10, <1>11, <1>12,
     <1>13, <1>14, <1>15, <1>16, <1>17, <1>18 DEF Next, MainStep, ServerStep

\* A node that holds no more places and counts no more peers keeps within the
\* limit.
LEMMA PlacesKept ==
    ASSUME NEW n \in Nodes, PlacesOK(n), MaxPeers \in Nat,
           seeds' = seeds, Rows(n)' = Rows(n),
           Cardinality(Counted(n))' <= Cardinality(Counted(n)),
           Places(n)' <= Places(n)
    PROVE  PlacesOK(n)'
<1>1. Places(n) \in 0 .. 2 /\ Places(n)' \in 0 .. 2
  BY DEF Places
<1>2. Cardinality(Counted(n)) \in Nat
  BY CountedIsFinite
<1>3. Cardinality(Counted(n)') \in Nat
  <2>1. IsFiniteSet(Counted(n)')
    BY PeersAssumption, FS_Subset DEF Counted, Rows
  <2> QED
    BY <2>1, FS_CardinalityType
<1> QED
  BY <1>1, <1>2, <1>3 DEF PlacesOK

\* The main process of n takes a step that adds no row, begins or ends no
\* handshake, and takes a place only when the table has room.
LEMMA QuietStep ==
    ASSUME IInv, NEW n \in Nodes, TypeOK',
           seeds' = seeds, serving' = serving,
           \A m \in Nodes :
               /\ Rows(m)' = Rows(m)
               /\ Cardinality(Counted(m))' <= Cardinality(Counted(m)),
           \A m \in Nodes \ {n} : main'[m] = main[m] /\ at'[m] = at[m],
           \/ main'[n] = main[n] /\ at'[n] = at[n]
           \/ /\ main[n] # "add" /\ main'[n] # "add"
              /\ \A p \in Nodes : serving[p] = n => n \in Restless,
           main'[n] \in InTouch =>
               /\ at'[n] \in Nodes
               /\ main[n] \in InTouch \/ Cardinality(Counted(n)) < MaxPeers
    PROVE  IInv'
<1>1. ASSUME NEW m \in Nodes PROVE PlacesOK(m)'
  <2>1. CASE Places(m)' <= Places(m)
    BY <2>1, PlacesKept, PeersAssumption DEF IInv
  <2>2. CASE ~(Places(m)' <= Places(m))
    <3>1. Places(m) \in 0 .. 2 /\ Places(m)' \in 0 .. 2
      BY DEF Places
    <3>2. m = n /\ main'[n] \in InTouch /\ main[n] \notin InTouch
      BY <2>2 DEF Places
    <3>3. Places(m)' <= 2 /\ Cardinality(Counted(m)) < MaxPeers
      BY <3>1, <3>2
    <3>4. Cardinality(Counted(m)) \in Nat
      BY CountedIsFinite
    <3>5. Cardinality(Counted(m)') \in Nat
      <4>1. IsFiniteSet(Counted(m)')
        BY PeersAssumption, FS_Subset DEF Counted, Rows
      <4> QED
        BY <4>1, FS_CardinalityType
    <3>6. Cardinality(Counted(m)') <= Cardinality(Counted(m))
      OBVIOUS
    <3> QED
      BY <3>1, <3>3, <3>4, <3>5, <3>6, PeersAssumption DEF PlacesOK
  <2> QED
    BY <2>1, <2>2
<1>2. ASSUME NEW m \in Nodes PROVE HandshakeOK(m)'
  <2>1. main'[m] \in InTouch => at'[m] \in Nodes
    BY DEF IInv, HandshakeOK
  <2>2. main'[m] = "add" => m \in Rows(at[m])' /\ at'[m] = at[m]
    BY DEF IInv, HandshakeOK, InTouch
  <2>3. serving'[m] \in Nodes \ Restless =>
           main'[serving[m]] = "wait" /\ at'[serving[m]] = m
    BY DEF IInv, HandshakeOK
  <2>4. main'[m] = "add" => m \in Rows(at[m])'
    BY <2>2
  <2> QED
    BY <2>1, <2>2, <2>3 DEF HandshakeOK, Rows
<1>3. KnownToEachOther'
  BY DEF IInv, KnownToEachOther
<1> QED
  BY <1>1, <1>2, <1>3 DEF IInv

\* The steps that QuietStep covers.
LEMMA QuietSteps ==
    ASSUME IInv, TypeOK', NEW n \in Nodes,
           \/ Start(n) \/ ServerUp(n) \/ BroadcastFails(n)
           \/ AskNodes(n) \/ AskNodesFails(n)
           \/ BeginCheck(n) \/ NextPeer(n) \/ EndCheck(n)
           \/ StatusMatches(n) \/ StatusDiffers(n) \/ RequestFails(n)
           \/ Refused(n)
    PROVE  IInv'
<1> DEFINE SameTables == \A m \in Nodes :
               /\ Rows(m)' = Rows(m)
               /\ Cardinality(Counted(m))' <= Cardinality(Counted(m))
<1>1. ASSUME downtime' = downtime PROVE SameTables
  <2>1. \A m \in Nodes : Rows(m)' = Rows(m) /\ Counted(m)' = Counted(m)
    BY <1>1 DEF Rows, Counted
  <2>2. \A m \in Nodes : Cardinality(Counted(m)) \in Nat
    BY CountedIsFinite
  <2> QED
    BY <2>1, <2>2
<1>2. ASSUME main[n] # "wait" PROVE \A p \in Nodes : serving[p] = n => n \in Restless
  BY <1>2 DEF IInv, HandshakeOK
<1>3. CASE Start(n)
  <2>1. SameTables
    BY <1>1, <1>3 DEF Start
  <2> QED
    BY <1>2, <1>3, <2>1, QuietStep DEF Start, Goto, IInv, TypeOK, InTouch
<1>4. CASE ServerUp(n)
  <2>1. SameTables
    BY <1>1, <1>4 DEF ServerUp
  <2> QED
    BY <1>4, <2>1, QuietStep DEF ServerUp, check, IInv, HandshakeOK
<1>5. CASE BroadcastFails(n)
  <2>1. PICK p \in Nodes : RecordDowntime(n, p)
    BY <1>5 DEF BroadcastFails, AllPeers, Rows
  <2>2. SameTables
    BY <2>1, AfterRecordDowntime DEF IInv
  <2> QED
    BY <1>5, <2>2, QuietStep DEF BroadcastFails, check, IInv, HandshakeOK
<1>6. CASE AskNodes(n)
  <2>1. SameTables
    BY <1>1, <1>6 DEF AskNodes
  <2> QED
    BY <1>6, <2>1, QuietStep DEF AskNodes, IInv, HandshakeOK
<1>7. CASE AskNodesFails(n)
  <2>1. PICK p \in Nodes : RecordDowntime(n, p)
    BY <1>7 DEF AskNodesFails, IInv, TypeOK
  <2>2. SameTables
    BY <2>1, AfterRecordDowntime DEF IInv
  <2> QED
    BY <1>7, <2>2, QuietStep DEF AskNodesFails, IInv, HandshakeOK
<1>8. CASE BeginCheck(n)
  <2>1. SameTables
    BY <1>1, <1>8 DEF BeginCheck
  <2>2. \E step \in {"check", "running"} : Goto(n, step)
    BY <1>8 DEF BeginCheck
  <2>3. main[n] = "nodes" /\ UNCHANGED <<seeds, at, serving>>
    BY <1>8 DEF BeginCheck
  <2> QED
    BY <1>2, <2>1, <2>2, <2>3, QuietStep DEF Goto, IInv, TypeOK, InTouch
<1>9. CASE NextPeer(n)
  <2>1. SameTables
    BY <1>1, <1>9 DEF NextPeer
  <2> QED
    BY <1>2, <1>9, <2>1, QuietStep DEF NextPeer, Goto, IInv, TypeOK, InTouch
<1>10. CASE EndCheck(n)
  <2>1. SameTables
    BY <1>1, <1>10 DEF EndCheck
  <2> QED
    BY <1>2, <1>10, <2>1, QuietStep DEF EndCheck, Goto, IInv, TypeOK, InTouch
<1>11. CASE StatusMatches(n)
  <2>1. SameTables
    BY <1>1, <1>11 DEF StatusMatches
  <2>2. main[n] = "status" /\ UNCHANGED <<seeds, serving>>
    BY <1>11 DEF StatusMatches
  <2>3. /\ main'[n] \in {"check", "post"}
        /\ at'[n] \in {at[n], NoNode}
        /\ main'[n] \in InTouch => at'[n] = at[n]
        /\ \A m \in Nodes \ {n} : main'[m] = main[m] /\ at'[m] = at[m]
    BY <1>11 DEF StatusMatches, Continue, Goto, IInv, TypeOK, InTouch
  <2>4. at[n] \in Nodes /\ main[n] \in InTouch
    BY <2>2 DEF IInv, HandshakeOK, InTouch
  <2>5. \A p \in Nodes : serving[p] = n => n \in Restless
    BY <1>2, <2>2
  <2> QED
    BY <2>1, <2>2, <2>3, <2>4, <2>5, QuietStep
<1>12. CASE StatusDiffers(n)
  <2>1. SameTables
    BY <1>1, <1>12 DEF StatusDiffers
  <2>2. main[n] = "status" /\ UNCHANGED <<seeds, serving>>
    BY <1>12 DEF StatusDiffers
  <2>3. /\ main'[n] \in {"check", "dead"}
        /\ at'[n] \in {at[n], NoNode}
        /\ main'[n] \in InTouch => at'[n] = at[n]
        /\ \A m \in Nodes \ {n} : main'[m] = main[m] /\ at'[m] = at[m]
    BY <1>12 DEF StatusDiffers, Continue, Goto, IInv, TypeOK, InTouch
  <2>4. at[n] \in Nodes /\ main[n] \in InTouch
    BY <2>2 DEF IInv, HandshakeOK, InTouch
  <2>5. \A p \in Nodes : serving[p] = n => n \in Restless
    BY <1>2, <2>2
  <2> QED
    BY <2>1, <2>2, <2>3, <2>4, <2>5, QuietStep
<1>13. CASE RequestFails(n)
  <2>1. at[n] \in Nodes
    BY <1>13 DEF RequestFails, IInv, HandshakeOK, InTouch
  <2>2. SameTables
    BY <1>13, <2>1, AfterRecordDowntime DEF IInv, RequestFails
  <2>3. \A p \in Nodes : serving[p] = n => n \in Restless
    BY <1>2, <1>13 DEF RequestFails, IInv, HandshakeOK
  <2>4. main[n] # "add" /\ Continue(n) /\ UNCHANGED <<seeds, serving>>
    BY <1>13 DEF RequestFails
  <2>5. /\ main'[n] = "check"
        /\ \A m \in Nodes \ {n} : main'[m] = main[m] /\ at'[m] = at[m]
    BY <2>4 DEF Continue, Goto, IInv, TypeOK
  <2> QED
    BY <2>2, <2>3, <2>4, <2>5, QuietStep DEF InTouch
<1>14. CASE Refused(n)
  <2>1. SameTables
    BY <1>1, <1>14 DEF Refused
  <2> QED
    BY <1>2, <1>14, <2>1, QuietStep
       DEF Refused, Continue, Goto, IInv, TypeOK, InTouch
<1> QED
  BY <1>3, <1>4, <1>5, <1>6, <1>7, <1>8, <1>9, <1>10, <1>11, <1>12, <1>13, <1>14

\* A server that takes up a handshake takes a place, and its initiator waits.
LEMMA ReceiveKeepsIInv ==
    ASSUME IInv, TypeOK', NEW p \in Nodes, NEW n \in Nodes, ReceiveConnect(p, n)
    PROVE  IInv'
<1>1. /\ main[n] = "post" /\ at[n] = p /\ serving[p] = NoNode
      /\ UNCHANGED <<seeds, downtime, at>>
  BY DEF ReceiveConnect, Answers
<1>2. \A m \in Nodes : Rows(m)' = Rows(m) /\ Counted(m)' = Counted(m)
  BY <1>1 DEF Rows, Counted
<1>3. \A q \in Nodes : serving[q] = n => n \in Restless
  BY <1>1 DEF IInv, HandshakeOK
<1>4. CASE main' = [main EXCEPT ![n] = "refused"] /\ serving' = serving
  <2>1. \A m \in Nodes :
            /\ Rows(m)' = Rows(m)
            /\ Cardinality(Counted(m))' <= Cardinality(Counted(m))
    BY <1>2, CountedIsFinite
  <2>2. /\ main'[n] = "refused"
        /\ \A m \in Nodes \ {n} : main'[m] = main[m] /\ at'[m] = at[m]
    BY <1>1, <1>4 DEF IInv, TypeOK
  <2> QED
    BY <1>1, <1>3, <1>4, <2>1, <2>2, QuietStep DEF InTouch
<1>5. CASE /\ Cardinality(Counted(p)) < MaxPeers
           /\ serving' = [serving EXCEPT ![p] = n]
           /\ main' = [main EXCEPT ![n] = "wait"]
  <2>1. ASSUME NEW m \in Nodes PROVE PlacesOK(m)'
    <3>1. CASE m = p
      <4>1. Places(p)' <= 2
        BY DEF Places
      <4>2. Places(p)' \in Nat /\ Cardinality(Counted(p)) \in Nat
        BY CountedIsFinite DEF Places
      <4> QED
        BY <1>2, <1>5, <3>1, <4>1, <4>2, PeersAssumption DEF PlacesOK
    <3>2. CASE m # p
      <4>1. Places(m)' = Places(m)
        BY <1>1, <1>5, <3>2 DEF Places, IInv, TypeOK, InTouch
      <4> QED
        BY <1>1, <1>2, <4>1 DEF PlacesOK, IInv
    <3> QED
      BY <3>1, <3>2
  <2>2. ASSUME NEW m \in Nodes PROVE HandshakeOK(m)'
    <3>1. main'[m] \in InTouch => at'[m] \in Nodes
      BY <1>1, <1>5 DEF IInv, TypeOK, HandshakeOK, InTouch
    <3>2. main'[m] = "add" => main[m] = "add"
      BY <1>5 DEF IInv, TypeOK
    <3>3. main'[m] = "add" => m \in Rows(at[m])'
      BY <1>1, <1>2, <3>2 DEF IInv, HandshakeOK, InTouch
    <3>4. serving'[m] \in Nodes \ Restless =>
             main'[serving'[m]] = "wait" /\ at'[serving'[m]] = m
      BY <1>1, <1>3, <1>5 DEF IInv, TypeOK, HandshakeOK
    <3> QED
      BY <3>1, <3>3, <3>4 DEF HandshakeOK, Rows
  <2>3. KnownToEachOther'
    BY <1>1, <1>2, <1>5 DEF IInv, TypeOK, KnownToEachOther
  <2> QED
    BY <2>1, <2>2, <2>3 DEF IInv
<1> QED
  BY <1>4, <1>5 DEF ReceiveConnect

\* The place is given back, for the initiator's row or for nothing.
LEMMA PingKeepsIInv ==
    ASSUME IInv, TypeOK', NEW p \in Nodes, PingAnswered(p) \/ PingFails(p)
    PROVE  IInv'
<1> DEFINE n == serving[p]
<1>1. /\ n \in Nodes
      /\ UNCHANGED <<seeds, at>>
      /\ serving' = [serving EXCEPT ![p] = NoNode]
      /\ NoNode \notin Nodes
  BY PeersAssumption DEF IInv, TypeOK, PingAnswered, PingFails, Answer
<1>2. \A m \in Nodes \ {n} : main'[m] = main[m]
  BY DEF IInv, TypeOK, PingAnswered, PingFails, Answer
<1>3. \/ main'[n] = main[n]
      \/ /\ main[n] = "wait" /\ at[n] = p
         /\ main'[n] = "refused" \/ (main'[n] = "add" /\ PingAnswered(p))
  BY <1>1 DEF IInv, TypeOK, PingAnswered, PingFails, Answer
<1>4. \A q \in Nodes \ {p} : serving[q] = n => n \in Restless
  BY <1>1 DEF IInv, HandshakeOK
<1>5. \/ PingAnswered(p) /\ AddPeer(p, n)
      \/ downtime' = downtime
  BY DEF PingAnswered, PingFails
<1>6. /\ \A m \in Nodes : Rows(m) \subseteq Rows(m)'
      /\ \A m \in Nodes \ {p} : Rows(m)' = Rows(m) /\ Counted(m)' = Counted(m)
      /\ Cardinality(Counted(p))' <= Cardinality(Counted(p)) + 1
      /\ Rows(p)' = Rows(p) \/ (PingAnswered(p) /\ Rows(p)' = Rows(p) \cup {n})
  <2>1. CASE PingAnswered(p) /\ AddPeer(p, n)
    BY <1>1, <2>1, AfterAddPeer DEF IInv
  <2>2. CASE downtime' = downtime
    <3>1. \A m \in Nodes : Rows(m)' = Rows(m) /\ Counted(m)' = Counted(m)
      BY <2>2 DEF Rows, Counted
    <3> QED
      BY <3>1, CountedIsFinite
  <2> QED
    BY <1>5, <2>1, <2>2
<1>7. ASSUME NEW m \in Nodes PROVE PlacesOK(m)'
  <2>1. CASE m = p
    <3>1. Places(p)' = Places(p) - 1
      BY <1>1, <1>2, <1>3 DEF Places, IInv, TypeOK, InTouch
    <3>2. Places(p) \in Nat \ {0}
      BY <1>1 DEF Places
    <3>3. Cardinality(Counted(p)) + Places(p) <= MaxPeers + 1
      BY <3>2 DEF IInv, PlacesOK
    <3>4. IsFiniteSet(Counted(p)')
      BY PeersAssumption, FS_Subset DEF Counted, Rows
    <3>5. Cardinality(Counted(p)') \in Nat /\ Cardinality(Counted(p)) \in Nat
      BY <3>4, FS_CardinalityType, CountedIsFinite
    <3> QED
      BY <1>6, <2>1, <3>1, <3>2, <3>3, <3>5, PeersAssumption DEF PlacesOK
  <2>2. CASE m # p
    <3>1. Places(m)' = Places(m)
      BY <1>1, <1>2, <1>3, <2>2 DEF Places, IInv, TypeOK, InTouch
    <3> QED
      BY <1>1, <1>6, <2>2, <3>1 DEF PlacesOK, IInv
  <2> QED
    BY <2>1, <2>2
<1>8. ASSUME NEW m \in Nodes PROVE HandshakeOK(m)'
  <2>1. main'[m] \in InTouch => at'[m] \in Nodes
    BY <1>1, <1>2, <1>3 DEF IInv, TypeOK, HandshakeOK, InTouch
  <2>2. main'[m] = "add" => m \in Rows(at[m])'
    <3>1. CASE main[m] = "add"
      <4>1. at'[m] = at[m] /\ at[m] \in Nodes /\ m \in Rows(at[m])
        BY <1>1, <3>1 DEF IInv, HandshakeOK, InTouch
      <4>2. m \in Rows(at'[m])
        BY <4>1
      <4> QED
        BY <1>6, <4>1, <4>2 DEF Rows
    <3>2. CASE main[m] # "add" /\ main'[m] = "add"
      <4>1. m = n /\ at[m] = p /\ PingAnswered(p)
        BY <1>2, <1>3, <3>2
      <4>2. AddPeer(p, n)
        BY <4>1 DEF PingAnswered
      <4> QED
        BY <1>1, <4>1, <4>2, AfterAddPeer DEF IInv
    <3> QED
      BY <3>1, <3>2
  <2>3. serving'[m] \in Nodes \ Restless =>
           main'[serving'[m]] = "wait" /\ at'[serving'[m]] = m
    BY <1>1, <1>2, <1>4 DEF IInv, TypeOK, HandshakeOK
  <2> QED
    BY <2>1, <2>2, <2>3 DEF HandshakeOK, Rows
<1>9. KnownToEachOther'
  <2> SUFFICES ASSUME NEW m \in Nodes \ Restless, NEW q \in Nodes \ Restless,
                      q \in Rows(m)' \ seeds[m]
               PROVE  m \in Rows(q)' \/ (main'[q] = "add" /\ at'[q] = m)
    BY <1>1 DEF KnownToEachOther
  <2>1. CASE q \in Rows(m)
    <3>1. m \in Rows(q) \/ (main[q] = "add" /\ at[q] = m)
      BY <2>1 DEF IInv, KnownToEachOther
    <3>2. main[q] = "add" => main'[q] = "add"
      BY <1>2, <1>3
    <3> QED
      BY <1>1, <1>6, <3>1, <3>2
  <2>2. CASE q \notin Rows(m)
    <3>1. m = p /\ q = n /\ PingAnswered(p)
      BY <1>6, <2>2
    <3>2. main[n] = "wait" /\ at[n] = p
      BY <1>1, <3>1 DEF IInv, HandshakeOK
    <3>3. main'[n] = "add"
      BY <1>1, <3>1, <3>2 DEF IInv, TypeOK, PingAnswered, Answer
    <3> QED
      BY <1>1, <3>1, <3>2, <3>3
  <2> QED
    BY <2>1, <2>2
<1> QED
  BY <1>7, <1>8, <1>9 DEF IInv

\* The place of the main process becomes a row, of a peer that has one for n.
LEMMA AcceptedKeepsIInv ==
    ASSUME IInv, TypeOK', NEW n \in Nodes, Accepted(n)
    PROVE  IInv'
<1> DEFINE p == at[n]
<1>1. /\ main[n] = "add" /\ p \in Nodes /\ n \in Rows(p)
      /\ AddPeer(n, p)
      /\ UNCHANGED <<seeds, serving>>
  BY DEF Accepted, IInv, HandshakeOK, InTouch
<1>2. /\ main'[n] = "check"
      /\ \A m \in Nodes \ {n} : main'[m] = main[m] /\ at'[m] = at[m]
  BY DEF Accepted, Continue, Goto, IInv, TypeOK
<1>3. /\ Rows(n)' = Rows(n) \cup {p}
      /\ Cardinality(Counted(n))' <= Cardinality(Counted(n)) + 1
      /\ \A m \in Nodes \ {n} : Rows(m)' = Rows(m) /\ Counted(m)' = Counted(m)
  BY <1>1, AfterAddPeer DEF IInv
<1>4. \A m \in Nodes : Rows(m) \subseteq Rows(m)'
  BY <1>3
<1>5. ASSUME NEW m \in Nodes PROVE PlacesOK(m)'
  <2>1. CASE m = n
    <3>1. Places(n)' = Places(n) - 1
      BY <1>1, <1>2 DEF Places, InTouch
    <3>2. Places(n) \in Nat \ {0}
      BY <1>1 DEF Places, InTouch
    <3>3. Cardinality(Counted(n)) + Places(n) <= MaxPeers + 1
      BY <3>2 DEF IInv, PlacesOK
    <3>4. IsFiniteSet(Counted(n)')
      BY PeersAssumption, FS_Subset DEF Counted, Rows
    <3>5. Cardinality(Counted(n)') \in Nat /\ Cardinality(Counted(n)) \in Nat
      BY <3>4, FS_CardinalityType, CountedIsFinite
    <3> QED
      BY <1>3, <2>1, <3>1, <3>2, <3>3, <3>5, PeersAssumption DEF PlacesOK
  <2>2. CASE m # n
    <3>1. Places(m)' = Places(m)
      BY <1>1, <1>2, <2>2 DEF Places
    <3> QED
      BY <1>1, <1>3, <2>2, <3>1 DEF PlacesOK, IInv
  <2> QED
    BY <2>1, <2>2
<1>6. ASSUME NEW m \in Nodes PROVE HandshakeOK(m)'
  <2>1. main'[m] \in InTouch => at'[m] \in Nodes
    BY <1>2 DEF IInv, HandshakeOK, InTouch
  <2>2. main'[m] = "add" => m \in Rows(at[m])'
    <3> SUFFICES ASSUME main'[m] = "add" PROVE m \in Rows(at[m])'
      OBVIOUS
    <3>1. m # n /\ main[m] = "add" /\ at'[m] = at[m]
      BY <1>2
    <3>2. at[m] \in Nodes /\ m \in Rows(at[m])
      BY <3>1 DEF IInv, HandshakeOK, InTouch
    <3>3. m \in Rows(at'[m])
      BY <3>1, <3>2
    <3> QED
      BY <1>4, <3>1, <3>2, <3>3 DEF Rows
  <2>3. serving'[m] \in Nodes \ Restless =>
           main'[serving'[m]] = "wait" /\ at'[serving'[m]] = m
    BY <1>1, <1>2 DEF IInv, HandshakeOK
  <2> QED
    BY <2>1, <2>2, <2>3 DEF HandshakeOK, Rows
<1>7. KnownToEachOther'
  <2> SUFFICES ASSUME NEW m \in Nodes \ Restless, NEW q \in Nodes \ Restless,
                      q \in Rows(m)' \ seeds[m]
               PROVE  m \in Rows(q)' \/ (main'[q] = "add" /\ at'[q] = m)
    BY <1>1 DEF KnownToEachOther
  <2>1. CASE q \in Rows(m)
    <3>1. m \in Rows(q) \/ (main[q] = "add" /\ at[q] = m)
      BY <2>1 DEF IInv, KnownToEachOther
    <3> QED
      BY <1>2, <1>3, <1>4, <3>1
  <2>2. CASE q \notin Rows(m)
    BY <1>1, <1>3, <1>4, <2>2
  <2> QED
    BY <2>1, <2>2
<1> QED
  BY <1>5, <1>6, <1>7 DEF IInv

\* A node that stops leaves its table, and a handshake to the other side.
LEMMA StopKeepsIInv ==
    ASSUME IInv, TypeOK', NEW n \in Nodes, Stop(n)
    PROVE  IInv'
<1>1. /\ n \in Restless
      /\ main' = [main EXCEPT ![n] = "off"]
      /\ at' = [at EXCEPT ![n] = NoNode]
      /\ serving' = [serving EXCEPT ![n] = NoNode]
      /\ UNCHANGED <<seeds, downtime>>
      /\ NoNode \notin Nodes
  BY PeersAssumption DEF Stop, Goto
<1>2. \A m \in Nodes : Rows(m)' = Rows(m) /\ Counted(m)' = Counted(m)
  BY <1>1 DEF Rows, Counted
<1>3. ASSUME NEW m \in Nodes PROVE PlacesOK(m)'
  <2>1. Places(m)' <= Places(m)
    BY <1>1 DEF Places, IInv, TypeOK, InTouch
  <2>2. Cardinality(Counted(m))' <= Cardinality(Counted(m))
    BY <1>2, CountedIsFinite
  <2> QED
    BY <1>1, <1>2, <2>1, <2>2, PlacesKept, PeersAssumption DEF IInv
<1>4. ASSUME NEW m \in Nodes PROVE HandshakeOK(m)'
  <2>1. main'[m] \in InTouch => main'[m] = main[m] /\ at'[m] = at[m]
    BY <1>1 DEF IInv, TypeOK, InTouch
  <2>2. main'[m] \in InTouch => at'[m] \in Nodes
    BY <2>1 DEF IInv, HandshakeOK
  <2>3. main'[m] = "add" => m \in Rows(at[m])'
    BY <1>1, <2>1 DEF IInv, HandshakeOK, InTouch, Rows
  <2>4. serving'[m] \in Nodes \ Restless =>
           main'[serving'[m]] = "wait" /\ at'[serving'[m]] = m
    BY <1>1 DEF IInv, TypeOK, HandshakeOK
  <2> QED
    BY <2>2, <2>3, <2>4 DEF HandshakeOK, Rows
<1>5. KnownToEachOther'
  BY <1>1, <1>2 DEF IInv, TypeOK, KnownToEachOther
<1> QED
  BY <1>3, <1>4, <1>5 DEF IInv

------------------------------------------------------------------------------
(* The invariant *)

\* The tables hold the seeds and nobody is in touch with anybody.
LEMMA InitIInv == Init => IInv
<1> SUFFICES ASSUME Init PROVE IInv
  OBVIOUS
<1>1. TypeOK
  BY PeersAssumption DEF Init, TypeOK, Absent
<1>2. \A n \in Nodes : Rows(n) = seeds[n]
  BY PeersAssumption DEF Init, Rows, Absent
<1>3. \A n \in Nodes : main[n] \notin InTouch /\ serving[n] = NoNode
  BY DEF Init, InTouch
<1>4. \A n \in Nodes : PlacesOK(n)
  BY <1>2, <1>3 DEF PlacesOK, Places
<1>5. \A n \in Nodes : HandshakeOK(n)
  BY <1>3, PeersAssumption DEF HandshakeOK, InTouch
<1>6. KnownToEachOther
  BY <1>2 DEF KnownToEachOther
<1> QED
  BY <1>1, <1>4, <1>5, <1>6 DEF IInv

LEMMA NextIInv == IInv /\ [Next]_vars => IInv'
<1> SUFFICES ASSUME IInv, [Next]_vars PROVE IInv'
  OBVIOUS
<1>1. TypeOK'
  BY TypeInductive
<1>2. CASE UNCHANGED vars
  <2>1. UNCHANGED <<seeds, downtime, main, at, serving>>
    BY <1>2 DEF vars
  <2>2. \A m \in Nodes : Rows(m)' = Rows(m) /\ Counted(m)' = Counted(m)
    BY <2>1 DEF Rows, Counted
  <2>3. ASSUME NEW m \in Nodes PROVE PlacesOK(m)' /\ HandshakeOK(m)'
    <3>1. PlacesOK(m) /\ HandshakeOK(m)
      BY DEF IInv
    <3>2. Places(m)' = Places(m)
      BY <2>1 DEF Places
    <3>3. PlacesOK(m)'
      BY <2>1, <2>2, <3>1, <3>2 DEF PlacesOK
    <3>4. HandshakeOK(m)'
      BY <2>1, <3>1 DEF HandshakeOK, Rows
    <3> QED
      BY <3>3, <3>4
  <2>4. KnownToEachOther'
    BY <2>1, <2>2 DEF IInv, KnownToEachOther
  <2> QED
    BY <1>1, <2>3, <2>4 DEF IInv
<1>3. ASSUME NEW n \in Nodes, Stop(n) PROVE IInv'
  BY <1>1, <1>3, StopKeepsIInv
<1>4. ASSUME NEW n \in Nodes, MainStep(n) PROVE IInv'
  BY <1>1, <1>4, QuietSteps, AcceptedKeepsIInv, ReceiveKeepsIInv DEF MainStep
<1>5. ASSUME NEW n \in Nodes, ServerStep(n) PROVE IInv'
  BY <1>1, <1>5, PingKeepsIInv DEF ServerStep
<1>6. ASSUME NEW n \in Nodes, Start(n) \/ ServerUp(n) \/ BroadcastFails(n)
      PROVE  IInv'
  BY <1>1, <1>6, QuietSteps
<1> QED
  BY <1>2, <1>3, <1>4, <1>5, <1>6 DEF Next

\* Start, handshake, failures and restarts keep the inductive invariant, in a
\* network of any size.
THEOREM Invariance == Spec => []IInv
  BY InitIInv, NextIInv, PTL DEF Spec

\* The variables of main processes, servers and tables keep their types.
THEOREM Typing == Spec => []TypeOK
  BY Invariance, PTL DEF IInv

\* The table of a node exceeds the maximum of peers by one at most, although its
\* main process and its server add to it side by side: the two hold at most two
\* places, and the second is taken only below the maximum.
THEOREM LimitIsNearlyKept == Spec => []OverrunByOne
<1>1. IInv => OverrunByOne
  <2> SUFFICES ASSUME IInv, NEW n \in Nodes,
                      Cardinality(Counted(n)) + Places(n) <= MaxPeers + 1
               PROVE  Cardinality(Counted(n)) <= MaxPeers + 1
    BY DEF IInv, PlacesOK, OverrunByOne
  <2>1. Places(n) \in Nat /\ Cardinality(Counted(n)) \in Nat
    BY CountedIsFinite DEF Places
  <2> QED
    BY <2>1, PeersAssumption
<1> QED
  BY <1>1, Invariance, PTL

\* connect adds the initiator before the initiator adds the recipient, so nobody
\* takes up a node that does not know of it.
THEOREM HandshakesAreMutual == Spec => []KnownToEachOther
  BY Invariance, PTL DEF IInv
==============================================================================
