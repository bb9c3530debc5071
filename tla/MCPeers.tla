------------------------------- MODULE MCPeers -------------------------------
(***************************************************************************)
(* Instances of Peers for TLC.  Nodes a and d, or a and b, start while the *)
(* others run.                                                             *)
(***************************************************************************)
EXTENDS Peers, TLC

CONSTANTS a, b, c, d, e     \* model values: the hosts

\* Everybody but c knows c only; c has heard of those in S.
Common(S) == [n \in Nodes |-> IF n = c THEN S ELSE {c}]

\* In the last case d knows a only, which may not run yet.
MCTables == {Common({a, b, e}), [Common({b, d}) EXCEPT ![d] = {a}]}

\* Of three nodes; in the last case b knows a only, and learns of c from a.
MCTablesAll == {Common({a, b})}
MCTablesOfStarts == MCTablesAll \cup {[Common({a}) EXCEPT ![b] = {a}]}
MCTablesFew == {Common({b})}

\* All on one network, or one node on another.
OneNetwork == [n \in Nodes |-> "main"]
MCNetworks == {OneNetwork} \cup {[OneNetwork EXCEPT ![n] = "test"] : n \in {b, c}}
MCNetworksOfSeed == {OneNetwork, [OneNetwork EXCEPT ![c] = "test"]}
==============================================================================
