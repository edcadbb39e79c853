-------------------------- MODULE MCGatewayTunnel --------------------------
EXTENDS GatewayTunnel, TLC
Symmetry == Permutations(Threads) \cup Permutations(Procs) \cup Permutations(Nodes)

\* Liveness without enclosing operations: they hold the coordinator longer and
\* add no lock, and the behaviours that use them double the graph.
LiveSpec == Init /\ [][Next /\ outer' = NoActor]_vars /\ Fairness
============================================================================
