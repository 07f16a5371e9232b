------------------------------- MODULE MCCluster -------------------------------
(* Small instances of the cluster.  Everybody has an address of their own.  *)
EXTENDS Cluster

MCAddressOf == [a \in Agents |-> a]
MCAddressee == [g \in Generators |-> g]

\* How often each process may join, by the number of restarts it has to survive.
CONSTANT AgentJoins, GeneratorJoins
MCMaxJoins == [c \in Agents \cup Generators |-> IF c \in Agents THEN AgentJoins ELSE GeneratorJoins]

=============================================================================
