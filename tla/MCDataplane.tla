------------------------------ MODULE MCDataplane ------------------------------
(* Small instances of the data plane: every queue holds one message, and    *)
(* as much arrives on each connection of a kind.                            *)
EXTENDS Dataplane

CONSTANT DirectivesEach, ElementsEach

MCCapacity == [q \in Queues \cup {"client"} |-> 1]
MCMaxArrivals ==
  [s \in Streams |-> IF s \in DirectiveStreams THEN DirectivesEach ELSE ElementsEach]
=============================================================================
