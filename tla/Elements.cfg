\* An agent sends three elements, two HTTP clients read when they please, Run is
\* cancelled at some time.
SPECIFICATION FairSpec
CONSTANTS
  DirectiveStreams = {}
  ElementStreams = {e1}
  Clients = {c1, c2}
  DirectivesEach = 0
  ElementsEach = 3
  Capacity <- MCCapacity
  MaxArrivals <- MCMaxArrivals
INVARIANTS
  ElementsInOrder
PROPERTIES
  FanOutFlows
  ShutdownTerminates
