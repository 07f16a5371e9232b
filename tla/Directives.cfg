\* A generator pushes two directives, two agents take them, Run is cancelled at some time.
SPECIFICATION FairSpec
CONSTANTS
  DirectiveStreams = {p1}
  ElementStreams = {e1, e2}
  Clients = {}
  DirectivesEach = 2
  ElementsEach = 0
  Capacity <- MCCapacity
  MaxArrivals <- MCMaxArrivals
INVARIANTS
  TypeOK
  AcceptedOnce
  DirectivesInOrder
PROPERTIES
  DirectivesFlow
  ShutdownTerminates
