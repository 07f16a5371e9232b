\* Run is cancelled while a directive is being pushed into its queue.
SPECIFICATION Spec
CONSTANTS
  DirectiveStreams = {p1}
  ElementStreams = {e1}
  Clients = {}
  DirectivesEach = 2
  ElementsEach = 0
  Capacity <- MCCapacity
  MaxArrivals <- MCMaxArrivals
INVARIANT
  ShutdownSurvived
