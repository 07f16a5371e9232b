\* Two agents come and go; five directives over two streams, a channel of one.
SPECIFICATION FairSpec
CONSTANTS
  Agents = {a1, a2}
  Rate = 1
  Buffer = 1
  MaxStreams = 2
  MaxDirectives = 5
INVARIANTS
  TypeOK
  SentInOrder
  StaleBounded
PROPERTIES
  Flows
  GeneratorEnds
