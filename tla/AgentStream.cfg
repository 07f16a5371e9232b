\* Five directives over three streams, channels of one.
SPECIFICATION FairSpec
CONSTANTS
  Buffer = 1
  RateCap = 1
  MaxStreams = 3
  MaxDirectives = 5
INVARIANTS
  TypeOK
  AnswersInOrder
PROPERTIES
  ImplementsProber
  FirstStreamAnswers
  BreakNoticed
  AgentEnds
