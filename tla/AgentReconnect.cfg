\* Two directives over two streams.
SPECIFICATION FairSpec
CONSTANTS
  Buffer = 1
  RateCap = 1
  MaxStreams = 2
  MaxDirectives = 2
PROPERTIES
  EveryStreamAnswers
