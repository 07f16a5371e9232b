\* Directives of one flow; replies are lost, late and repeated; Close at any time.
SPECIFICATION FairSpec
CONSTANTS
  d1 = d1
  d2 = d2
  Directives = {d1, d2}
  FlowOf <- MCFlowOf
  ProtocolOf <- MCProtocolOf
  TtlOf <- MCTtlOf
  Buffer = 1
  None = None
INVARIANTS
  TypeOK
  RepliesMatch
  OneLateAnswer
PROPERTIES
  ImplementsProber
  DirectivesTaken
  RunEnds
