\* The orchestrator restarts; no call is lost otherwise.
SPECIFICATION FairSpec
CONSTANTS
  Agents = {a1}
  Generators = {g1}
  Addresses = {a1}
  AddressOf <- MCAddressOf
  Addressee <- MCAddressee
  MaxJoins <- MCMaxJoins
  AgentJoins = 2
  GeneratorJoins = 2
  MaxRestarts = 1
  Lossy = FALSE
  PromptUpdates = TRUE
  PromptReplies = TRUE
INVARIANTS
  OneRegistration
PROPERTIES
  UsesStoreWell
  BrokenRejoin
  ShutdownEnds
