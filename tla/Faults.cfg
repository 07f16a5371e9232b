\* Any call fails at its caller, any stream breaks; an agent joins twice with one address.
SPECIFICATION Spec
CONSTANTS
  Agents = {a1}
  Generators = {g1}
  Addresses = {a1}
  AddressOf <- MCAddressOf
  Addressee <- MCAddressee
  MaxJoins <- MCMaxJoins
  AgentJoins = 2
  GeneratorJoins = 1
  MaxRestarts = 1
  Lossy = TRUE
  PromptUpdates = FALSE
  PromptReplies = FALSE
INVARIANTS
  TypeOK
  ChangesAttempted
  NoGhosts
PROPERTIES
  KeptUntilShutdown
