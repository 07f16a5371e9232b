\* Two agents come and go; no call is lost, and calls end before the next tick.
SPECIFICATION FairSpec
CONSTANTS
  Agents = {a1, a2}
  Generators = {g1}
  Addresses = {a1, a2}
  AddressOf <- MCAddressOf
  Addressee <- MCAddressee
  MaxJoins <- MCMaxJoins
  AgentJoins = 1
  GeneratorJoins = 1
  MaxRestarts = 0
  Lossy = FALSE
  PromptUpdates = TRUE
  PromptReplies = TRUE
INVARIANTS
  ViewsAgree
  ListsExact
PROPERTIES
  ViewsCatchUp
