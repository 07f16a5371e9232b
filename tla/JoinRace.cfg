\* A Join response may be overtaken by the next notification.
SPECIFICATION Spec
CONSTANTS
  Agents = {a1}
  Generators = {g1}
  Addresses = {a1}
  AddressOf <- MCAddressOf
  Addressee <- MCAddressee
  MaxJoins <- MCMaxJoins
  AgentJoins = 1
  GeneratorJoins = 1
  MaxRestarts = 0
  Lossy = FALSE
  PromptUpdates = TRUE
  PromptReplies = FALSE
INVARIANT
  ViewsAgree
