\* Every operation of the store in every order.
SPECIFICATION Spec
CONSTANTS
  s1 = s1
  s2 = s2
  s3 = s3
  port1 = port1
  port2 = port2
  AgentUuids = {a1, a2, a3}
  GeneratorUuids = {g1}
  Specs = {s1, s2, s3}
  Addresses = {port1, port2}
  AddressOf <- MCAddressOf
  SharedAddresses = TRUE
INVARIANTS
  TypeOK
  KeysAgree
PROPERTIES
  ChangeIsAnnounced
