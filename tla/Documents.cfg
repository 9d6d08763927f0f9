SPECIFICATION Spec
CONSTANTS
  c1 = c1
  c2 = c2
  k1 = k1
  k2 = k2
  Clients <- MCClients
  Keys <- MCKeys
  Values <- MCValues
  Length <- MCLength
  Serializers = {"JsonNet", "Bson", "ProtoBuf"}
  MaxFaults = 1
SYMMETRY Symmetry
INVARIANTS
  NothingLeft
PROPERTIES
  ImplementsRegister
