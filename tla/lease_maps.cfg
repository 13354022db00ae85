SPECIFICATION Spec
CONSTANTS
  Ids = {i1, i2}
  Endpoints = {e1, e2, e3}
  Addresses = {p1, p2, p3}
  Null = Null
INVARIANTS
  Mirrored
  NoDangling
PROPERTIES
  ImplementsTable
