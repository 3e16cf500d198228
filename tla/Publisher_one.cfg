CONSTANTS
  c1 = c1
  c2 = c2
  Tenants = {1}
  Clients = {c1, c2}
  MaxPayloads = 2
  MaxRuns = 2
SPECIFICATION Spec
SYMMETRY ClientSymmetry
INVARIANTS SlotOwnership OneWriterPerTenant
PROPERTY SlotsSpec
CHECK_DEADLOCK FALSE
