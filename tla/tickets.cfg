SPECIFICATION Spec
CONSTANTS
  Users = {amy, bob, carol}
  Events = {e1}
  None = None
  MaxTickets = 3
  MaxBatch = 2
SYMMETRY Interchangeable
INVARIANTS TypeOK OwnerIndexConsistent AttendanceConsistent
PROPERTIES KeepsHoldings
