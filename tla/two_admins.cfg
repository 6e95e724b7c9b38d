CONSTANTS
  a = a
  b = b
  c = c
  t1 = t1
  t2 = t2
  k1 = k1
  k2 = k2
  NoDoc = NoDoc
  Users = {a, b, c}
  Clients = {a, b}
  Teams = {t1}
  Codes = {k1}
  Slots <- OneSlot
  Starts <- FullTeam
  Patient = TRUE
  Failures = {}
  MaxEdits = 2
  MaxRows = 1
  MaxCrashes = 0
SPECIFICATION Spec
INVARIANTS TypeOK HasAdmin RolesDisjoint RowsMatchTeam
PROPERTY TappedRowMoves
\* Taps are bounded and nobody has to tap: the phones may all be at rest.
CHECK_DEADLOCK FALSE
