CONSTANTS
  a = a
  b = b
  c = c
  t1 = t1
  t2 = t2
  k1 = k1
  k2 = k2
  NoDoc = NoDoc
  Users = {a, c}
  Clients = {a, c}
  Teams = {t1}
  Codes = {k1}
  Slots <- TwoSlots
  Starts <- NewUsers
  Patient = TRUE
  Failures <- Failing
  MaxEdits = 2
  MaxRows = 1
  MaxCrashes = 1
SPECIFICATION FairSpec
INVARIANTS RefIntegrity RolesDisjoint
PROPERTY JoinRecorded
\* Taps are bounded and nobody has to tap: the phones may all be at rest.
CHECK_DEADLOCK FALSE
