CONSTANTS
  a = a
  b = b
  NoDoc = NoDoc
  Clients = {a, b}
  Admins = {a, b}
  Items = {1, 2}
  Dates = {1, 2}
  Start <- OneEvent
  MaxEdits = 2
  MaxMail = 1
SPECIFICATION FairSpec
INVARIANTS TypeOK Agrees RowsCurrent DetailAgrees
PROPERTY Shown
\* Taps are bounded and nobody has to tap: the phones may all be at rest.
CHECK_DEADLOCK FALSE
