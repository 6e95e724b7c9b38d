CONSTANTS
  a = a
  b = b
  t1 = t1
  v = v
  w = w
  NoDoc = NoDoc
  Kinds = {"contacts"}
  Clients = {a, b}
  Admins = {a, b}
  Mine <- OneTeamEach
  Teams = {t1}
  Items = {1, 2}
  Values = {v, w}
  Start <- StartTwo
  MaxEdits <- EditsOf
  MaxMail = 2
SPECIFICATION Spec
PROPERTY DeleteIsWritten
\* Taps are bounded and nobody has to tap: the phones may all be at rest.
CHECK_DEADLOCK FALSE
