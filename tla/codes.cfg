CONSTANTS
  t1 = t1
  t2 = t2
  Blank = Blank
  Other = Other
  NoCode = NoCode
  Base = 2
  Size = 3
  Teams = {t1, t2}
  MaxTaps = 2
  Inserts <- ShortInserts
SPECIFICATION Spec
INVARIANTS TypeOK Spaced BackspaceErases CodeFindsTeam
