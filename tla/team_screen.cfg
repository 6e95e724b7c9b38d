CONSTANTS
  Home = Home
  ours = ours
  other = other
  Teams = {ours, other}
  AdminOf = {ours}
  Contacts <- UpTo2
  Announcements <- UpTo1
  Events <- UpTo2
SPECIFICATION FairSpec
INVARIANTS TypeOK EveryItemOnce TapOpensCell AdminRowsOwn ContactRowsExist
PROPERTY AdminSees
