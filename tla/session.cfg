CONSTANTS
  a = a
  b = b
  c = c
  Nobody = Nobody
  Users = {a, b, c}
  HasTeams = {a, b}
  Slots <- ThreeSlots
  Patient = TRUE
  MaxFailures = 2
  MaxCrashes = 1
SPECIFICATION FairSpec
INVARIANTS TypeOK OwnTeams DocsMatchAccounts OnlyDeletedLinger
PROPERTIES DeletesOwnInfo TeamsShown
\* Once all accounts are deleted there is nobody left to do anything.
CHECK_DEADLOCK FALSE
