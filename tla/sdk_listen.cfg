CONSTANTS
  d1 = d1
  d2 = d2
  Collection = Collection
  Nothing = Nothing
  Docs = {d1, d2}
  MaxCommits = 3
  MaxWrites = 1
  MaxTroubles = 2
SPECIFICATION FairSpec
INVARIANTS ShownIsServer
PROPERTIES CaughtUp
\* Commits and failures are bounded: in the end there is nothing left to tell.
CHECK_DEADLOCK FALSE
