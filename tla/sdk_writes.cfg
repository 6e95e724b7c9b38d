CONSTANTS
  a = a
  SignedOut = SignedOut
  NoUser = NoUser
  Users = {a, SignedOut}
  MaxPendingWrites = 2
  MaxWrites = 3
  MaxTroubles = 2
SPECIFICATION FairSpec
INVARIANTS TypeOK AssertionsHold AnswersMatch AnswersTrue
PROPERTIES Delivered Flushed
\* Writes and failures are bounded: in the end there is nothing left to do.
CHECK_DEADLOCK FALSE
