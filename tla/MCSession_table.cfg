SPECIFICATION FairSpec
CONSTANTS
  NSess = 2
  NSubs = 1
  Id = {1, 2}
  Token = {1, 2}
  Chan = {1, 2}
  User = {1, 2}
  MinTimeout = 1
  MaxTimeout = 1
  Requested = {0, 2}
  ChangeUser = TRUE
  MaxCount = 2
INVARIANTS UniqueSessions NoOrphanSubscription CountsFollow NonceAgrees
PROPERTY IdleEnds
