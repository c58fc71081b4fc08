CONSTANTS
  s1 = s1
  s2 = s2
  k1 = k1
  k2 = k2
  None = None
  Slot = {s1, s2}
  Kid = {k1, k2}
  Schedules <- MCSchedules
  Ttl = 3
  MinInterval = 1
  EdgeTtl = 1
  MaxTime = 5
  MaxFailures = 1
  Caller = {r1, r2}
  Peer = {r2}
  Sent <- MCSent
  MaxRev = 2
  MaxFaults = 1
  Visitor = {1, 2}
  Deployments <- MCDeployments
  Offers <- MCOffers
  Skew = 1
  AssertionLife = 2
  Resync = 2
  LastTime = 3
  MaxEdits = 2
SPECIFICATION PathSpec
INVARIANTS
  AcceptedKeysAreRecent
  RefetchesAreTimely
  AnswersAreTrue
PROPERTIES
  StrangersTouchNothing
CHECK_DEADLOCK FALSE
