CONSTANTS
  Client = {a, b}
  MaxRetries = 1
  MaxCalls = 1
  MaxFaults = 1
  Deadline = 3
  ReadTimeout = 2
  MaxTime = 7
  MaxConnections = 2
  MaxBytes = 2
  ExitCodes = {0, 7}
  MaxEvents = 1
  MaxLength = 4
  Machine = {"glibc", "musl", "darwin", "other"}
  Builds = {"linux-gnu", "linux-musl", "darwin"}
  EndCodes = {0, 1, 130}
  MaxSignals = 3
  Deployment = {"home", "other"}
  Pinned = "home"
  Call = {"c1", "c2"}
  Settings <- MCSettings
  Cut = {"cut 1", "cut 2", "cut 3"}
  Clone = {"a", "b"}
  FarCut = "cut 3"
  Attempts = 2
  Platform = {"gnu", "msvc"}
  RunsOn = "gnu"
  LastVersion = 1
  MaxDispatch = 1
  MaxReruns = 1
  Tokens = {"t1", "t2"}
  Project = {"p1", "p2"}
  Blank = Blank
  MaxRequests = 3
  SecretKey = {"a", "b"}
  Files <- MCFiles
  KeptKeys = {"a"}
  MaxImports = 2
  MaxWrites = 1
SPECIFICATION Spec
INVARIANTS
  OutcomesAreTrue
  LoginsEndAsTheyShould
  ProgramsStartCleanAndEnd
  EndsAsTheProgram
  WritesLandWhereSaid
  ReleasesAreComplete
PROPERTIES
  AppliedOnce
  PagesDoAsTheyShow
CHECK_DEADLOCK FALSE
