CONSTANTS
  Client = {a}
  MaxRetries = 1
  MaxCalls = 2
  MaxFaults = 2
  Deadline = 3
  ReadTimeout = 2
  MaxTime = 7
  MaxConnections = 2
  MaxBytes = 2
  MaxText = 4
  MaxValue = 2
  Texts <- MCTexts
  Values <- MCValues
  Version = {"v1", "v2", "v3"}
  Admits <- MCAdmits
  Tags = {"next"}
  Sound = {"v1", "v2"}
  Inputs <- MCInputs
  Environment <- MCEnvironment
  Delimiters = {"d1", "d2"}
  MaxAttempts = 3
  Writer = {"w1", "w2"}
  Key = {"a", "b"}
  Value = {"x"}
  MaxSecrets = 1
  NoValue = "no value"
  MaxRev = 2
  MaxEnv = 1
SPECIFICATION Spec
INVARIANTS
  WhatIsWrittenReadsBack
  SecretsArriveAndOnlyThey
PROPERTIES
  WhatIsBegunEnds
CHECK_DEADLOCK FALSE
