SPECIFICATION Spec
CONSTANTS
  Name = {"default", "acme", "acme-2", "globex", "globex-2"}
  DefaultName = "default"
  Url = {"acme.example", "globex.example"}
  Instance = {"i1", "i2"}
  None = None
  HostNames <- MCHostNames
  FirstDeployed <- MCDeployed
  Menu <- MCMenu
  Scenes <- MCScenes
  Proc = {p1, p2}
SYMMETRY Terminals
INVARIANTS
  NamesKeepTheirMeaning
  SessionsAreKept
PROPERTIES
  BothPersist
CHECK_DEADLOCK FALSE
