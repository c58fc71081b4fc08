SPECIFICATION FairSpec
CONSTANTS
    Token = {"made", "new"}
    ByHand = {"made"}
    NoToken = "none"
    Slot = {1, 2}
    Workloads <- MCWorkloads
    MinAge = 2
    MissingLimit = 10
    Prompt = TRUE
    MaxTime = 3
    MaxFaults = 1
INVARIANTS
    RecordedTokensSurvive
PROPERTIES
    RevocationIsFinal
    DriftIsRepaired
