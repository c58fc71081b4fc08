SPECIFICATION Spec
CONSTANTS
    Client = {"c1"}
    Admin = {"a1", "a2"}
    Value = {"x"}
    Limits = {1, 2}
    MaxKeys = 3
    MaxRows = 2
    MaxFaults = 0
    Patient = TRUE
    Careless = FALSE
INVARIANTS
    NothingStranded
    DoneMeansDone
CHECK_DEADLOCK FALSE
