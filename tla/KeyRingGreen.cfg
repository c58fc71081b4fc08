SPECIFICATION Spec
CONSTANTS
    Client = {"c1"}
    Admin = {"a1"}
    Value = {"x"}
    Limits = {1}
    MaxKeys = 2
    MaxRows = 2
    MaxFaults = 0
    Patient = FALSE
    Careless = FALSE
INVARIANTS
    RemovingOnGreenLosesNothing
CHECK_DEADLOCK FALSE
