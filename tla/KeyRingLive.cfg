SPECIFICATION FairSpec
CONSTANTS
    Client = {"c1"}
    Admin = {"a1"}
    Value = {"x", "y"}
    Limits = {1, 2}
    MaxKeys = 2
    MaxRows = 2
    MaxFaults = 1
    Patient = FALSE
    Careless = TRUE
PROPERTIES
    ContentsSurvive
    RotationFinishes
CHECK_DEADLOCK FALSE
