SPECIFICATION FairSpec
CONSTANTS
    Key = {"a", "b"}
    Slot = {1, 2}
    Present = {"a"}
    MaxCalls = 3
    MaxOthers = 1
    None = None
INVARIANTS
    NothingOldLingers
PROPERTIES
    SavesReplaceWhatWasSeen
    RevealedIsDropped
