SPECIFICATION Spec
CONSTANTS
    Values = {x, y}
    Unset = Unset
    Versions = {1, 2}
    NoVersion = 0
    MaxUpgrades = 3
    MaxBlocks = 6
INVARIANTS StorageFresh MetadataFollows
CHECK_DEADLOCK FALSE
