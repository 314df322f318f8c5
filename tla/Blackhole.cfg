SPECIFICATION Spec
CONSTANTS
    Addresses = {a1, a2}
    MaxRules = 2
    MaxFaults = 2
INVARIANTS
    ListedIsDropped
    StandbyDropsNothing
