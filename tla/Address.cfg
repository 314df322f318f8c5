SPECIFICATION OSpec
CONSTANTS
    Self = dev1
    Devices = {dev1}
    DeployModes = {"helm"}
    MaxInst = 3
    MaxPolicies = 2
    MaxCrashes = 0
    MaxFaults = 0
    FreqGuard = 1
    AbateHold = 2
INVARIANT AddressIsResolved
