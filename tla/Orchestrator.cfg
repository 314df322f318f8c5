SPECIFICATION OSpec
CONSTANTS
    Self = dev1
    Devices = {dev1}
    DeployModes = {"stub", "helm", "onap"}
    MaxInst = 3
    MaxPolicies = 2
    MaxCrashes = 1
    MaxFaults = 2
    FreqGuard = 1
    AbateHold = 2
INVARIANTS
    OTypeOK
    OwnershipInv
    SteeredAtOwnPod
    TierIsInForce
    NoLeakedInstance
    NormalIsClean
