SPECIFICATION FSpec
CONSTANTS
    c1 = c1
    e1 = e1
    inside = inside
    outside = outside
    pod = pod
    cloud = cloud
    NoTarget = NoTarget
    Switches = {c1, e1}
    Flows = {inside, outside}
    LocalFlows = {inside}
    Addresses = {pod, cloud}
    Hosts = {pod}
    Decisions <- MCDecisions
    MaxNow = 2
    MaxWire = 2
    MaxLosses = 1
SYMMETRY SwitchSymmetry
INVARIANTS
    SwitchHoldsLastRule
    RulesAreOnRecord
