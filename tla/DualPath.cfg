SPECIFICATION DSpec
CONSTANTS
    c1 = c1
    inside = inside
    outside = outside
    pod = pod
    NoTarget = NoTarget
    Switches = {c1}
    Flows = {inside, outside}
    LocalFlows = {inside}
    Addresses = {pod}
    Hosts = {pod}
    Decisions <- MCDecisions
    MaxNow = 1
    MaxWire = 2
    MaxLosses = 1
    MaxPublished = 2
INVARIANT DualPathInv
