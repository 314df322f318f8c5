SPECIFICATION FairSpec
CONSTANTS
    P15T1 = 50
    P5T2 = 70
    P1T3 = 85
    ConfT3 = 85
    ConfT4 = 95
    Devices = {d1}
    Prefixes = {net1, net2}
    NoPrefix = NoPrefix
    Signals <- MCSignals
    FreqGuard = 2
    EscalateWins = 2
    BufLen = 3
    AbateP = 30
    AttackSeen = 50
    AbateHold = 4
    DedupWindow = 2
    KeyBucket = 2
INVARIANTS
    HTypeOK
    DedupOnlyWhileMitigating
PROPERTIES
    DemotionsReachNormal
    DemotionNeedsSustainedCalm
    EscalationNeedsStreak
    ImplementsGraduatedResponse
    PersistentAttackIsMet
    CalmReleasesDevice
