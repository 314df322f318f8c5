SPECIFICATION Spec
CONSTANTS
    P15T1 = 50
    P5T2 = 70
    P1T3 = 85
    ConfT3 = 85
    ConfT4 = 95
    M2P15 = 50
    M2P5 = 70
    M2P1 = 85
    M2ConfT3 = 85
    M2ConfT4 = 95
    Results <- MCResults
    OldVectors <- MCOldVectors
    Loads <- MCLoads
    TreeSizes = {2, 4}
INVARIANTS
    AlarmAgreesWithTier
    DetectedAttackIsDeployable
    ChainsAgree
    OlderModelsStillAlarm
    PriorityRespected
    FallbackAsGoodAsLp
    BaseRoutesDeliver
    ShownPathIsTaken
PROPERTY
    MonotoneResponse
