SPECIFICATION FairSpec
CONSTANTS
    MaxUpdates = 2
    MaxSignaling = 1
    StartTimeout = 1
    EndTimeout = 1
    MaxSignals = 2
    MaxForeign = 1
    MaxWire = 2
INVARIANTS TypeOK MediaReleased EndIsConfirmed SignalingInOrder
PROPERTIES CallBounded
CHECK_DEADLOCK FALSE
